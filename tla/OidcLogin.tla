------------------------------ MODULE OidcLogin ------------------------------
(***************************************************************************)
(* Browser sign-in (control_plane/oidc.py, postgres_oidc_store.py, the      *)
(* routes of api.py and the SQL routines of control_assurance_auth).  A     *)
(* login reserves an admission, protects its PKCE verifier and is made      *)
(* ready; any number of callbacks may then present its cookie, on any       *)
(* replica; the one that consumes it exchanges the code and creates a       *)
(* session.  Replicas read their own clocks, which may lag.                 *)
(***************************************************************************)
EXTENDS Integers, FiniteSets

CONSTANTS Logins,         \* transaction handles, fresh for every login
          Sources,        \* client addresses
          Callbacks,      \* requests of /auth/callback; each has a fresh session handle
          GlobalLimit, SourceLimit, BurnCapacity,   \* OIDCLoginAdmissionPolicy
          ReservationTtl, TransactionTtl, SessionTtl, BurnRetention,
          MaxTokenAge, MaxAuthAge, TokenSkew,       \* OIDCConfiguration, MFAPolicy
          Lag,            \* how far a replica's clock may be behind
          MaxInstant      \* bound of time

ASSUME OidcLoginConstants ==
    /\ Logins # {}
    /\ {GlobalLimit, SourceLimit, BurnCapacity, ReservationTtl, TransactionTtl, SessionTtl,
        BurnRetention, MaxTokenAge, MaxAuthAge, TokenSkew, Lag, MaxInstant} \subseteq Nat

VARIABLES admission,  \* oidc_login_admissions; a ready row has its authorization transaction
          begin,      \* progress of begin, per login
          burn,       \* authorization_transaction_burns: purge_after, or -1
          callback,   \* progress of complete, per callback
          session,    \* browser_sessions, per session handle
          instant

loginVars == <<admission, begin, burn, callback, session, instant>>

NoAdmission == [phase |-> "none", source |-> CHOOSE s \in Sources : TRUE,
                reservedUntil |-> 0, until |-> 0]
NoCallback == [pc |-> "idle", login |-> CHOOSE l \in Logins : TRUE, at |-> 0, auth |-> 0, exp |-> 0]
NoSession == [state |-> "none", login |-> CHOOSE l \in Logins : TRUE,
              issued |-> 0, expires |-> 0, auth |-> 0, used |-> -1]

LoginInit ==
    /\ admission = [l \in Logins |-> NoAdmission]
    /\ begin = [l \in Logins |-> "idle"]
    /\ burn = [l \in Logins |-> -1]
    /\ callback = [c \in Callbacks |-> NoCallback]
    /\ session = [c \in Callbacks |-> NoSession]
    /\ instant = 0

\* What a replica's clock may show.
Readings == {t \in (instant - Lag)..instant : t >= 0}

-----------------------------------------------------------------------------
(* begin: two database transactions around the key service *)

IsActive(l, t) ==
    \/ admission[l].phase = "reserved" /\ admission[l].reservedUntil > t
    \/ admission[l].phase = "ready" /\ admission[l].until > t

\* Rows past their time go before anything is counted.
CleanAdmissions(t) ==
    [l \in Logins |-> IF IsActive(l, t) THEN admission[l] ELSE NoAdmission]
PurgeBurns(t) == [l \in Logins |-> IF burn[l] > t THEN burn[l] ELSE -1]
Burned(b) == {l \in Logins : b[l] # -1}

\* reserve_login_admission, under the global admission lock and on database time.
ReserveLoginAdmission(l, s) ==
    LET active == {k \in Logins : IsActive(k, instant)}
        burns == PurgeBurns(instant)
        admitted == /\ Cardinality(Burned(burns)) < BurnCapacity
                    /\ Cardinality(active) < GlobalLimit
                    /\ Cardinality({k \in active : admission[k].source = s}) < SourceLimit IN
    /\ begin[l] = "idle"
    /\ burn' = burns
    /\ \/ /\ admitted
          /\ \E at \in Readings :
               admission' = [CleanAdmissions(instant) EXCEPT ![l] =
                 [phase |-> "reserved", source |-> s, reservedUntil |-> instant + ReservationTtl,
                  until |-> at + TransactionTtl]]
          /\ begin' = [begin EXCEPT ![l] = "protect"]
       \/ /\ ~admitted
          /\ admission' = CleanAdmissions(instant)
          /\ begin' = [begin EXCEPT ![l] = "failed"]
    /\ UNCHANGED <<callback, session, instant>>

ProtectVerifier(l) ==
    /\ begin[l] = "protect"
    /\ \E next \in {"finalize", "cancel"} : begin' = [begin EXCEPT ![l] = next]
    /\ UNCHANGED <<admission, burn, callback, session, instant>>

\* finalize_login_admission: an expired reservation never becomes ready. When the
\* answer is lost, the login is cancelled whatever the routine did.
FinalizeLoginAdmission(l) ==
    /\ begin[l] = "finalize"
    /\ \/ /\ admission[l].phase = "reserved" /\ admission[l].reservedUntil > instant
          /\ admission' = [admission EXCEPT ![l].phase = "ready"]
          /\ \E next \in {"redirected", "cancel"} : begin' = [begin EXCEPT ![l] = next]
       \/ /\ ~IsActive(l, instant)
          /\ admission' = [admission EXCEPT ![l] = NoAdmission]
          /\ begin' = [begin EXCEPT ![l] = "cancel"]
    /\ UNCHANGED <<burn, callback, session, instant>>

\* cancel_login_admission, best effort: a failure is suppressed.
CancelFailedAdmission(l) ==
    /\ begin[l] = "cancel"
    /\ begin' = [begin EXCEPT ![l] = "failed"]
    /\ admission' = [admission EXCEPT ![l] = NoAdmission] \/ UNCHANGED admission
    /\ UNCHANGED <<burn, callback, session, instant>>

-----------------------------------------------------------------------------
(* complete *)

\* Fault: the transaction is read, and removed only when it matched.
ConsumeIfMatching(c, l, matches) ==
    \E at \in Readings :
    /\ callback[c].pc = "idle" /\ begin[l] = "redirected"
    /\ burn' = PurgeBurns(at)
    /\ IF admission[l].phase = "ready" /\ matches /\ at <= admission[l].until
       THEN callback' = [callback EXCEPT ![c] =
                          [NoCallback EXCEPT !.pc = "exchange", !.login = l, !.at = at]]
       ELSE callback' = [callback EXCEPT ![c].pc = "failed"]
    /\ UNCHANGED <<admission, begin, session, instant>>

\* consume_ready_authorization_transaction, then the checks of consume_transaction:
\* a wrong state or a late callback burns the transaction all the same. With a full
\* replay ledger it raises and leaves the row. The replica may die afterwards.
ConsumeTransaction(c, l, matches) ==
    \E at \in Readings :
    LET burns == PurgeBurns(at)
        last == IF admission[l].until > at THEN admission[l].until ELSE at
        Full == Cardinality(Burned(burns)) >= BurnCapacity
        Next(step) == [callback EXCEPT ![c] =
                         [NoCallback EXCEPT !.pc = step, !.login = l, !.at = at]] IN
    /\ callback[c].pc = "idle" /\ begin[l] = "redirected"
    /\ \/ /\ Full
          /\ callback' = Next("failed") /\ UNCHANGED <<admission, burn>>
       \/ /\ ~Full /\ admission[l].phase # "ready"
          /\ burn' = burns /\ callback' = Next("failed") /\ UNCHANGED admission
       \/ /\ ~Full /\ admission[l].phase = "ready"
          /\ admission' = [admission EXCEPT ![l] = NoAdmission]
          /\ burn' = [burns EXCEPT ![l] = last + BurnRetention]
          /\ \/ matches /\ at <= admission[l].until /\ callback' = Next("exchange")
             \/ callback' = Next("failed")
    /\ UNCHANGED <<begin, session, instant>>

\* verify_id_token: the times of a token against the moment the callback began.
FreshToken(iat, exp, auth, at) ==
    /\ iat < exp
    /\ at <= exp + TokenSkew
    /\ iat <= at + TokenSkew
    /\ at - iat <= MaxTokenAge + TokenSkew
    /\ auth <= iat + TokenSkew /\ auth <= at + TokenSkew
    /\ at - auth <= MaxAuthAge + TokenSkew

\* redeem, the key set and verify_id_token with _map_actor: the provider may have
\* answered anything; a token of this login that passes is kept.
ExchangeCode(c) ==
    /\ callback[c].pc = "exchange"
    /\ \/ callback' = [callback EXCEPT ![c].pc = "failed"]
       \/ \E iat, auth \in 0..instant, exp \in 0..MaxInstant :
            /\ FreshToken(iat, exp, auth, callback[c].at)
            /\ callback' = [callback EXCEPT ![c].pc = "session", ![c].auth = auth, ![c].exp = exp]
    /\ UNCHANGED <<admission, begin, burn, session, instant>>

\* Fault: the session is counted from the end of the exchange.
SessionEndFromNow(c) ==
    LET byTtl == instant + SessionTtl IN
    IF callback[c].exp < byTtl THEN callback[c].exp ELSE byTtl

\* The session ends with the token, and is counted from the start of the callback.
SessionEnd(c) ==
    LET byTtl == callback[c].at + SessionTtl IN
    IF callback[c].exp < byTtl THEN callback[c].exp ELSE byTtl

\* create_browser_session removes sessions that have expired.
CreateSession(c) ==
    LET at == callback[c].at
        Kept(d) == IF session[d].state # "none" /\ session[d].expires <= at
                   THEN [session[d] EXCEPT !.state = "removed"] ELSE session[d] IN
    /\ callback[c].pc = "session"
    /\ callback' = [callback EXCEPT ![c].pc = "ended"]
    /\ \/ /\ SessionEnd(c) > at
          /\ session' = [[d \in Callbacks |-> Kept(d)] EXCEPT ![c] =
               [state |-> "live", login |-> callback[c].login, issued |-> at,
                expires |-> SessionEnd(c), auth |-> callback[c].auth, used |-> -1]]
       \/ SessionEnd(c) <= at /\ UNCHANGED session
    /\ UNCHANGED <<admission, begin, burn, instant>>

CallbackDies(c) ==
    /\ callback[c].pc \in {"exchange", "session"}
    /\ callback' = [callback EXCEPT ![c].pc = "failed"]
    /\ UNCHANGED <<admission, begin, burn, session, instant>>

-----------------------------------------------------------------------------
(* Sessions *)

\* read_browser_session: a read outside the window revokes, for every replica.
AuthenticateSession(c) ==
    \E at \in Readings :
    /\ session[c].state = "live"
    /\ session' = [session EXCEPT ![c] =
         IF at < @.issued \/ at >= @.expires THEN [@ EXCEPT !.state = "revoked"]
         ELSE [@ EXCEPT !.used = instant]]
    /\ UNCHANGED <<admission, begin, burn, callback, instant>>

Logout(c) ==
    /\ session[c].state = "live"
    /\ session' = [session EXCEPT ![c].state = "revoked"]
    /\ UNCHANGED <<admission, begin, burn, callback, instant>>

InstantPasses ==
    /\ instant < MaxInstant /\ instant' = instant + 1
    /\ UNCHANGED <<admission, begin, burn, callback, session>>

LoginNext ==
    \/ \E l \in Logins : \/ \E s \in Sources : ReserveLoginAdmission(l, s)
                         \/ ProtectVerifier(l) \/ FinalizeLoginAdmission(l)
                         \/ CancelFailedAdmission(l)
    \/ \E c \in Callbacks :
          \/ \E l \in Logins, matches \in BOOLEAN : ConsumeTransaction(c, l, matches)
          \/ ExchangeCode(c) \/ CreateSession(c) \/ CallbackDies(c)
          \/ AuthenticateSession(c) \/ Logout(c)
    \/ InstantPasses

LoginSpec == LoginInit /\ [][LoginNext]_loginVars

-----------------------------------------------------------------------------
(* Properties *)

\* However many callbacks present one cookie, on whatever replicas, and whatever the
\* replay ledger has forgotten, one of them at most gets past the consumption.
OneSessionPerLogin ==
    \A c, d \in Callbacks :
        /\ callback[c].pc \in {"exchange", "session", "ended"}
        /\ callback[d].pc \in {"exchange", "session", "ended"}
        /\ callback[c].login = callback[d].login
        => c = d

\* However long the exchange takes and whichever replica reads it, a session is
\* honoured only so long after the person authenticated.
AuthenticationAgeIsBounded ==
    \A c \in Callbacks : session[c].used # -1 =>
        session[c].used - session[c].auth < MaxAuthAge + TokenSkew + SessionTtl + Lag
===============================================================================
