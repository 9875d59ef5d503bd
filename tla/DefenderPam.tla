----------------------------- MODULE DefenderPam -----------------------------
(***************************************************************************)
(* Workload-identity tokens for Defender XDR (connectors/defender_pam.py,  *)
(* journal in connectors/postgres_pam_journal.py).  A bearer token cannot  *)
(* be revoked: the journal records until when one may exist.  A broker     *)
(* prepares an acquisition, requests a token, records it, captures once    *)
(* and closes the row; the evidence is withheld unless the closure is      *)
(* durable.  Recovery closes what dead brokers left.  How long a token     *)
(* lives, and when a request that is not answered in time is served, is up *)
(* to Entra.                                                               *)
(***************************************************************************)
EXTENDS Integers

CONSTANTS Acquisitions,   \* nonces: one per capture
          TokenBrokers,   \* processes
          MinTtl,         \* _MIN_ACCESS_TOKEN_TTL_SECONDS
          MaxTtl,         \* _MAX_ACCESS_TOKEN_TTL_SECONDS
          MaxLifetime,    \* bound: the longest lifetime Entra gives a token
          Skew,           \* _MAX_CLOCK_SKEW_SECONDS
          Timeout,        \* timeout_seconds of a broker
          MaxTime,        \* bound of the clock
          MaxTokenFaults  \* unavailable journals and deaths

ASSUME DefenderPamConstants ==
    /\ {MaxTtl, MaxLifetime, Skew, Timeout, MaxTime, MaxTokenFaults} \subseteq Nat
    /\ MinTtl \in 1..MaxTtl /\ Acquisitions # {}

VARIABLES tokenRow,   \* rows of defender_token_lifecycle
          token,      \* the token Entra issued for an acquisition: when, and until when
          travelling, \* acquisitions whose request was sent and not answered in time
          tBroker,    \* what each broker is doing
          captured,   \* acquisitions whose capture was returned
          clock,
          tFaults

tokenVars == <<tokenRow, token, travelling, tBroker, captured, clock, tFaults>>

NoTokenRow ==
    [state |-> "absent", closure |-> "none", created |-> 0, exposureEnd |-> 0, expires |-> 0]

NoToken == [at |-> 0, ends |-> 0]
IssuedFor(ttl) == [at |-> clock, ends |-> clock + ttl]

TokenRow ==
    [state       : {"absent", "prepared", "issued", "closed", "uncertain"},
     closure     : {"none", "completed", "failed", "no-token", "abandoned", "ambiguous"},
     created     : Nat,
     exposureEnd : Nat,  \* conservative_exposure_end
     expires     : Nat]  \* access_token_expires

IdleTokenBroker ==
    [pc |-> "idle", acq |-> CHOOSE a \in Acquisitions : TRUE, deadline |-> 0, ttl |-> 0,
     failed |-> FALSE]

TokenBrokerState ==
    [pc : {"idle", "issue", "request", "doubt", "reject", "record", "reread", "use", "close"},
     acq : Acquisitions, deadline : Nat, ttl : Nat, failed : BOOLEAN]

TokenInit ==
    /\ tokenRow = [a \in Acquisitions |-> NoTokenRow]
    /\ token = [a \in Acquisitions |-> NoToken] /\ travelling = {}
    /\ tBroker = [b \in TokenBrokers |-> IdleTokenBroker]
    /\ captured = {}
    /\ clock = 0
    /\ tFaults = 0

TFault == tFaults < MaxTokenFaults /\ tFaults' = tFaults + 1

TGoto(b, step) == tBroker' = [tBroker EXCEPT ![b].pc = step]
TRaise(b) == tBroker' = [tBroker EXCEPT ![b] = IdleTokenBroker]

Acq(b) == tBroker[b].acq
InTime(b) == clock < tBroker[b].deadline

\* A row is changed from the state its caller expects, once: the revision of a
\* prepared row is 0 and of an issued one 1, so state and revision agree.
Moved(a, from, Row) ==
    /\ tokenRow[a].state = from
    /\ tokenRow' = [tokenRow EXCEPT ![a] = Row]

\* A journal call: it commits, the row is not as expected, or the journal is
\* unavailable, in which case the change may have been committed nevertheless.
JournalCall(a, from, Row, Ok, Refused) ==
    \/ Moved(a, from, Row) /\ Ok /\ UNCHANGED tFaults
    \/ tokenRow[a].state # from /\ Refused /\ UNCHANGED <<tokenRow, tFaults>>
    \/ TFault /\ Refused /\ (Moved(a, from, Row) \/ UNCHANGED tokenRow)

\* The rows that mark_issued, close and mark_uncertain write.
IssuedRow(a, ends) == [tokenRow[a] EXCEPT !.state = "issued", !.expires = ends]
ClosedRow(a, why) == [tokenRow[a] EXCEPT !.state = "closed", !.closure = why]
UncertainRow(a) == [tokenRow[a] EXCEPT !.state = "uncertain", !.closure = "ambiguous"]

\* Fault: the exposure forgets the clock skew.
PrepareTokenWithoutSkew(b, a) ==
    /\ tBroker[b].pc = "idle" /\ tokenRow[a] = NoTokenRow
    /\ tokenRow' = [tokenRow EXCEPT ![a] =
         [NoTokenRow EXCEPT !.state = "prepared", !.created = clock,
                            !.exposureEnd = clock + MaxTtl]]
    /\ tBroker' = [tBroker EXCEPT ![b] = [IdleTokenBroker EXCEPT !.pc = "issue", !.acq = a]]
    /\ UNCHANGED <<token, travelling, captured, clock, tFaults>>

\* _prepare: the longest an accepted token could live, were it issued now.
PrepareToken(b, a) ==
    /\ tBroker[b].pc = "idle" /\ tokenRow[a] = NoTokenRow
    /\ tokenRow' = [tokenRow EXCEPT ![a] =
         [NoTokenRow EXCEPT !.state = "prepared", !.created = clock,
                            !.exposureEnd = clock + MaxTtl + Skew]]
    /\ tBroker' = [tBroker EXCEPT ![b] = [IdleTokenBroker EXCEPT !.pc = "issue", !.acq = a]]
    /\ UNCHANGED <<token, travelling, captured, clock, tFaults>>

\* _issue sets its deadline when the row is durable, from a second reading of the clock.
BeginIssue(b) ==
    /\ tBroker[b].pc = "issue"
    /\ tBroker' = [tBroker EXCEPT ![b].pc = "request", ![b].deadline = clock + Timeout]
    /\ UNCHANGED <<tokenRow, token, travelling, captured, clock, tFaults>>

\* credential.issue: assertion or request cannot be built, or too late to build them.
AssertionFails(b) ==
    /\ tBroker[b].pc = "request"
    /\ TGoto(b, "reread")
    /\ UNCHANGED <<tokenRow, token, travelling, captured, clock, tFaults>>

\* What a request leads to: nothing is sent after the deadline; a status other
\* than 200 is a refusal; any other trouble leaves open whether a token exists.
TransportOutcomes(b) == IF InTime(b) THEN {"reject", "record", "doubt"} ELSE {"doubt"}

\* Entra issues a token of any lifetime, or none so far (0). _parse_success takes
\* only a lifetime within the policy; a token outside it exists nevertheless.
RequestToken(b) ==
    \E next \in TransportOutcomes(b), ttl \in 0..MaxLifetime :
        /\ tBroker[b].pc = "request"
        /\ next = "record" => ttl \in MinTtl..MaxTtl
        /\ ttl > 0 => next # "reject" /\ InTime(b)
        /\ token' = IF ttl > 0 THEN [token EXCEPT ![Acq(b)] = IssuedFor(ttl)] ELSE token
        /\ travelling' = IF ttl = 0 /\ next = "doubt" /\ InTime(b)
                         THEN travelling \cup {Acq(b)} ELSE travelling
        /\ tBroker' = [tBroker EXCEPT ![b].pc = next, ![b].ttl = ttl]
        /\ UNCHANGED <<tokenRow, captured, clock, tFaults>>

\* A request whose sender gave up is served after all.
IssuedLate(a) ==
    /\ a \in travelling /\ travelling' = travelling \ {a}
    /\ \E ttl \in 1..MaxLifetime : token' = [token EXCEPT ![a] = IssuedFor(ttl)]
    /\ UNCHANGED <<tokenRow, tBroker, captured, clock, tFaults>>

\* mark_uncertain after an ambiguous request. When the journal refuses, its error
\* is an ordinary DefenderPamError and takes the place of the ambiguous one.
RecordDoubt(b) ==
    /\ tBroker[b].pc = "doubt"
    /\ JournalCall(Acq(b), "prepared", UncertainRow(Acq(b)), TRaise(b), TGoto(b, "reread"))
    /\ UNCHANGED <<token, travelling, captured, clock>>

\* close after a status other than 200; the error raised next is read again below.
RecordRejection(b) ==
    /\ tBroker[b].pc = "reject"
    /\ JournalCall(Acq(b), "prepared", ClosedRow(Acq(b), "no-token"),
                   TGoto(b, "reread"), TGoto(b, "reread"))
    /\ UNCHANGED <<token, travelling, captured, clock>>

\* mark_issued with the expiry counted from the receipt of the answer, which the
\* table wants within the recorded exposure. Otherwise the row is marked uncertain
\* if that can be done.
RecordToken(b) ==
    LET a == Acq(b)
        ends == clock + tBroker[b].ttl
        Fits == ends <= tokenRow[a].exposureEnd IN
    /\ tBroker[b].pc = "record"
    /\ \/ Fits /\ JournalCall(a, "prepared", IssuedRow(a, ends), TGoto(b, "use"), TRaise(b))
       \/ Fits /\ TFault /\ Moved(a, "prepared", UncertainRow(a)) /\ TRaise(b)
       \/ ~Fits /\ JournalCall(a, "prepared", UncertainRow(a), TRaise(b), TRaise(b))
    /\ UNCHANGED <<token, travelling, captured, clock>>

\* capture's handler of an ordinary DefenderPamError: a row that is still
\* prepared is closed as a request that was never answered with a token.
RereadAfterError(b) ==
    /\ tBroker[b].pc = "reread"
    /\ JournalCall(Acq(b), "prepared", ClosedRow(Acq(b), "no-token"), TRaise(b), TRaise(b))
    /\ UNCHANGED <<token, travelling, captured, clock>>

\* One capture with the single-use provider.
UseToken(b) ==
    /\ tBroker[b].pc = "use"
    /\ \E f \in BOOLEAN : tBroker' = [tBroker EXCEPT ![b].pc = "close", ![b].failed = f]
    /\ UNCHANGED <<tokenRow, token, travelling, captured, clock, tFaults>>

\* The receipt of a closed row, and its verification: it names the request, and the
\* token outlived its closure.
Receipt(b) ==
    [acq |-> Acq(b), closed |-> clock, expires |-> tokenRow[Acq(b)].expires,
     completed |-> ~tBroker[b].failed]

ReceiptHolds(r, b) == r.completed /\ r.acq = Acq(b) /\ r.closed < r.expires

CaptureResult(b) ==
    IF ReceiptHolds(Receipt(b), b) THEN captured \cup {Acq(b)} ELSE captured

\* Fault: evidence is returned although the closure was refused.
CloseTokenTrusting(b) ==
    LET why == IF tBroker[b].failed THEN "failed" ELSE "completed" IN
    /\ tBroker[b].pc = "close"
    /\ JournalCall(Acq(b), "issued", ClosedRow(Acq(b), why), TRaise(b), TRaise(b))
    /\ captured' = CaptureResult(b)
    /\ UNCHANGED <<token, travelling, clock>>

\* The closure; evidence is returned after a durable closure of a good capture.
CloseToken(b) ==
    LET why == IF tBroker[b].failed THEN "failed" ELSE "completed" IN
    /\ tBroker[b].pc = "close"
    /\ JournalCall(Acq(b), "issued", ClosedRow(Acq(b), why),
                   TRaise(b) /\ captured' = CaptureResult(b), TRaise(b) /\ UNCHANGED captured)
    /\ UNCHANGED <<token, travelling, clock>>

\* _recover_records for one row. A row that changed since it was selected is
\* refused, which ends the recovery and changes nothing.
RecoverToken(a) ==
    /\ \/ Moved(a, "prepared", UncertainRow(a))
       \/ Moved(a, "issued", ClosedRow(a, "abandoned"))
    /\ UNCHANGED <<token, travelling, tBroker, captured, clock, tFaults>>

TokenBrokerDies(b) ==
    /\ tBroker[b].pc # "idle" /\ TFault /\ TRaise(b)
    /\ UNCHANGED <<tokenRow, token, travelling, captured, clock>>

ClockTicks ==
    /\ clock < MaxTime /\ clock' = clock + 1
    /\ UNCHANGED <<tokenRow, token, travelling, tBroker, captured, tFaults>>

TokenStep(b) ==
    \/ BeginIssue(b) \/ AssertionFails(b) \/ RequestToken(b) \/ RecordDoubt(b)
    \/ RecordRejection(b) \/ RecordToken(b) \/ RereadAfterError(b) \/ UseToken(b)
    \/ CloseToken(b)

TokenNext ==
    \/ \E b \in TokenBrokers : \/ \E a \in Acquisitions : PrepareToken(b, a)
                               \/ TokenStep(b) \/ TokenBrokerDies(b)
    \/ \E a \in Acquisitions : RecoverToken(a) \/ IssuedLate(a)
    \/ ClockTicks

TokenSpec == TokenInit /\ [][TokenNext]_tokenVars

-----------------------------------------------------------------------------
(* Properties *)

\* Types: the rows the acquisition table can hold.
TokenTypeOK ==
    /\ tokenRow \in [Acquisitions -> TokenRow]
    /\ token \in [Acquisitions -> [at : Nat, ends : Nat]]
    /\ travelling \subseteq Acquisitions
    /\ tBroker \in [TokenBrokers -> TokenBrokerState]
    /\ captured \subseteq Acquisitions
    /\ clock \in 0..MaxTime /\ tFaults \in 0..MaxTokenFaults

\* A recorded expiry is one that the token does not outlive, within the exposure
\* recorded before the request, and no broker uses a token that is not recorded.
\* A token that outlives its exposure lives longer than the policy accepts, or was
\* issued later than the skew allows for after its row was written: so it is
\* neither recorded nor used, but nothing in the journal says how long it lives
\* (_prepare, _parse_success, mark_issued).
ExposureIsCovered ==
    /\ TokenTypeOK
    /\ \A a \in Acquisitions :
          LET row == tokenRow[a] IN
          /\ row.expires # 0 =>
                token[a].ends \in 1..row.expires /\ row.expires <= row.exposureEnd
          /\ token[a].ends > row.exposureEnd =>
                \/ token[a].ends - token[a].at > MaxTtl
                \/ token[a].at > row.created + Skew
    /\ \A b \in TokenBrokers :
          tBroker[b].pc \in {"use", "close"} => tokenRow[Acq(b)].expires # 0

\* Evidence is returned only for an acquisition whose token was issued, recorded
\* and released by this capture, also when recovery closes rows meanwhile.
CaptureIsClosed ==
    \A a \in captured : token[a].ends # 0 /\ tokenRow[a].closure = "completed"
===============================================================================
