# Control Assurance Lab in TLA+

The system lets people change the configuration of a security control under
maker/checker rules, deploys approved configurations to a runtime, lets the
runtime collect evidence about the control in fixed time windows with
short-lived credentials, publishes that evidence into write-once custody, and
admits signed evidence into a ledger. A library of experiments shows what the
assurance method concludes about controls that fail in known ways. This
directory holds TLA+ modules for these parts, TLC configurations that check
small instances of them, and TLAPS proofs for all instances of most of the
safety properties, the refinements among them.

Paths below are relative to the package `src/assurance_lab/` of the repository,
except `deploy/` and `docs/`.

## Inventory

| Component | Code | State it keeps | Operations | Modelled in |
|---|---|---|---|---|
| Change desk | `control_plane/service.py`, `postgres_store.py`, `store.py`, `deploy/postgres/control-plane-schema.sql` | revisions, decisions, desired-selection pointer, deployment operations (outbox), hash-chained audit events | create_draft, submit, decide, activate, request_rollback, request_deployment_retry; lease, acknowledge, fail | `ControlPlane` |
| Deployment reconciler | `control_plane/deployment.py`, `reconciler_service.py` | none durable; the leased operation in memory | run_once: lease, read revision, call target, close lease | `DeploymentReconciliation` |
| Deployment target | `runtime/postgres.py`, `deploy/postgres/runtime-schema.sql` | profiles, deployment history, highest fences, current pointer | register_control_profile, ensure_applied | `RuntimeDeployments` |
| Runtime catalog of runs | `runtime/postgres.py`, `runtime/scheduling.py` | runs, claims, outcomes | materialize_due_runs, claim_next_run, complete_run, fail_run | `RuntimeCatalog` |
| Runtime worker | `runtime/worker.py`, `RuntimeScheduler` in `runtime/scheduling.py` | loop state, held lease, stop flag, fatal code | run_forever, run_once, request_stop | `RuntimeWorker` |
| Durable executor, execution journal | `runtime/executor.py`, `execution_journal.py`, `deploy/postgres/execution-journal-schema.sql` | one execution per run (plan, identity, completion), its attempts by fence, recovery authorizations | prepare, begin_publishing, bind_execution_identity, mark_failed, mark_uncertain, mark_completed, recover_identity_bound_publication; ensure_executed | `ExecutionJournal` |
| Execution recovery | `runtime/execution_recovery.py` | signed documents: request, fence, drain, approval, authorization | request, attest, approve, authorize, verify, consume | `PublishingRecovery` |
| Evidence publication | `runtime/evidence_publication.py`, `connectors/managed_evidence.py`, `evidence/stream_snapshot.py`, `stream_custody.py`, `writer.py` | workspace of a run: CAB, snapshot, receipts, closure | capture, write_bundle, stage, seal, reopen | `ManagedPublication` |
| Custody stores | `evidence/reference_adapters.py`, `s3_object_lock.py` | objects in a directory; versions in a bucket | persist, put, reconcile, reopen | `CustodyPromise`, `FilesystemCustody`, `S3Custody` |
| Evidence admission, attestation | `evidence/admission.py`, `attestation.py` | SQLite ledger: policy heads, leases, preparations, receipts, custody acknowledgements | register, admit, reconcile_pending, open | `Attestation`, `EvidenceAdmission` |
| PAM connectors and journals | `connectors/elastic_pam.py`, `defender_pam.py`, `postgres_pam_journal.py`, `deploy/postgres/pam-journal-schema.sql` | leases of API keys, acquisitions of tokens, bindings and lifecycle records of an execution | capture, recover; prepare, issue, settle, fence, drain | `ElasticPam`, `DefenderPam`, `PamIssuance` |
| OIDC sign-in and sessions | `control_plane/oidc.py`, `oidc_http.py`, `postgres_oidc_store.py`, routes of `api.py` | login admissions, authorization transactions, used logins, sessions; cached key set | begin, finalize, consume, create, read, revoke, clean up; fetch keys | `OidcLogin`, `JwksCache` |
| Financial scenarios | `scenarios/financial_*` | an in-memory database per trial; a bundle directory | run a cell, write, read, assess, evaluate | `RecoveryTrial`, `DetectionTrial`, `ResponseTrial`, `SupportTrial` |
| Lifecycle, evaluation, alert windows | `lifecycle.py`, `evaluation.py`, `controls/` | none (functions of event lists) | evaluate | not modelled |
| Data connectors, key management, Vault | `connectors/elastic_security.py`, `defender_xdr.py`, `key_management/`, `evidence/vault_transit.py` | none shared | fetch, sign | not modelled: protocol clients |
| Benchmark, JavaScript verifier, web interface, command line, bootstrap | `benchmark/`, `verifier-js/`, `control_plane/api.py`, `bootstrap.py` | none of their own | generate, verify, parse, render, construct | not modelled |

How they interact. People sign in (OIDC) and call the service of the change
desk; activation, rollback and manual retry append an operation to the outbox in
the same transaction. Reconciler workers lease operations, call `ensure_applied`
of the runtime, which is *another database*, and acknowledge or fail the
operation. Runtime workers turn the deployment history into runs, claim runs
under leases, call the executor and close the runs. The executor journals each
step, has credentials issued through the PAM journals, captures, and publishes
through the custody stores; when a worker falls silent in the middle, the
recovery documents let a later lease adopt its publication. The admission
service verifies attested evidence and puts it into custody. No component calls
back into another one; they meet in tables, directories and buckets.

What is hard in this code:

- two databases and no distributed transaction: between the commit of the
  target and the acknowledgement the worker may die, its answer may be lost, and
  an abandoned call may commit after newer ones;
- leases with fences, whose deadlines are compared with clocks that disagree;
- retries, automatic (backoff, attempt limits) and manual (a new operation);
- maker/checker and "one open operation per control" enforced at several places
  that must agree for every order of calls;
- half-open windows, ceilings and floors, and a materialization that takes no
  lock on the control whose deployments it reads;
- a publication that touches other systems and cannot be taken back: between the
  steps of `ensure_executed` the lease may pass to somebody else, and every
  journal call may commit, fail or commit later without an answer;
- proof that a worker which was never told can no longer act, from documents
  whose validity windows, drains and fences must line up;
- credentials of other systems: requests that time out and take effect later,
  tokens that cannot be revoked, sequence numbers drawn outside the lock;
- power loss between writes, fsyncs and a rename; a bucket that answers late and
  that others can write to;
- several admission services that finish each other's half-done work;
- unsigned directories that change while they are validated;
- a worker loop with backoff, drain on stop, and errors of three kinds.

`PROJECT.json` lists these hazards at the lines where they bite, each with the
properties that would catch it.

What makes each component correct:

- change desk: the pointer always names an approved revision; whatever is in
  the outbox was approved and requested by others than its maker; intents are
  not overtaken; predecessor and retry lineage are exact; the audit chain alone
  reconstructs the tables;
- target: one strictly ordered, unbroken, append-only chain of receipts under
  any order of requests;
- reconciler: ledger and runtime agree, nothing unapproved runs, every
  operation is resolved;
- catalog: runs are for exactly the due windows, a window is cut only by a
  deployment that commits later than the lag allows for, claims and outcomes
  agree, an ended run stays;
- worker: every due window becomes a run, every run ends, a stop drains;
- execution journal: one publisher at a time, one plan and one identity per run,
  a run reports what the journal completed, and completed evidence is reported;
- recovery: while the successor holds its lease nothing of the adopted attempt
  can act, and no attempt is adopted twice;
- publication and custody: what a publication names is held, whole and for as
  long as promised, and all who publish a run return one result;
- admission: the ledger can always be validated and continued, a receipt was
  attested under a policy that never went back, an answer is final;
- PAM: no key outlives a revoked lease, no token is used that the recorded
  exposure does not cover, no evidence leaves before its credential is settled,
  a fenced binding drains;
- sign-in: one session per login, of bounded age; the key set never goes back;
- scenarios: what is assessed or admitted is what was executed, and the masked
  failure that the baseline passes is named.

## Modules and how they correspond to the code

```
ControlPlane                     RuntimeDeployments
     | EXTENDS                     | INSTANCE   | EXTENDS
     +-- DeploymentReconciliation -+     RuntimeCatalog
                                              | EXTENDS
ExecutionJournal                        RuntimeWorker

CustodyPromise <-- refined by -- FilesystemCustody       Attestation
     ^                                                        | EXTENDS
     +---- refined by -- S3Custody -- ManagedPublication  EvidenceAdmission

ElasticPam  DefenderPam  PamIssuance  OidcLogin  JwksCache     (MCAccess)
EvidenceAdmission  FilesystemCustody  ManagedPublication       (MCEvidence)
RecoveryTrial  DetectionTrial  ResponseTrial  SupportTrial     (MCScenarios)
RuntimeCatalog  PublishingRecovery                             (MCRuns)

Proofs: RuntimeDeploymentsProofs, used by DeploymentReconciliationProofs
(ControlPlane, then the composition) and by RuntimeCatalogProofs
(RuntimeCatalog, RuntimeWorker); ExecutionJournalProofs; AccessProofs
(ElasticPam, DefenderPam, PamIssuance, OidcLogin, JwksCache); EvidenceProofs
(FilesystemCustody, S3Custody, ManagedPublication, PublishingRecovery);
AdmissionProofs (EvidenceAdmission); TrialProofs (RecoveryTrial,
DetectionTrial, ResponseTrial, SupportTrial)
```

`Absent` declares the one constant `Nil` (None) that several modules share.
`MCAccess`, `MCEvidence`, `MCRuns` and `MCScenarios` hold parts that share no row: each is
explored in full (variable `part`) while the others rest in their initial
state, which is every behaviour of each part and costs the sum, not the product, of their states. The
fairness of `ElasticPam` demands nothing in its initial state, so it removes
no behaviour of the others.

Conventions of all modules:

- One tenant and one control for the control plane and the runtime. Every table is keyed by both, every query filters
  by both (or picks one row of one tenant), and locks are taken per control; two
  controls meet only in the order of the audit chain.
- One action is one transaction, because every handler takes its locks first
  and holds them to the end. The action is the *successful* call: a call that
  fails a check raises and leaves no trace, which is a stuttering step. An
  expected version or parent given by a caller is such a check: a caller with
  the right expectation is always possible, so it does not restrict the model.
- SHA-256 identities are names. A revision is its generation, an operation its
  sequence number, a receipt its row, a run its deployment and window end.
- Deadlines are kept as the time `left`; a tick lowers them. A comparison with a
  worker's clock is `left <= d` for any error `d` the constants allow
  (`MaxDrift`, `MaxClockError`); the proofs and the module hold for every such
  bound.
- Operators marked *Fault* are deliberately wrong variants of the definition
  that follows. No specification uses them; they document which mistake a
  property would catch (`mutants` of `PROJECT.json`).

**ControlPlane.** Variables are the five tables. `CreateDraft`, `Submit`,
`Decide`, `Activate`, `RequestRollback`, `RequestRetry` are the service methods
with their authorization (role, fresh MFA, owner group, not the maker) and the
store method each calls; `LeaseNext`, `AcknowledgeApplied`, `FailOperation` are
the outbox. `Activate` moves the pointer, retires the replaced revision, appends
the operation and the audit event, as its transaction does.

**RuntimeDeployments.** `EnsureApplied` is the whole transaction: profile
lookup, replay of a committed operation, fence check, sequence check, insertion
with its application time, fence row and pointer. `Verdict` is the order in
which the code looks. Transaction timestamps are arbitrary, as two transactions
may see a clock that stands still or steps back.

**DeploymentReconciliation.** Extends the change desk by workers (`pc`, `job`)
and the target (an instance). Each call of `run_once` into a store is a step of
its own. `AnswerIsLost` is a transaction that ended without the worker learning
how, `CallIsAbandoned` and `OrphanCommits` one that ends later or never, `Crash`
drops everything in memory. `LeaseIsLost` is the exception of a stale lease,
which ends the process.

**RuntimeCatalog.** Extends the target by runs. `DueWindowEnds` is the closed
form of `due_window_ends`; `Materialize`, `ClaimNextRun`, `CompleteRun`,
`FailRun` are the transactions. `SKIP LOCKED` lets a claim pass over locked
rows, so any candidate may be taken. Repeating a recorded closure changes
nothing and is a stuttering step. `Deploy` commits a deployment whose
transaction began up to `MaxCommitDelay` earlier.

**RuntimeWorker.** Extends the catalog by processes: the outer loop (`head`),
the burst of claims, `run_once`, backoff, drain, and the three ways a process
ends (stop, fatal error, crash). An ambiguous COMMIT of a closure, which is no
`RuntimeCatalogError`, ends the process; run and ledgers stay consistent. The executor is external: it returns, cannot
finish now, or refuses.

**ExecutionJournal.** One run. `journal` is the executions row with its attempts
by fence. A `CallOf` a worker is the argument list of a journal method;
`PrepareVerdict`, `TransitionVerdict`, `BindVerdict` and `CompleteVerdict` are
the checks of the methods in their order, together with the triggers of the
schema, and `Written` is what each writes. Each worker action is one journal
call of `ensure_executed` and what the executor does up to the next call;
`publish` is the time during which the process holds its external handles.
`AnswerLost` leaves the call committed or in flight, `LateCommit` commits it
then. `AuthorizeRecovery` signs for the attempt that is current, `Recover`
consumes the authorization: its compare-and-swap makes a second use fail, as the
table of used authorizations does. The catalog is reduced to the row of the run
(`Claim`, `TerminalizeExhaustedLease`, `Close`), with the rules `RuntimeCatalog`
has in full, and any lease may run out at any time. When `run_once` cannot read
its input it closes the run as it does after a `prepare` that never arrives. A stale caller whose locking
read waited for a takeover finds no row instead of a stale fence; `prepare` then
takes the way of a lost insert and other calls end retryable under a lease that
is stale anyway, so the model answers "conflict".

**PublishingRecovery.** How a new lease may adopt a publication. The old worker
goes on until it is isolated: it begins calls that last up to `MaxInflight` and
has credentials issued. `RequestRecovery`, `AttestFence`, `AttestDrain` and
`ApproveRecovery` sign documents, `FenceCompute` and `SealIssuance` do what two
of them attest; `VerifyAuthorization`
and `ConsumeAuthorization` are two steps because the database clock is read
before the routine takes its lock. Every clause of the documents' validation
that relates two of their facts is kept (bindings, the order of the timeline, windows,
maker and checker); signatures, MFA freshness, session ids and the separation of
the non-human identities are the facts they attest. The fencing controller's clock may be
late by at most `Skew`. The property is what `ExecutionJournal` assumes of a
recovery (`ComputeFenced`).

**ManagedPublication.** Processes publish one run in one workspace:
capture into a CAB, streaming into a snapshot, custody of each object, the
signed closure, and the reopening of every version. It extends `S3Custody`, in
which the bucket is external: a request whose answer was lost is carried out at
most once, at any later time, and somebody outside may write, hide an object
behind a delete marker, or delete a version that is not locked. HEAD and GET of
a version are one step.

**CustodyPromise, FilesystemCustody, S3Custody.** The promise is what the
admission service and the publication rely on: an object appears whole, is never
replaced, and is never lost once anyone was told it is held. The filesystem
store implements it against a disk on which an entry or file that was not
fsynced may be gone or torn after a power loss; the S3 store with a version as the object.
Each is shown to implement the promise by a refinement.

**Attestation, EvidenceAdmission.** `Attestation` is the verdict of
`verify_dsse_attestation`. `EvidenceAdmission` has services with their own
configured policies on one ledger: leases, the reservation of a receipt body, a
signature taken without a lock, finalization by whoever comes first, custody and
its acknowledgement, the reconciliation of what was left, and
`_validate_complete_ledger`, which every service runs when it opens the ledger
or sees a foreign write. A digest is the value it is of; a signature names the
service that obtained it. The limit of 100 objects per reconciliation, file
permissions and outside tampering are left out.

**ElasticPam, DefenderPam, PamIssuance.** A broker writes a row, asks the other
system, records the answer, captures, and settles before it returns evidence.
`LateCreate` is a key created after its request was given up. A bearer token
cannot be revoked, so `DefenderPam` keeps the exposure that the row recorded
before the request. `PrepareToken` and `BeginIssue` are two steps, because the
clock is read for the exposure before the journal commits and for the deadline
after it. Entra gives a token any lifetime up to `MaxLifetime`; `_parse_success`
accepts `MinTtl..MaxTtl` and any other answer leaves the row in doubt with the
token alive, and a request that nobody waits for any more may be served later
(`IssuedLate`). Every journal call is a compare-and-swap on the row's
revision, so recovery may meet a broker that is still at work. `PamIssuance` is
the fence recovery puts before issuance: `DrawSequence` and `PrepareLifecycle`
are two steps, because the sequence number is drawn outside the lock.

**OidcLogin, JwksCache.** Logins with their admission limits, any number of
callbacks with one cookie on replicas whose clocks lag by up to `Lag`, the
ledger of used logins with its capacity and cleanup, and sessions. `JwksCache`
has the threads of one replica that share a flight to the provider.

**RecoveryTrial, DetectionTrial, ResponseTrial, SupportTrial.** An experiment
runs each cell of its 2x2x2x2 design on a fresh database, hands out results or
writes a bundle, and later validates and assesses it. In between, and while it
is read, records and artifacts may be rewritten and whatever depends on them
recomputed, as far as an unsigned directory allows. The modules keep the whole chain of
checks; a digest is the content it addresses. Response and support keep the
artifacts of `Watched` trials only: the others are written once and their checks
do not look at the watched ones. The recovery experiment runs on the
cutover that its lifecycle bundle proves, under any bulk threshold from 1
upwards. Its assessment validates the directory again for each of the two results
(`AssessAttack`, `AssessPair`), and the directory may have been replaced since
the trials or between the two. In the detection experiment the action of a
result is never rewritten and its source only truncated: a benign result
rewritten whole into an attack result is outside the model.

## Runs

| Run | Instance | Shows |
|---|---|---|
| `desk` | two people with all roles, one editor, 2 configurations, 2 revisions, 3 operations, 2 leases per operation | the outbox is one line, maker/checker, the audit trail reconstructs the tables |
| `reconcile` | maker and checker, 3 configurations (one outside the release), 2 workers, 2 operations, 2 attempts, 1 fault | ledger and runtime agree; nothing unapproved ever ran |
| `reconcile_live` | as before with 1 configuration and 1 revision, with fairness | every operation resolves; the composition refines `CPSpec` and `RDSpec` |
| `catalog` | 3 schedules (window shorter than the interval, equal to it, disabled), 2 deployments, 2 workers, clocks off by 1 s, commit delay 1 s, lag 0 for one schedule and 1 s for another; in the recovery 2 workers, 1 credential row, fences that end at or before the successor's lease | the deployment history, windows, ledgers, ended runs; an adopted worker is fenced |
| `worker` | 2 processes, window limit 2, new-run limit 1, 1 fault | the processes refine `RCSpec` |
| `worker_live` | 2 processes, limits that do not bite, with fairness | due windows become runs, runs end, stop drains |
| `journal` | 2 workers, 3 attempts, 2 identities, 2 possible evidences, 2 faults, with fairness | one publisher, one composition, one result, nothing decided is undone, completed evidence is reported |
| `access` | 2 key leases, 2 brokers of which one recovers; 2 token acquisitions, lifetimes and a timeout beyond policy and skew; 2 lifecycle records under 2 fences; 2 logins, 2 callbacks, lag 1; 3 threads, 2 key generations | credentials and sessions end when they must; keys neither flood nor go back |
| `scenarios` | every cell; bulk thresholds 1 to 3; 2 changes of the lifecycle directory and 2 rewrites of a recovery result; 4 rewrites of a detection result; 1 edit and 2 swaps of the other bundles | what is assessed or admitted is what was executed |
| `evidence` | 2 services, 2 leases, 2 admissions, policies that advance, stay and fork; 2 persisters, 2 files, 2 power losses; 2 publishing processes, 1 lost answer, 1 outside act | the ledger validates, trust never goes back, answers are final; both stores keep the promise, publications are held and one |
| `window_lag` | the instance of `catalog`; see Findings | violated |
| `window_limit` | see Findings | violated |

Why the bounds are enough. Three operations let an applied, a failed and an open
one coexist, so that predecessors, retries and overtaking differ; two revisions
let an activation replace another. Two workers suffice for a takeover, two
attempts for a first, a repeated and an exhausted one. Two deployments with two
different windows meet at each boundary case of the window arithmetic: on a
boundary, off it, superseded before the first window ends. In `reconcile` and
the live runs `MaxFence` is at least the attempts plus the faults that can use
up a lease, so it never disables a lease the code would grant; liveness would
show it if it did. `MaxNow` ends the falling due of windows but not the running
out of leases. `MaxFaults` bounds crashes and overrun leases; in `worker` also
unavailable catalogs and stop requests, in `journal` deaths, lost answers, failed
reads and overrun leases. Three attempts let an abandoned publication be
recovered twice; two identities and two evidences let a second publication
differ from the first; and once one of the two faults has happened there are more
attempts left than faults, which is when `CompletedIsReported` applies. Two
brokers and one fault let a recovery meet a broker at work on a key whose
creation is late; a clock up to 3 lets a token granted at the last instant outlive
the wrong exposure, and with a timeout of 2 against a skew of 1 and lifetimes up to
2 against a policy of 1 tokens outlive the right one in both of the ways that
`ExposureIsCovered` names. Of the thresholds in `scenarios`, 1 flags the benign
record, 2 only the attack, and 3, the number of all customers, the attack at the
limit. Two callbacks race for one login, and a second login fills
the ledger of used ones (capacity 1). Two power losses hit the writer and the
process that finds its object. Swapping a payload out and in again takes the two
swaps of `scenarios`. An evidence window that opens too late is combined there with
changed sources only, since it refuses every bundle. `PublishingRecovery` runs to
time 4 in `catalog`, which reaches the boundary at which a fence ends together with the successor's lease.

In `catalog` the target's requests are few and its clock is that of the run;
that the history is one chain under repeated, reordered and colliding requests
and clocks that step back is proved for all bounds.
`worker` has a scan that overflows and `worker_live` has none, because an
overflow ends materialization for good (see Findings).

Symmetry is over workers, processes and services, over interchangeable people
and configurations, never in a run with a liveness property. `reconcile` leaves the
audit trail out of the state's view: no guard and no property of that run reads
it. Deadlock is not checked where the bounds let a run end.

Fairness. A running worker takes its next step and an ended process is started
again (weak fairness per worker: threads are scheduled and the deployment
manifests restart processes), and time goes on. In `RuntimeWorker`
materialization is strongly fair: `run_forever` comes back to the head of its
loop after each burst of bounded length, and the monotonic clock reaches
`next_materialization_at`. In `ExecutionJournal` workers run and the scheduler
claims a run that is due or whose lease ran out. In `ElasticPam` a broker at work
goes on and recovery is run again and again (strong fairness: it can be invoked
whenever something is unsettled). Nothing is assumed of people, profiles, faults,
orphaned calls, or of any outcome a worker's step may have (that a call
succeeds, that an executor returns a result).

## Findings

Checked by a run:

- `window_lag`: a deployment's application time is the start of its transaction
  (`runtime/postgres.py:716`) and materialization takes no lock, so with
  `collection_lag_seconds` 0, which `control_plane/models.py:269` and
  `deploy/postgres/runtime-schema.sql:596` admit, a window may be handed out that
  a deployment about to commit cuts in two, although "The entire half-open window
  therefore belongs to one deployment" (`docs/runtime-catalog-and-scheduling.md:90`).
  TLC finds it in eight states. Run `catalog` checks what does hold for every
  lag: a window is cut only by a deployment whose transaction was open for longer
  than the lag.
- `window_limit`: `due_window_ends` counts the windows since the deployment and
  not those still missing, so a deployment that lives longer than
  `max_windows_per_deployment` intervals ends materialization for its tenant:
  the worker fails at each start.

Disagreements between code and text that were met while modelling. The models
have what the code does, and the properties of the runs are stated so that they
hold of it:

- At the attempt limit `_failure` (`control_plane/deployment.py:294`) records an
  unknown outcome as a terminal failure, although the target may have committed,
  so the promise of `docs/runtime-catalog-and-scheduling.md:62` that the same
  operation id is called again does not hold for the last attempt. The desk
  shows a failure while the configuration runs, until somebody retries.
- The trigger on the executions row (`deploy/postgres/execution-journal-schema.sql:1523`)
  refuses every higher fence once an identity is bound, also when the bound
  attempt has *ended* as uncertain or failed, and recovery adopts only attempts
  that are publishing. The error that `ensure_executed` raises for such an end is
  retryable, and `tests/test_durable_executor.py:700` expects the next fence to
  succeed (its journal is a fake without the trigger); against the schema each
  retry ends in a conflict until the attempts are used up.
- When `mark_uncertain` fails after an ambiguous token request
  (`connectors/defender_pam.py:1486` and `:1496`), its `DefenderPamError`
  replaces the ambiguous one and `capture` (1740-1753) closes the prepared row
  as "no token", while the comments at 1494 and 1602 say that such an outcome is
  ambiguous and is never relabelled so. The recorded exposure stays, so
  `ExposureIsCovered` holds.

Limits that the properties make visible:

- A Defender token may outlive the exposure that its row recorded, in ways the
  code allows for only in part: Entra answers with a lifetime above 3,900 s, which
  `_parse_success` (`connectors/defender_pam.py:1652`) refuses while the token
  lives on; or the token is issued more than the 60 s of skew after the row's
  clock reading, because the journal's commit was slow, the timeout is longer (up
  to 120 s) or the request is served after it was given up. `ExposureIsCovered`
  says that there is no other way, and that such a token is never recorded or
  used; the row is marked uncertain and does not say how long its token lives.
- The recovery runtime accepts a bulk threshold of 1
  (`scenarios/financial_recovery_runtime.py:385`). Its guard then flags the benign
  trial, and the assessment, whose own semantics have no bulk rule (2091-2106),
  refuses every pair executed so.
- A recovery result that nobody touched is refused once its lifecycle directory
  holds another bundle (1667-1685): an assessment needs the directory of the trials.
- A key created after its lease was closed as never created lives until its TTL;
  `RevokedMeansDead` speaks of leases that recorded a key.
- `OneLogicalResult` has one closure only while nobody outside touches the
  bucket: after a delete marker a retry creates a second version, and with it a
  second closure, of the same evidence.
- A process that dies while its CAB or snapshot is partial leaves a workspace in
  which every later attempt fails until somebody cleans it up; and a failed
  `write_bundle` removes the CAB that another process may be reading.
- A reservation of the admission service is never abandoned: its tenant waits
  until the signer answers. `reconcile_pending` raises at the first object that
  fails and so leaves later ones (`evidence/admission.py:4199`). A death between the
  creation of the database file and its schema leaves a file no service opens.
- An adopted publication must go to the very next fence; if that lease is lost
  unused, the publication can no longer be adopted.
- The login-admission limit can be exceeded by one when a finalization meets a
  reservation made after its own has expired.
- Detection results are not signed: alerts, query and closure rewritten together
  are accepted. Support does not check the timeline of its artifacts; response
  does.

## Proofs

`DeploymentReconciliationProofs` begins with the desk. It proves for all people, roles, configurations, workers and
bounds that satisfy `ControlPlaneConstants` that `CPSpec` implies `CPTypeOK`,
`ActivePointsToApproved`, `SeparationOfDuties`, `OnlyNewestIsOpen`,
`DesiredIsNewestApply`, `PredecessorIsPriorApplied` and `RetryLineage`, and so
`OutboxIsOneLine`, which is the conjunction of all but the first and third. They are
corollaries of one theorem, `ControlPlaneInvariant`, that `CPInv` is inductive.
`CPInv` adds to the seven properties what they need from one another:

- `DecidedByChecker`: a decision names an existing revision and somebody who is
  not its maker. `SeparationOfDuties` needs it when an operation is appended.
- `ApprovedWasDecided`: a revision that is or was approved has such a decision;
  it links the state that `Activate` and `RequestRollback` test with the ledger
  of decisions.
- `AppliedHasLatest`: if some operation is applied, a latest one exists. The
  predecessor is chosen as a maximum, and this replaces an induction over the
  outbox.

`OnlyNewestIsOpen` carries the argument: because nothing but the newest
operation can change its state to applied, the set of operations applied before
an operation is settled when it is requested, and the predecessor that was read
then stays right. The proof has a lemma per action, and lemmas about rows that
several actions share.

`AuditReconstructs` is inductive beside `CPInv` with two additions (`AuditInv`): events
are about rows that are there (`ObjectsAreStored`), so that a new row has no trail yet,
and the pointer is set exactly if an activation was logged (`PointerIsLogged`). That a set
of places in the chain has a latest one follows from the well-foundedness of the naturals
(`LatestIsLast`), and no induction over the chain is needed: `TrailGrows` says what one
event adds to each trail.

`RuntimeDeploymentsProofs` proves `RDSpec => []RDInv` under
`RuntimeDeploymentConstants` and from it `RDTypeOK`, `HistoryStrictlyOrdered`,
`ReceiptChain`, `DeployedUnderProfile`, which together are `HistoryIsOneChain`,
and the action property `AppendOnly`, for requests and timestamps of any size in
any order. `RDInv` is the conjunction of the four invariants: `ensure_applied`
compares a new operation, and its application time, with the *current* row, so
the order of the whole history is inductive only together with the chain, which
says that the current row is the newest. The lemmas state what each verdict
entails (`InsertedIsNewer`, `ReopenedIsFenced`), that the application time is
later than the current one's (`AppliedAfterCurrent`) and what the two writing
branches leave.

The second part of `DeploymentReconciliationProofs` proves `LedgerMatchesRuntime` for
any number of people, workers, leases, crashes and calls that commit late. It
instantiates `RuntimeDeploymentsProofs`, and first shows
that every step of the composition is a step of the desk and a step of the target
(`CompositionRefinesParts`, the property `ImplementsDeskAndTarget`), so that
`CPInv` and `RDInv` need no second proof and `DeskStaysInOrder` follows. `DRInv`
adds the tie between the two databases: every job, every abandoned call and every
row of the history names an operation of the outbox with its revision and
configuration and a fence that was handed out for it (`IsOf`). `AppliedWasDeployed`
alone is not inductive, because an acknowledgement believes the receipt in the
worker's job, and nothing else says that the receipt belongs to the operation.
`RuntimeNotBehindLedger` then follows from the order of the history.

`RuntimeCatalogProofs` extends `RuntimeDeploymentsProofs` and is about `RuntimeCatalog` and
`RuntimeWorker`. `RunsAreAccounted` needs
`Stories`, which says for every run how its claims and outcomes follow from its
state, and `NothingIsRewritten` and `HistoryIsOneChain` come with it.
`WindowsAreExact` rests on lemmas about division (`FloorBoundary` and its companions)
that settle the ceilings and floors of `due_window_ends`, and on `RunsAreDue`: no run
exists before the lag after its window has passed, hence a deployment that cuts a
window was open for longer than the lag (`CutsAreLate`). It is proved for every lag
and every commit delay. `LagKeepsThePromise` is the consequence for schedules whose
lag is at least the commit delay: there the promise of the documentation,
`WindowsBelongToOneDeployment`, holds.
`ImplementsCatalog`, the refinement of the catalog by the worker processes, needs that a
process between claim and closure holds a claim of the ledger (`RWTypeOK`, inductive
beside `RCInv`), and that the scheduler's exponential backoff stays a delay that the
store accepts (`DelayIsBounded`, for any fence).

`ExecutionJournalProofs` proves `OnePublication` and `DecidedStays`. The invariant
`EJInv` says of each program counter of `ensure_executed` what the worker knows of
the journal while it still has the highest fence, and nothing once it has not
(`WorkersAreInformed`); that a call in flight is one that its sender no longer waits
for (`LateCallsArePast`), so that it finds a revision or a fence that has moved on; and
that an authorization names a fence that is not the highest (`AbandonedIsFenced`).

`AccessProofs` has one invariant per module. `IssuanceInv` (for `FencedMeansDrained`)
says that all sequence numbers, those drawn and not yet inserted too, come from one
counter, and that only an active binding takes rows: that is why a watermark taken at
the fence seals the binding. `TokenInv` ties three things together for each acquisition: what its
row announces (`RowHolds`), what its one broker knows at each step (`BrokerHolds`),
and whether a request for it is still travelling, in which case no token exists yet.
That a recorded expiry covers its token follows because the expiry counts from the
receipt of the answer, hence never from before the issue. Nothing is assumed of the
timeout, of the lifetimes Entra gives, or of when it serves a request.
`ElasticInv` says which key a broker may
still make or has seen deleted, at each of its steps.

For sign-in, `LoginInv` says that a login that was consumed is never ready again
(`ConsumedIsGone`), whatever the replay ledger forgets; `JwksInv` counts the requests
to the provider against the flight that made them (`GetsAreSpent`), and that there is
one leader at a time, from which it follows that key sets never go back.

`EvidenceProofs` has three parts.

- The file system. `FilesystemKeepsPromise`, a refinement of `CustodyPromise`: under
  `CustodyInv` a directory has an object's name only when all of it is on disk, a name
  is taken once, a stage has one writer, and what a caller was told is on disk; every
  step, power loss included, is then a step of the promise or stutters.
- The bucket and publication. `S3KeepsPromise` is proved of the whole `PublicationSpec`:
  every step moves the bucket in a way that keeps retained versions (`Moves`,
  `KeepsRetained`). `PubInv` adds what every publisher knows at each of its steps of the
  workspace and of the bucket (`PublishersAreSound`), that the CAB has one writer
  (`OneCabWriter`), and that without outside writes no key has a second version; from it
  follow `PublicationIsHeld` and `OneLogicalResult`. One lemma says that a step which
  keeps retained versions and the snapshot keeps what the other publishers know; the
  lemmas per action deal with the publisher that moves.
- Recovery. `AdoptedAlone` follows from `RecoveryInv`, which carries the argument from
  document to document: a fence that was attested is up and stays up until it may end, a
  drain is signed after every call of the old attempt has ended or is bounded, an
  approval lies within its drain, an adoption within its authorization, and so on to
  the end of the successor's lease.

`AdmissionProofs` proves `LedgerAlwaysValidates`, `AdmittedUnderTrust` and
`OutcomesAreFinal` for any number of services, tenants, leases, policies and instants.
All three follow from `AdmissionInv`, which has three parts.

- `LedgerInv`, about the tables. The validation every service runs looks at the ledger as
  a whole, while a transaction only compares itself with the heads; so the invariant says
  that a head is the last of its chain, that only heads await custody
  (`OnlyHeadsArePending`), that a reservation is next in both of its chains and there is
  one per tenant (`ReservationsHold`), that the policy versions are exactly those of the
  bodies, unforked, with the highest as head (`PoliciesHold`), and that neither the
  clock's floor nor a policy's revision goes back (`InstantsAreOrdered`). The last one is
  the argument for `AdmittedUnderTrust`: a service may hold an older policy for as long as
  it likes, but a body it reserves is compared with the head in the same transaction.
- `CachesAgree`: a service that has the ledger open knows its heads or is about to read
  them again. Without it a service could lock itself out by its own commit.
- `ServiceIsKnown` and `CustodyIsKnown`: what each step of a call relies on is still in
  the ledger and in custody, whatever the other services did since it looked. Because
  bodies are only added or finalized, one lemma (`CommitKeeps`) carries this over every
  commit of another service.

The theorems have one hypothesis, `NilIsNoReceipt`: the model's None is not a record of
body and signature. TLA+ leaves open what a constant is; in the runs `Nil` is a model
value and so different from every record.

`TrialProofs` is about the four experiments.

- Recovery. `RecoveryRunsOnItsCutover` follows from `CutoverInv`: what was read of the
  lifecycle directory is pinned before each step that uses it, so a clone is opened only
  on the cutover of its own branch. `RecoveryIsClassified` needs `RecoveryInv` besides:
  at each step of a trial the rows of the clone are those that the step before left
  (`DbHolds`), a result handed out passes `ResultValid`, and a rewrite keeps what the
  assessment takes from elsewhere (`ResultsHold`). Its hard half is what is refused of
  results nobody touched: all the checks of the assessment are shown to hold of executed
  results whenever the directory holds their bundle and the threshold is above 1, and
  with threshold 1 the fixed semantics are shown to fail for the benign one.
- Detection. `DetectionIsClassified` follows from `DetectionInv`: the tables at each step
  are what the cell's steps wrote (`TablesHold`), the result handed out is as executed
  (`AsExecuted`, `TruthHolds`), and no rewrite touches the action. One half shows that
  every check of `ClosureValid` (alert graph, clock, detector, query, attestation,
  closure) holds of an executed result. The other shows that a closed window ties the
  identities of the alerts to the query and the closure, so that a false class needs all
  three rewritten, and a concluded absence of a rule that fired the detector's record
  too. Filters of alerts and events are stated by the places they keep (`Kept`), which
  the provers can reason about, and not by recursion along the sequence.
- Response. `AdmittedResponseIsExecuted` and `AdmittedBundleIsOne` follow from
  `RunnerInv`, for the runner, and `ReaderInv`, for the repository. `RunnerInv` gives the
  clock reading of every ordinal (`ClockHolds`), the rows and readbacks of the trial that
  runs (`RowsHold`, `TrialHolds`) and what has been written of the earlier ones
  (`RunHolds`): it is what shows that an untouched bundle passes every check.
  `ReaderInv` says that a directory has the types the checks need whatever was edited
  (`TypedBundle`), and is the runner's if nothing was; that the payloads read so far are
  those of the pinned manifest (`LoadedHolds`); and that a checked bundle is the pinned
  one, each of whose trials is valid (`CheckedHolds`). From `TrialValid` alone it is then
  proved that the metrics are the executed ones: the checks leave an editor no
  consistent lie.
- Support. `AdmittedSupportIsExecuted`, along the same lines, from `SPRunnerInv` and
  `SPReaderInv`. Here a payload that is edited need only be there (`Whole`), since the
  checks compare every artifact with one that is derived anew.

They hold for any number of edits and swaps and for any set of watched cells that the
assumptions allow. The proof of
the support experiment found a flaw of the model: the arms of two CASE expressions
overlapped, which TLC resolves by taking the first and TLA+ leaves open. They are IFs now,
as in the code.

The constants' assumptions that the proofs use are in the modules that declare them and
TLC evaluates them: bounds are naturals, sets that a row points into are not empty,
and the value `Nil` is none of the values it stands beside.

Only model-checked, because the prover does not reach it: liveness under fairness
(`EveryOperationResolves`, `EveryRunEnds`, `DueWindowsBecomeRuns`, `StopDrains`,
`CompletedIsReported`, `EveryLeaseIsRevoked`). Every other property that a passing run
checks is stated by a theorem.

## Plan

Done, in this order: `ControlPlane` and its proofs, `RuntimeDeployments` and its
proofs, `DeploymentReconciliation` over both, `RuntimeCatalog` over the target,
`RuntimeWorker` over the catalog, `ExecutionJournal`, the PAM journals, sign-in,
the scenarios, admission, custody and publication, `PublishingRecovery`; then the
proofs of these, from access to admission and the experiments.

Next:

1. Alert windows and lifecycle evaluation as operators against a reference
   definition.
2. The journal composed with `RuntimeCatalog` in place of its row.

## Not modelled

Reads, projections and pagination; canonical JSON, byte formats and
cryptography; health endpoints, telemetry and counters; tenancy (row-level
security) beyond the one tenant of the control plane; schema migrations. Beyond
that:

- custody: fsync errors that drop dirty pages; the scavenging of pending
  directories, which the code does not do; the cleanup of one is a single step;
  the expiry of a retention and its extension from outside (after which
  reverification and retries fail closed);
- publication: power loss and tampering of the workspace; two hosts with
  different work roots may capture twice, which the journal's single composition
  excludes;
- recovery: a fencing clock that is ahead; dishonest controllers; more than one
  PAM scope; lease times and worker credentials are taken from the scheduler, as
  the journal does not persist them;
- target and catalog: the answer `runtime-deployment-conflict` of `ensure_applied`,
  for a transaction that the database aborts (constraint, serialization, deadlock or
  lock timeout), which fails the operation for good and leaves the target as it was; a claim that finds nothing because every candidate is locked,
  which is a stuttering step; the clause `requested_at <= leased_at` of the outbox's
  query, which delays a lease while the worker's clock is behind that of the request;
- journal: the comparison of the error code when a transition is repeated, since a
  worker repeats a transition with the code it sent first;
- PAM: `settle_lifecycle` compares the exposure with the time its caller gives, the
  model with the true time; credential stores and HTTP; two recoverers that work on one row see each
  other's compare-and-swap fail and try again later;
- sign-in: negative entries per key id; cleanup batches, which are taken as
  complete; the contents of tokens;
- admission: file permissions, inode checks, tampering with the database;
  liveness of reconciliation;
- scenarios: `verify_bundle` reads the files of a directory one by one; in the model
  one verification sees one directory, and changes fall between verifications and
  the reads of single payloads;
- the remaining components that the inventory marks so: protocol clients
  (Azure, Vault, Elastic, Defender) that keep no shared state; the benchmark and
  the JavaScript verifier, which are sequential and offline; lifecycle,
  evaluation and alert windows, which are functions of a list; construction of
  configuration and command lines.
