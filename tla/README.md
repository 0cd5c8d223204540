# Attested capability broker: TLA+ models and proofs

This directory specifies the core of the attested capability broker
(`src/atcap/`): the broker that turns appraised evidence into a one-use
credential, the resource server `inventoryd` that redeems it at most once, the
SQLite store they rest on and the signed receipts both emit; and the
untrusted-caller lab built on top (`examples/runpod-untrusted-caller/`): its
trusted controller and remote worker, its evidence, the script that runs it
against a cloud provider, and the two process wrappers everything live runs
under. TLC checks small instances; TLAPS proves every safety property of the
passing runs for every instance.

Run a configuration with `tlc -config MCInventoryRace.cfg MCInventory`, and the
proofs with `tlapm InventoryProofs.tla` (also `InventoryReceiptProofs`,
`InventoryRefinementProofs`, `BrokerProofs`, `LabProofs`, `LiveRunProofs`,
`CaptureProofs`, `SupervisorProofs`).

## The system

| Part | State | Operations | Talks to |
|---|---|---|---|
| `inventoryd` (`inventory.py`) | invocation counter, the locals of each running `redeem` | `issue_resource_challenge`, `redeem`, `direct_lookup_attempt`, MCP tool dispatch | store, receipt signer, delegation library |
| broker (`broker.py`) | the locals of each running `issue` | `new_challenge`, `issue` | store, receipt signer, manifest, identity and TPM appraisals |
| store (`storage.py`) | tables `broker_challenges`, `resource_challenges`, `credential_redemptions`; SQLite's write lock | inserts, one plain read, two `BEGIN IMMEDIATE` transactions | shared by all threads and by restarts |
| receipts (`receipt.py`, `errors.py`) | none | validate and sign, verify | both services |
| appraisals (`manifest_verifier.py`, `identity.py`, `tpm.py`) | none | verdict on one submission | broker |
| tokens (`challenge.py`), policies (`policy.py`), models, canonical JSON | none | values and encodings | everyone |
| bounded capture (`bounded_capture.py`) | capture files, byte counts, the child's pipes | `capture_command` | one process group, `run-live.sh` |
| deadline supervisor (`deadline_supervisor.py`) | remembered signal, deadline | `supervise` | one process group, `run-live.sh` |
| lab controller and transport (`lab/controller.py`, `lab/transport.py`) | reserved case ids, submitted run ids, redemption threads and their barrier | `prepare_case`, `run_case`, `finalize_cases`, `sign_record` | embeds broker and `inventoryd`; worker |
| lab worker (`lab/worker.py`, `handler.py`) | none | one response per prepared request | controller, through a provider job or in process |
| lab records (`lab/wire.py`, `lab/record.py`) | none | validate, sign, verify | controller, `verify-record` |
| live CLI (`lab/live_cli.py`) | state directory, payload, three evidence files | `prepare`, `finalize`, `verify-record` | controller, `run-live.sh` |
| live-run script (`scripts/run-live.sh`) | two cloud resources and what is known of them, containers, private state, evidence and recovery files | create, review, run, finalize; the EXIT trap | provider, live CLI, both wrappers |
| provider read-back (`provider_readback.py`) | none | review of documents, verdict on listings | `run-live.sh` |

A caller obtains a broker challenge, submits a request endorsed by the one
authorised identity and quoted by a TPM, and receives a credential. It asks
`inventoryd` for a challenge bound to one exact call, signs a holder proof over
it and calls `inventory.lookup`. `redeem` runs in a worker thread per call
(`asyncio.to_thread`), so calls interleave at every read of the clock, of the
tables and of the counter.

What is hard:

* checks made on a row read before the write lock, used after waiting for it;
* expiry during that wait, and again between the commit and the handler;
* two fresh proofs of one credential in two transactions that both commit;
* a crash anywhere, with the tables kept and the counter lost;
* a signer that fails after the challenge is burnt or the handler has run;
* a child process that exits with output in its pipes, leaves descendants that
  hold them, ignores SIGTERM or forks during the grace period, while signals and
  a deadline arrive at any point;
* in the lab: a worker nobody trusts, a transport deadline that races its
  answer, a barrier, a thread pool and futures with timeouts, two finalizers on
  one state directory, and kills between the spends and the evidence;
* in the live script: a create that fails after it succeeded, listings that lag,
  one deadline for all of the clean-up, a signal while it runs, and a
  configuration reviewed through three partial documents.

What makes each part correct: at most one invocation per credential, only for
an authorised call; one credential per broker challenge, only for an approved
submission; spends and consumptions that are atomic and write-once; refusals
that burn nothing they should not and name the true cause; a receipt for every
decision that says what really ran; every call ends; and a captured command
stays within its bounds, loses no output it claims to have, and is never left
running. For the lab: nothing is spent unless every answer was acceptable,
evidence that verifies is true of the store, and a run that claims a complete
clean-up has left nothing behind and deleted nothing that was not its own.
`PROJECT.json` lists
the hazards line by line with the properties that answer them.

## Modules

**`DecisionReceipt`** holds the closed set of reasons and the semantic validator
`_consistent_decision_state`. Both services build a payload record and must pass
`ConsistentDecisionState` before signing.

**`InventoryApplication`** is `inventory.py` with the resource half of
`storage.py`. The two tables are functions from tokens and credential ids to a
row or `None`. `writer` is the call that holds the write lock. Each call has a
program counter and the locals of `redeem` (`request`, `tokenHash`, `stored`,
`spend`, `invocation`, `reason`) and ends in `mcp`, the result handed to the MCP
layer. A step is the code between two accesses to something shared:

| Step | Code |
|---|---|
| `RedeemRefused`, `RedeemAccepted` | parsing, lifetime, chain, scope, proof parsing |
| `GetResourceChallenge`, `CheckStored`, `VerifyHolderProof` | the unlocked read and the checks on it |
| `BeginImmediate`, `BusyTimeout` | the lock, or "database is locked" |
| `SpendRefused`, `SpendStaged`, `Commit` | the transaction: refuse and roll back, or stage both writes and commit |
| `AfterSpend` | the winner test and the second expiry check |
| `RecordInvocation`, `InventoryLookup` | counter and private handler |
| `SignReceipt`, `SignerFails` | receipt, or the unsigned post-invocation error |
| `DependencyFails`, `Crash`, `ClockStep` | unexpected exceptions, process death, any clock |

**`CapabilityBroker`** is `broker.py` with the broker half of the store, in the
same style: `IssueRefused`/`IssueAccepted`, `Appraise`, the consume transaction,
`Mint`, `Grant`, `Refuse`. The manifest, identity and TPM appraisals are the
operators `ManifestRefusal`, `IdentityRefusal` and `TpmRefusals`, in the order
of the code. Its `TypeOK` is the first part of the invariant its proofs need. **`TpmAppraisal`** holds `tpm.py`'s own checks: the certificate
profile (`AkCertificatePolicy`, with validity windows, key usage and path
lengths) and the PCR bitmap reader (`ReadSelection`). The appraiser reads a clock
of its own, so its instant is any.

**`CapabilityStore`** is what `inventoryd` and its store promise whoever uses
them, in three actions: a challenge is issued for one credential, a spend
consumes it and the first one redeems the credential, a redeemed credential is
invoked at most once. **`InventoryRefinement`** maps the tables and calls of
`InventoryApplication` to it (`ImplementsStore`), and `LabController` is
composed with it: the lab relies on the promise, not on the threads behind it.

**`WorkerProtocol`** holds the seven cases, the response `worker.py` makes for
each prepared request and the controller's verdict on what comes back
(`WorkerResponseBound`, `ProofAsPrescribed`, `BundleAccepted`).
**`ExperimentRecord`** is the record and its verifier, which states the rules of
the controller a second time, in `wire.py` and `record.py`.
**`LabController`** is the rest of the controller, the transport and the live
CLI:

| Step of `LabController` | Code |
|---|---|
| `PrepareGrants`, `PrepareCase`, `WriteState`, `WritePayload`, `PrepareFails` | `_prepare_capabilities`, `prepare_case` |
| `ProviderJob` | the untrusted answer to a payload |
| `Submit`, `WorkerAnswers`, `WorkerFails`, `DeadlineExpires`, `LateAnswer`, `Gather` | `FakeWorkerTransport.submit`, `run_case` |
| `Begin`, `Validate`, `StartCase` | `finalize`, `finalize_cases` |
| `Spawn`, `SpawnFails`, `Arrive`, `BarrierTrips`, `BarrierBreaks`, `RaceFails`, `Unwind` | the pool, barrier and futures of the concurrent case |
| `RedeemRefused`, `RedeemSpends`, `RedeemInvokes`, `RedeemFaults`, `RedeemAnswers`, `RedeemRaises` | one `redeem`, over `CapabilityStore` |
| `Observe`, `CheckCase`, `Sign`, `WriteEvidence`, `Stops` | observations, counts, record, files; a kill |

**`ProviderReadback`** is the review of provider documents and listings, each a
function from the fields present to what the policy thinks of them. **`LiveRun`**
is `run-live.sh` from the installation of its traps on: the body up to the exit,
then the EXIT trap with its listing, deletion and absence loop per resource.
The provider is external: a create may succeed, answer and report independently
of one another, a listing may omit a live resource and show a deleted one, and
one field of the configuration may change at any time.

**`ProcessGroup`** is the operating system's part of both wrappers: a leader,
its descendants, who ignores SIGTERM, who was sent which signal, and the
leader's return code. Killing is not instantaneous: SIGKILL marks a process that
then dies in a step of its own. **`DeadlineSupervisor`** and **`BoundedCapture`**
extend it. Each has one program counter; signals, the deadline and everything
the processes do (write, close, fork, end) happen between any two of its steps.

| Step of `BoundedCapture` | Code |
|---|---|
| `OpenCaptures`, `OpenFails` | arguments, `_open_capture` twice, handlers |
| `Prepare`, `Spawn`, `SpawnFails` | last signal check, `Popen`, selector |
| `Stop`, `Select` | head of the loop: signal, deadline, events |
| `ReadEof`, `ReadChunk` | one event: end of stream, or a chunk and its limit |
| `PollStops`, `PollContinues`, `PollEnded` | end of a round |
| `LoopFails` | `OSError` in the loop |
| `Term`, `GraceExpires`, `Stopped` | `_kill_process_group` and the status |
| `WriteResult`, `WriteResultFails` | `_write_result` |

**`InventoryInvariant`**, **`BrokerInvariant`**, **`LabInvariant`**,
**`LiveRunInvariant`** and **`CaptureInvariant`** are inductive invariants;
**`InventoryProofs`**, **`InventoryReceiptProofs`**,
**`InventoryRefinementProofs`**, **`BrokerProofs`**, **`LabProofs`**,
**`LiveRunProofs`**, **`CaptureProofs`** and **`SupervisorProofs`** hold the
theorems. **`MCInventory`**, **`MCBroker`**, **`MCCapture`** and **`MCLab`** define
the inputs of the runs; `DeadlineSupervisor` and `LiveRun` need none.

Definitions that a comment calls a mutant are plausible bugs in the definition
that follows them. They are used only to show that a property can fail.

### Abstractions

* Signatures, MACs and digests are ideal: a signature is the record of who
  signed what, a digest is the value. A token names one issuance.
* `method` and `audience` come from the policy on both sides of every
  comparison and are no fields. The two services write `issued_at` and
  `decided_at` and never read them back, so their own models leave them out. The
  record verifier does read them (`record.py:163`, `:223`, `:224`, `:264`), so
  the lab has them: `grantedAt` and `broker_decided_at` for the broker's receipt,
  `decided_at` for each attempt's, `observedAt` for the record. The two
  resource-issuer fields of a request (key and key id) are
  one, and are refused for the same reason.
* The libraries' `verify_chain`, `verify_holder_proof`, `verify_challenge`,
  `verify_manifest` and `verify_tpm_quote` are modelled from their use: the
  verdict, and where the order of their checks is their own, any of the reasons.
  A token is taken to be expired from its expiry instant on, as everywhere in
  the repository's own code.
* The clock is any function of time: it may jump ahead or be set back. One
  `now` serves the injected clock and the library's own reading. In the lab it
  moves when it is read (`Reads`), and `setBack` remembers that some reading was
  below the one before it.
* SQLite in WAL mode: readers see the last commit, `BEGIN IMMEDIATE` excludes
  other writers, a crash rolls an open transaction back. An autocommitted insert
  is one step that needs the lock free.
* A call is made once; a repeated call is another member of `Calls`.
* Bytes are counted, not stored. A read takes all the pipe holds up to
  `READ_CHUNK_BYTES`; after `select` a stream stays readable, so the
  `BlockingIOError` arm is never taken. A write to a file may be short, as
  `write(2)` may on a file system that fills up.
* A process that leaves the group (`setsid`) or that the wrapper may not signal
  is out of `killpg`'s reach by construction and left out. A signal that comes
  while no handler is installed kills the wrapper. The supervisor's handshake
  pipe is filled before the child exists.
* A certificate is its validity, constraints and uses; a chain's signatures and
  its anchoring are `verify_tpm_quote`'s verdict, which also checks the validity
  of the last certificate. PCR bitmaps are real bytes.
* In the lab a request is named by its case and index; its credential, challenge
  and record id are its own. A worker response is the record of its bindings and
  of what its proof signs. Of the many reasons a redemption may be refused for
  unexpectedly, one stands for all: the controller expects none of them.
* In the live script every command either succeeds or fails, with or without its
  effect. Exit statuses are 0 and 1. Preflight is one step: it makes nothing.
* `write_recovery` truncates the note before it writes it. `recovery` is
  `"absent"` where no write was tried or the note was removed, `"whole"` after a
  write that succeeded and `"lost"` after one that failed or was cut short,
  whatever that left on the disk. In the body `set -e` ends the run at a failed
  write; in the trap, under `set +e`, nothing looks at the status of
  `write_recovery` (`run-live.sh:420`, `:442`, `:481`) or of the status file
  (`:460`, `:482`), and the model goes on as the script does. A kill in the
  middle of a write is the failed write followed by the kill.
* The resource's own name is unique: 128 random bits. Somebody may nevertheless
  have taken it, but then before the run starts, and every listing shows that
  resource; only the run's own may be missing from one. The
  configuration is forgotten once the body ends, as nothing reads it any more.

## Runs

| Run | Instance | Checks |
|---|---|---|
| `inventory_race` | 2 calls, 1 credential, 2 tokens, clock 0..1, 1 restart | `AtMostOneInvocation`, `DenialsAreHonest`, `EveryCallEnds` |
| `inventory_restart` | 2 calls, 2 credentials, 2 tokens, failing handler, misdirected challenges, clock 0..1, 1 restart | `SpendIsAtomic`, `ReceiptsIdentifyInvocations`, `StoreIsWriteOnce`, `ImplementsStore` |
| `inventory_defects` | 1 call, 15 requests with one defect each, clock 0..3 | `InvocationAuthorised`, `ReceiptsValidate` |
| `broker_race` | 2 issuances by 2 holders, 1 challenge, 1 restart | `OneCredentialPerChallenge`, `RefusalsBurnNothing`, `ApprovedIsRefusedForChallengeOnly`, `EveryCallEnds` |
| `broker_defects` | 1 issuance, every single defect, certificate paths of up to 3 CAs, PCR bitmaps that differ in one bit, two challenges | `CredentialsAreBacked`, `AttestationPathIsSound`, `AttestedPcrsAreApproved`, `ApprovedIsRefusedForChallengeOnly`, `ReceiptsValidate` |
| `lab` | the seven cases, 2 racing requests, 2 finalizers, bundles with one thing wrong, a clock that steps once, ahead or back, every case also through `run_case` | `NoSpendBeforeValidation`, `PayloadIsBacked`, `BrokenBarrierSpendsNothing`, `SignedRecordsVerify`, `EvidenceIsTrue`, `EndedMeansQuiet`, `FinalizeEnds` |
| `live_run` | the script's own constants; listings that miss a resource up to 2 times, one never seen up to 7 times | `CompleteMeansNothingLeft`, `RecoveryIsKept`, `OnlyOwnDeleted`, `JobOnReviewedConfiguration`, `SuccessIsComplete`, `ScriptEnds` |
| `supervisor` | 1 descendant, 3 signals | `LeaderNeverLeft`, `GraceBeforeKill`, `SuperviseEnds`, `SignalForwarded` |
| `capture_limits` | 1 process, limits 2 and 1, chunks of 2, up to 3 bytes a stream, fresh and appended files | `WithinLimits`, `LimitMeansExceeded` |
| `capture_group` | 1 descendant, limits 1 and 0, 1 byte a stream | `ExitMeansComplete`, `LeaderNeverLeft`, `CaptureEnds` |
| `capture_escape` | as `capture_group` | `NoDescendantEscapes` fails |
| `capture_counts` | as `capture_limits` | `CountsMatchFiles` fails |

All but the last two hold. What they say:

* `AtMostOneInvocation`: no credential reaches the handler twice.
* `InvocationAuthorised`: whoever reaches it owns the redemption row, has a
  challenge for exactly this call, a proof by the bound key, and spent inside
  both windows.
* `SpendIsAtomic`, `StoreIsWriteOnce`: redemption and consumption agree, in
  time too, and never change afterwards.
* `DenialsAreHonest`: `CREDENTIAL_SPENT` and `CHALLENGE_CONSUMED` are said only
  when another token or another call did it; a call that spent is denied only
  for loss of the race, expiry or an internal error.
* `ReceiptsIdentifyInvocations`: signed or not, an answer after an invocation
  carries that call's number and outcome, unique within one boot; an answer
  without an invocation never claims one.
* `ReceiptsValidate`: no decision path builds a payload its own validator
  refuses, so only a failing signer leaves a decision unsigned.
* `OneCredentialPerChallenge`, `CredentialsAreBacked`, `RefusalsBurnNothing`,
  `ApprovedIsRefusedForChallengeOnly`: the broker's counterparts, with the
  comment at `broker.py:168` as the source of the third; the last one also says
  that a submission which is sound all the time is never refused for itself.
* `AttestationPathIsSound`, `AttestedPcrsAreApproved`: a credential's certificate
  path and PCRs meet reference definitions that count and cover without the
  code's index arithmetic.
* `ImplementsStore`: whatever the threads, transactions and restarts do, the
  tables and the handler behave as `CapabilityStore`.
* `NoSpendBeforeValidation`, `PayloadIsBacked`, `BrokenBarrierSpendsNothing`: the lab spends nothing unless the answer to every
  request was acceptable, no worker gets a payload that cannot be finalized, and
  neither a late answer nor a half-broken race reaches a credential.
* `SignedRecordsVerify`: what passes the controller's checks passes the
  verifier's, unless the clock was set back, and then it is refused for its times
  alone. The controller compares no times, and `int(time.time())` may go back
  between prepare and finalize or between the two replays: `finalize` then fails
  at `live_cli.py:630` with every credential spent. That refusal is intended
  (`test_authenticated_receipt_times_must_precede_observation_in_order` and
  `test_authenticated_replay_receipts_are_nondecreasing` in `test_record.py`);
  the property says that there is no other.
* `EvidenceIsTrue`: evidence that verifies is true of the store, with a second
  finalizer at work on the same directory too.
* `EndedMeansQuiet`, `FinalizeEnds`: a finalize always ends, and when it has, no
  thread of it is still redeeming.
* `CompleteMeansNothingLeft`, `RecoveryIsKept`, `OnlyOwnDeleted`,
  `SuccessIsComplete`, `ScriptEnds`: the claims of the evidence files about
  clean-up are true, the recovery note is not retracted while it is needed and is
  unusable only where its last write failed, nothing of anybody else's is deleted,
  and the exit status does not hide a failure. The lab's README promises more:
  "If cleanup completes far enough to record an incomplete result, the evidence
  directory retains `RECOVERY.txt`" (`examples/runpod-untrusted-caller/README.md:245-247`).
  On a full disk the trap empties the note at `run-live.sh:420` without noticing,
  deletes the private state, which frees space, and writes `cleanup_complete=0`:
  the model has this behaviour (`cleanup_status = 0` with `recovery = "lost"`).
  A status file that cannot be written is no success by itself: the manifest,
  whose step is checked, says what the exit status says.
* `JobOnReviewedConfiguration`: no field of the configuration escapes the three
  documents reviewed before the job, unless it changed after the last of them
  that carries it.
* `WithinLimits`, `LimitMeansExceeded`: a capture file never exceeds its limit,
  appended content included, and a reported limit was really exceeded, with the
  count exactly at it.
* `ExitMeansComplete`: when the outcome is the child's own end, every byte of the
  whole group was read and no process can write any more.
* `LeaderNeverLeft`, `GraceBeforeKill`, `SignalForwarded`: neither wrapper returns
  while its child runs, SIGKILL comes only after SIGTERM and a grace period, and
  a signal during the spawn stops the run and is its status.
* `EveryCallEnds`: a call of either service ends, and holds no write lock then.
* `CaptureEnds`, `SuperviseEnds`: whatever the processes do, the wrappers end.

The two that fail are findings:

* `NoDescendantEscapes`. `_kill_process_group` returns when the leader has ended
  and sends SIGKILL only if it has not. If the leader obeys SIGTERM and a
  descendant ignores it, the descendant survives a timeout, a limit or an
  interrupt; the docstring (`bounded_capture.py:149`) says descendants do not
  escape. `supervise` has the same shape (`deadline_supervisor.py:95-102`), where
  nothing promises more.
* `CountsMatchFiles`. The destinations are unbuffered and the return value of
  `write` is dropped (`bounded_capture.py:251`), so after a short write of the
  last chunk a completed command is reported with bytes its file does not hold;
  `test_bounded_capture.py:52-55` expects the count to be the size.

### Bounds

Two calls give every pairwise race, and the theorems cover any number of them.
Two tokens give both races: same token, and two fresh proofs. One restart
separates a before and an after. With TTL 1 and a clock of 0..1 every check can
fall on either side of a challenge's expiry; the clock of 0..3 in
`inventory_defects` also crosses the inclusive end of a credential and both ends
of both windows. `MaxTime` and `MaxBoots` bound only `ClockStep` and `Crash`.
Calls are interchangeable, hence the symmetry set of `inventory_restart`; the
runs that check liveness use none. A behaviour may end when every call is over,
but the clock can always step, so deadlock is checked there. The wrappers, the
lab and the script do stop, so their runs do not check it; `SuperviseEnds`,
`CaptureEnds`, `FinalizeEnds` and `ScriptEnds` say that they stop only at their
end.

Limits 2 and 1 with chunks of 2 and 3 bytes give chunks below, at and across the
limit, from an empty or half-full file; `MaxOutput` bounds only `Emit`. One
descendant is enough to hold a pipe or to outlive the leader.

In `broker_defects` a path of three CAs has a first, a middle and a last one, and
path lengths of 0 to 2 put each of them below, at and above its limit; one
changed bit of the PCR bitmap reaches every position.

In `lab` two requests race: one that redeems and one that finds the credential
spent, in either order, with a barrier that may break for either. The CLI races 8
by default (`lab/live_cli.py:209`); the proofs are for any number. Two finalizers
give every order of look, spend and write, and a bundle has one thing wrong, as the checks of a response do not depend on one
another. `Times` = {0, 1} and one step (`MaxClockSteps`) put one reading before
or after all that follow it, in either direction. The step may come at the grant
or at either redemption of the cases in `SteppingCases`, which is the replay, the
one case whose redemptions are compared with each other as well, and at the
signature, which is compared with everything; the proofs are for any clock. As a
finalizer starts once, `FinalizeEnds` says of all of them together that they are
again and again at rest. In `live_run` the constants are the script's own: the absence horizons
are 3 listings for a resource it has seen and 8 for one it has not. The provider
may omit a live resource up to `SeenLag` = 2 and `UnseenLag` = 7 times in a row,
one less than each (`LagAssumption`): after a longer lag a resource that lives
looks gone in everything the script reads. One field
deviates and one document is irregular at a time.

### Fairness

`FairSpec` is weak fairness of each call's own steps: the operating system runs
every thread. Nothing in `redeem` or `issue` waits without a bound, as
`BEGIN IMMEDIATE` gives up after the 10 s busy timeout (`storage.py:41-43`).
No fairness is assumed of the clock, of failures, of crashes or of callers.
For the wrappers it is weak fairness of their own steps, of the passing of the
deadline and of the effect of SIGKILL; nothing is assumed of the processes. For
the lab it is weak fairness of each finalizer and of each of its threads: the
barrier gives up after 10 s and a future after 15 s, so both kinds of waiting end
in steps of their own. Nothing is assumed of the worker, of faults and of
kills. For the script it is weak fairness of its own steps: every command runs
under `capture_bounded` with a timeout.

## Proofs

Every invariant below was checked by TLC on the instances of the runs before it
was proved. Each proof module goes through `Next` action by action: frame lemmas
say what a step leaves alone, one lemma per action (or per kind of action) says
what it disturbs.

### inventoryd

`InventoryProofs` proves, for all constants allowed by `ConstantsAssumption`
(positive TTL and lifetime, inputs made of declared values) and `NoneAssumption`
(`None` is not a value):

* `TypeCorrect`: `Spec => []TypeOK`
* `InvokesAtMostOnce`: `Spec => []AtMostOneInvocation`
* `SpendsAtomically`: `Spec => []SpendIsAtomic`
* `InvokesOnlyAuthorised`: `Spec => []InvocationAuthorised`

Neither the number of calls nor the clock nor the restarts are bounded there.
`AtMostOneInvocation` is not inductive: nothing in it forbids two calls that are
both about to invoke. `IInv` adds

1. `LockHeldInTransaction`: the write lock belongs to the call between `BEGIN`
   and the end of its transaction, and to no other;
2. `StagedIsCurrent`: what a transaction read is still so when it commits
   (this needs 1);
3. `Progress`: at which steps a call has a token, a verified proof, a spend
   result; the handler is reached only after a committed first spend;
4. `WinnersOwn`, `OneWinner`: a committed first spend owns its credential's
   redemption row, so two winners of one credential are the same call;
5. `TokenMeansCredential`, `TypeOK` and `SpendIsAtomic` itself.

`NextIInv` goes through `Next` by kinds of step: steps that move one call and
write no table (`LocalMoveIInv`), arrivals, the transaction, the commit,
challenge issue, crash and clock.

`InventoryReceiptProofs` is about what callers are told, for the same constants:
`StoreWritesOnce` (`StoreIsWriteOnce`, an action property that follows from
`IInv` alone), and `InventoryReceiptsValidate`, `DenialsStayHonest`,
`ReceiptsNameInvocations` (`ReceiptsValidate`, `DenialsAreHonest`,
`ReceiptsIdentifyInvocations`). A receipt is built from locals that were set
steps earlier, so these need `RInv` on top of `IInv`: an invocation number is
drawn once in the running boot and the counter never falls behind it (`Numbered`,
`DistinctNumbers`); the reason about to be reported fits the branch that reports
it (`Reasoned`); what was read before the lock was committed, and commits are
final (`ReadIsPast`, which is where write-once is used); a loser burnt its own
token while another one holds the redemption (`LoserBurnt`); a denial's reason
fits what the call did (`DenialFits`); and every consumed challenge has a call
that committed with it (`ConsumersCommitted`).

`InventoryRefinementProofs` proves `InventoryImplementsStore`, the refinement
`Spec => ImplementsStore`: a challenge insert is `Issue`, a commit is `Spend`,
`RecordInvocation` is `Invoke`, every other step is a stutter. The guard of
`Spend` comes from `StagedIsCurrent`, that of `Invoke` from `WinnersOwn` and
`OneWinner`.

### Broker

`BrokerProofs` proves `BrokerTypeCorrect`, `IssuesOncePerChallenge`,
`CredentialsStayBacked`, `RefusalsStayHarmless`, `AttestationPathsStaySound`,
`AttestedPcrsStayApproved`, `ApprovedIsRefusedFairly` and
`BrokerReceiptsValidate`: every safety property of the two broker runs, for any
number of calls, any submissions, chains and bitmaps of any length and any clock.
`BInv` has the lock discipline and `StagedIsCurrent` as in `IInv`; `InPhase`,
that a call behind the appraisal passed it at some reading of the clock;
`ConsumerOwns`, `OneConsumer` and `ConsumersExist`, which tie consumed rows to
calls both ways; `RefusalFits`, why a call may be refused; `DistinctIds`, and
`Returned`, that a decision repeats the call's locals. The two properties about
certificates and PCRs compare the code's index arithmetic with a reference that
has none: the lemmas on `PathLengthHolds` and `SelectedPcrs` are proved for every
position and byte.

Its assumptions: `ConstantsAssumption`, `NoneAssumption`;
`SubmissionAssumption`, that a manifest and a request body have exactly their
fields and that certificates and PCR selections are well typed, which the closed
pydantic models and the parsers enforce before `issue` looks at a value;
`PolicyAssumption`, the same for the configured selection.
`ApprovedIsRefusedFairly` has one hypothesis more, `RootsAreIssuers`: with an
anchor that is no CA every quote is refused, and nothing in the code checks the
configured anchors before.

### Lab

`LabProofs` proves `SpendsAfterValidation`, `PayloadStaysBacked`,
`BrokenBarriersSpendNothing`, `EndedStaysQuiet`, `EvidenceStaysTrue` and
`SignedRecordsStayVerifiable`, all the safety properties of `lab`, for any
number of finalizers, for two racing requests or more
(`ConcurrencyAssumption`), for any clock that reads naturals
(`ClockAssumption`), however often and wherever it steps, and for any answers of
the worker that are finite
(`AnswersAssumption`: a bundle is one JSON document). `ModesAssumption`: the
modes are those of the code; `NoneAssumption`: `None` is not a value, a number
included.

`CInv` says which challenges prepare has issued when it is at a given case and
request (`IssuedSoFar`), in which order its files appear (`FilesInOrder`), that
nobody is past the validation without a bundle that passes it and with answers in
time (`Validated`), that a slot is at work only while its finalizer is in the
block that waits for it (`QuietOutside`), and that before the barrier trips
nobody has got past it, while after it broke the finalizer can only fail
(`BeforeTheBarrier`). The last two are needed together: a thread may break the
barrier when its main thread has already left it. `GInv`, relative to it, says
that every case has its grant, and the grant its time, before an answer can come
back.

`EvidenceIsTrue` (`EvidenceStaysTrue`) relates the files to the store they were
written about, with other finalizers redeeming in between. `EInv`, inductive
relative to `CInv` and `GInv`, follows a decision from the store to the file: only runs
whose proof verifies are consumed, and the first one redeems (`StoreTrue`); a
slot that spent owns the redemption, an allowed one was invoked, one that came
too late is consumed and does not own it (`SlotTrue`); the observations of the
current case are those of its runs, in order, and true (`Observed`); so are the
cases in the record, which are complete before anything is signed or written
(`CasesTrue`, `EvidenceBacked`). Two facts carry it. What is in the store stays
there (`Grows`), so what was observed once stays true. And the answer that is
redeemed is the answer that was validated (`AnswerIsValidated`): the run ids of
an accepted bundle are as many as its answers, so the lookup by run id has one
result.

`SignedRecordsVerify` (`SignedRecordsStayVerifiable`) compares two statements of
the same rules: the controller checks each case as it ends, by differences of the
handler's counter, and the verifier checks the whole record, by sums, a maximum
and the order of the invocation numbers. Nothing in `EInv` mentions the counter.
`RInv`, inductive relative to the three, says how it numbers the
invocations of a live run: it stands at `InvokedBefore[n]` when case `n` begins
(`Numbered`); the invocation of a slot is one drawn during its case, and its
snapshot is taken after it and after all attempts observed before
(`SlotNumbered`); so each attempt of a case lies between the counter's values at
the two ends of the case, and the snapshots of a replay do not decrease
(`AttemptsNumbered`). The cases that passed the check then carry exactly the
expected difference (`CaseNumbered`), the allowed attempts of the record are
three, numbered 1, 2 and 3, and the verifier's conditions follow. The verifier's
sum is a recursive function over the cases; the record has seven of them, so it
unfolds without induction. The times need `TInv`: while no reading was below the
one before, a grant is not later than the last reading, an attempt lies between
its case's grant and that reading, and a slot's answer is not earlier than the
attempts observed before it (`SlotTimed`, `AttemptsTimed`). It is inductive
because a step that reads the clock and leaves `setBack` false only raises `now`
(`ClockAdvances`). The record is observed at a reading of its own, so the
property asks for every reading from `now` on.

The lab is composed with `CapabilityStore`, whose actions have guards, and a
guard that blocked a redemption would hide a behaviour of `redeem` instead of
showing it. `RedemptionsNeverBlock` (`StoreNeverBlocks`) proves that none does: a
proof that is not refused finds its challenge issued for its own credential and
unspent, a redemption that was won finds its credential not yet invoked. It needs
`OInv`: a credential has at most one slot that has spent and not invoked, over
all finalizers, and none once it is invoked (`OneOwner`). `LabUsesTheStore`
proves `Spec => Store!Spec`. With `InventoryImplementsStore` the two sides meet:
what the lab does is allowed by the specification that `inventoryd` implements.

Two theorems are about the validation itself. `HonestWorkerIsAccepted`: what
`ProcessPayload` returns for the prepared requests is accepted, in every mode and
for any size of the race, so what is proved of validated bundles is not said of
none. `AcceptedProofIsTheWorkers`: the proof that is redeemed for a request
agrees in every field with the honest worker's, whoever sent the bundle; only the
key of the wrong-holder proof is free, as the controller requires no more of it
than not to be the holder's.

### Live script

`LiveRunProofs` proves `CompleteClaimsAreTrue`, `RecoveryStays`,
`DeletesOnlyItsOwn`, `JobIsReviewed` and `SuccessStaysComplete`, all the safety
properties of `live_run`, for every lag within the horizons (`LagAssumption`:
the script's absence horizons are what it relies on; a provider with a longer
lag refutes them, see Bounds). `LInv` says phase by phase of the trap what is
gone unless `cleanup_failed` is set (`Cleaned`); that a live resource has been
missing from at least as many listings as the loop counted, and that the short
horizon is used only for one that was seen (`Absence`); when the note stands and
what the evidence says, whichever unchecked write failed (`Evidence`); that the run verifies only its own resources
under names that were free (`OwnResources`); and what the documents read so far
have reported (`Reviewed`). The review lemmas follow a field from the provider's
configuration through a document that may lack it, and through `ExpectExact` and
`ExpectAbsentOrEmpty`, to the verdict.

### Wrappers

`CaptureProofs` proves for `BoundedCapture`, for any limits, chunk size, earlier
files, output, descendants and signals (`GroupAssumption`, `CaptureAssumption`:
the leader is no descendant, sizes are naturals, `None` is neither a number nor a
reason): `TypeCorrect`, `StaysWithinLimits`, `LosesNothing`, `TruncatesExactly`
and `LeavesNoLeader`. None is inductive. `IInv` adds that the leader exists from
`Popen` on and only its end leads to the report (`LeaderAccounted`), that a file
is at most its initial size plus the count and that is at most the limit
(`FilesAccounted`), that until a limit is hit every produced byte is counted or
still in the pipe, and that a stream leaves the selector only when nobody alive
can write to it (`BytesAccounted`), and when a stop is recorded
(`StopAccounted`). `SupervisorProofs` proves `LeavesNoLeader` and
`TermsBeforeKilling` from the `IInv` of `DeadlineSupervisor`.

### Only model-checked

Liveness, as fairness and `ENABLED` are out of the prover's reach:
`EveryCallEnds`, `FinalizeEnds`, `ScriptEnds`, `SuperviseEnds`,
`SignalForwarded` and `CaptureEnds`. Every other property of a passing run is a
theorem.

## Not modelled

* Encodings: canonical JSON, JWS, PEM, the byte layouts of TPM structures and the
  bounded JSON readers. They are pure functions of one input; a model of them
  would repeat the code character by character. What their callers do with a
  value that does not parse is modelled.
* Projections that only drop fields: the billing summary, the redacted logs, the
  manifest's digests.
* MCP cancellation: the thread goes on and the answer is lost, which is the
  crash case without the restart. The cancelling is the library's.
* `TestTpmAppraiser` and the lab's `swtpm`: stand-ins for the real TPM path.
* Key generation, argument parsing, tool listing.
* Packaging and smoke scripts: one pass over an archive.

`PROJECT.json` gives the status of each part.

## What is left

Broker and `inventoryd` over one store, one lock and one clock, the credentials
of the first being the requests of the second. They write different tables, so
what would be new is their contention for the lock. Each module has the effects
of it: a call may stay before `BEGIN` for any number of steps, and
`DependencyFails` lets it fail there with the reason of the busy timeout whoever
holds the lock.
