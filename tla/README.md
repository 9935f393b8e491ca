# Verification of the asset-transfer platform

TLA+ specifications of the services in this repository, the TLC runs that check
them and the proofs TLAPS checks.  All paths are relative to `src/`.  Five parts are
modelled, each with proofs: the immutable audit ledger, the way of a transfer through
compliance-service and topology-service, the signing of a document from the browser to
the object store, the two pages on which transfers and receipts are filled in, and
the session of the signed-in profile.

* [What the system does](#what-the-system-does)
* [Inventory](#inventory)
* [The modules](#the-modules)
* [The audit ledger modelled](#the-audit-ledger-modelled)
* [Transfers modelled](#transfers-modelled)
* [Signing modelled](#signing-modelled)
* [The pages modelled](#the-pages-modelled)
* [The session modelled](#the-session-modelled)
* [Runs](#runs)
* [Proofs](#proofs)
* [Where the documentation and the code differ](#where-the-documentation-and-the-code-differ)
* [What is not modelled, and the plan](#what-is-not-modelled-and-the-plan)

## What the system does

A user signs a transfer document.  Three core services, each with its own
database, follow the transfer through messages on two NATS JetStream streams:

1. **compliance-service** asks esign-service (request/reply) to sign the PDF,
   upserts the document in PostgreSQL and publishes `initiated` (an
   authorization) or `received` (a receipt) on `COMPLIANCE_EVENTS`.
2. **topology-service** consumes both, changes its Neo4j graph (who has custody of
   which asset) and publishes `created`, `updated` or `completed` on
   `TOPOLOGY_EVENTS`, with a snapshot of the transfer.
3. **compliance-service** consumes those three and moves the status of its documents.
4. **audit-ledger** consumes all five subjects, accumulates a draft per
   requisition in MongoDB, and seals it into an insert-only, hash-chained record
   when every required signal is there.

JetStream delivers at least once.  A handler acks when it is done; a throw naks;
a message that is not acked comes back, without a cap.  Each deployment has one
replica, but a rolling update overlaps two pods, which share the durable consumers.

## Inventory

### audit-ledger (`services/core/audit-ledger`)

*State.*  Four MongoDB collections: `drafts` (one mutable document per
requisition), `events` (insert-only log, unique `eventId`), `sealed_transfers`
(insert-only, unique `sequence` and unique `requisitionNumber`), `dead_letters`.

*Operations.*  `AuditEventConsumer.start` opens five durable consumers
(`server/src/messaging/consumer.ts`), each a sequential loop.  A message goes through
`listen` (schema, or quarantine as MALFORMED), `accumulate`
(`drafts.apply`, `events.append`, then quarantine as LATE_EVENT or `trySeal`) and
`trySeal` (`findByRequisition`, the gate `getMissingSignals`, then up to five
times `findLast`, `insert`, `markSealed`).  HTTP is read-only: `listTransfers`,
`getSealedTransfer`, `verifyTransfer`, `verifyLedger`, `listDeadLetters`.

*Hard behaviour.*  Five consumers, perhaps in two pods, interleave at every
`await`.  Nothing is transactional: the draft, the log, the record and the SEALED
mark are four writes, and a crash or an error between two leaves the rest to a
redelivery.  Two consumers that seal different requisitions compute the same
sequence.  The draft is read once and sealed several awaits later.  Nothing
rescans the drafts: only a message still to be acked can seal one.

*Correct when* the records form one gapless hash chain; a record, once inserted,
never changes and is justified by the events it lists; a message that was acked is
accounted for; a complete draft does not stay open; a SEALED draft has its record;
every message is settled in the end; a verification does not raise a false alarm.

### EventBroker (`packages/messaging`)

*State.*  One NATS connection; streams and durable consumers on the server.
*Operations.*  `connect`, `ensureStream`, `publish`, `request`, `respond`,
`subscribe`, `disconnect`.
*Hard behaviour.*  `ensureStream` reads the subjects of a stream and writes the
merged list back, so two services starting together can lose one another's update.
`subscribe` never awaits its ack.  An error of the message iterator itself ends the loop
with a log line.  `request` gives up after its timeout while the responder works on.
*Correct when* no subject is lost from a stream, and every published message
reaches a handler of every durable consumer until it acks.

### topology-service (`services/core/topology-service`)

*State.*  Neo4j: `Organization`, `Asset` (status), `TransferEvent` (status),
`HAS_CUSTODY`, and `INVOLVES` with a status per asset.
*Operations.*  `handleTransferInitiated` (MERGE by requisition number, assets to
IN_TRANSIT; a C2 transfer is completed at once), `handleTransferReceived` (the assets of one
receipt to AVAILABLE, custody to the receiver, status recomputed), then a snapshot
and a publication.  HTTP reads assets, organizations and the graph.
*Hard behaviour.*  Write, snapshot and publication are three steps, so a
redelivery repeats what was committed and publishes again under a new event id.
`received` is one consumer and `initiated` another.  A redelivered old receipt can
move custody back.  A malformed event is retried for ever.
Two authorizations of one asset may both be processed.
*Correct when* an asset has one custodian; the status of a transfer matches its
assets and never falls back; a locked asset can be received; the graph drawn
loses no asset.

### compliance-service (`services/core/compliance-service`)

*State.*  The table `compliance_documents` (id, type, requisition, status, signer,
hash, transfer event id).
*Operations.*  `signDocument`, three consumers (`updateForReqNumber`,
`updateForDocNumber`), `createTemplateDraft`, reads.
*Hard behaviour.*  The publication after the upsert is not awaited: the caller is
answered before it succeeds, and a rejection reaches the process's
`unhandledRejection` handler, which shuts the server down.  A document
signed again is set back to SIGNED.  Three consumers race to move one status.
*Correct when* the status of an untouched document only moves up, every signed
document is published, and the stored hash is that of the stored file.

### Web clients

*State.*  The authorization page (`UnifiedCustodyPage`) and the receipt page
(`TransferReceiptPage`) hold the selections; each selector, a component of another
team's bundle, holds its list, its filter and its flags.  The workflow widget
(`ComplianceWorkflow`) holds the template, the PDF it shows, the document a signature will go
to, and the signature overlay.  `useProfileSession` holds a token in sessionStorage and
a timer.

*Operations.*  Choosing an organization, an asset, a form or a row; fetching a list
when its filter changed; generating a draft, signing it; selecting a profile,
signing out, minting the token again 30 seconds before it ends.

*Hard behaviour.*  Each selection filters the lists of the others, in a circle, and
each list answers in its own time.  A selector chooses by itself when one option is left and
drops what is no longer offered.  A template changes under a request in flight.  An
answer may come after the user chose something else.  Two clocks decide about one
expiry.

*Correct when* a page at rest that lets the user go on proposes a transfer that
can be; every page comes to rest; the user signs the document on the screen, once
at a time; the token in the store is one the servers accept.

### Platform services and packages

* **esign-service**, **pdf-generator**: NATS responders without a database.  The
  request may time out while the work is done; both write into the object store
  that the browser reads.
* **auth-service**: identities, signed tokens that live 900 seconds, and a limit
  on the sessions one address may ask for in a fixed window.
* **packages/express** (token check, errors, logging), **packages/file-storage**
  (S3), **packages/contracts** (schemas): stateless.
* the other **ui-shells** and clients, **packages/ui**, **packages/mf-runtime**: view code.
* **charts**, **scripts**, compose and skaffold files: deployment.

`PROJECT.json` lists every component with its files and every hazard with its line.

## The modules

| Module | What it is |
| --- | --- |
| `AuditLedger` | the five consumers, JetStream as they see it, and the MongoDB collections |
| `LedgerChain` | the promise of `sealed_transfers`: an append-only chain |
| `LedgerReads` | `listTransfers` and `verifyLedger` beside the consumers |
| `AuditLedgerInvariant`, `AuditLedgerProofs` | the inductive invariant, the theorems and their proofs |
| `ReadProofs` | theorems about the reads, from the ledger's invariant and one of theirs |
| `TopologyGraph` | the Neo4j graph, one operator per query |
| `ComplianceDocuments` | the table `compliance_documents`, one operator per statement |
| `TransferPipeline` | the two composed with the streams between them: browser, handlers, failures |
| `TransferLifecycle` | the promise of topology-service, which `TransferPipeline` implements |
| `TransferInvariant`, `TransferProofs` | the inductive invariants of the pipeline, the theorems and the refinement proof |
| `SettlementProofs` | what the pipeline loses in the end (nothing), and what a redelivery leaves alone |
| `DocumentSigning` | widget, overlay, gateway, PDF generator, eSign responder, object store |
| `SigningProofs` | its inductive invariant, the theorems and their proofs |
| `Selectors` | what the selectors of both pages have in common |
| `CustodyPage`, `ReceiptPage` | the two pages with their selectors and lists |
| `CustodyPageProofs`, `ReceiptPageProofs` | their inductive invariants, the theorems and their proofs |
| `ProfileSession` | the session in the browser and the auth service behind it |
| `SessionProofs` | its inductive invariant, the theorems and their proofs |
| `MC...` | instances for TLC |

The modules also hold definitions marked *Mutant*: a plausible mistake in one
definition each (a dropped index, the SEALED mark written first, an event
acked without being logged ...), for which the property is violated.

## The audit ledger modelled

### State

| Variable | In the code |
| --- | --- |
| `drafts`, `log`, `sealed`, `deadLetters` | the four collections |
| `delivered`, `acked` | what JetStream remembers of each durable consumer |
| `pc`, `msg` | per worker (pod and subject): the next awaited call and the message in hand |
| `copy`, `head`, `attempt` | the locals `draft`, `last` and the loop counter |
| `faults`, `duplicates` | counters for the two bounds |

A draft holds, for each `$set` path, the **event** that wrote it last and not its data;
what an event says is the constant `Payload`.  So `getMissingSignals`,
`draftToSealedTransfer` and the properties are functions of events, and
two events that differ only in what nothing here reads are the same model value.

### Actions

One action per awaited call, named in `Handle`, in the order of the code:

| Action | Call |
| --- | --- |
| `Deliver`, `Redeliver` | the `for await` loop takes a message and `listen` parses it |
| `ApplyMatched`, `ApplyUnmatched`, `UpsertInserts`, `UpsertDuplicateKey` | `updateOne` with `upsert` in `apply` |
| `RereadSealed`, `RereadOpen` | the `findByRequisition` in its `catch` |
| `AppendEvent` | `events.append` |
| `Quarantine` | `deadLetters.add`, for MALFORMED and for LATE_EVENT |
| `FindDraft` | `drafts.findByRequisition` and `getMissingSignals` |
| `FindLast`, `InsertRecord`, `InsertDuplicateKey` | `sealed.findLast`, `sealed.insert` |
| `AlreadySealed`, `NextAttempt` | the `sealed.findByRequisition` in the `catch` |
| `MarkSealed` | `drafts.markSealed` |
| `HandlerThrows` | both `throw`s at the end of a retry loop, hence a nak |
| `Ack`, `LoseAck` | `ack()`, which is not awaited |
| `DatabaseFails`, `Crash` | any MongoDB call throws; a pod dies |

An upsert that matches nothing is two steps, the match and the insert, because
MongoDB does not do both atomically: that is the race
`apply`'s second pass exists for.  A call that took effect but reported an error
is the call followed by `DatabaseFails`.

### Abstractions and assumptions

* SHA-256 over canonical JSON is injective and never yields 64 zeros.
* Times, texts and log lines are left out.  `completedAt` counts as part of
  `Completion`.  `transferEventId` is the same in every event of a requisition, so
  it is no path of its own.  Wall-clock order plays no part.
* `PayloadAgreement`: two events that write the same signal path of one
  requisition agree on what the gate reads there, the transfer's type and
  the asset ids.  Topology takes both from the same graph node; their status and
  custody may differ.  It is proved of the pipeline that sends them: `EventsAgree`
  (theorem `LedgerInputAgrees`) for the assets; the type is in the graph node from its creation.
* A document found in a collection passes the schema it is read with, and a draft with
  every signal passes `sealedTransferSchema`.
* A message is JSON.  One that is not makes `msg.json()` throw and is nak'd
  for ever.
* The first delivery of messages to a durable consumer is in stream order.  A
  redelivery comes at any time.

### Properties

Each is stated and explained where it is defined, in `AuditLedger` or `LedgerReads`:
`TypeOK`, `ChainIntact`, `AppendOnlyChain`, `RecordsAreJustified`,
`AckedIsAccountedFor`, `NoStrandedDraft`, `SealedDraftHasRecord`,
`ApplyNeverGivesUp`, `SealedNeverChanges`, `EveryMessageSettles`,
`CompleteDraftIsSealed`, `ListMissesNothing`, `VerifyIsRight`.

The listing of the runs has a limit that spans the collections.  How `listTransfers` cuts a
smaller page is `Page` in `LedgerReads`, an operator on the two lists the queries return;
`MCLedgerReads` has TLC compare it with "sort everything, then cut" on lists of up to three
entries (`PagesAgree`).

## Transfers modelled

`TransferPipeline` follows a transfer from its signed authorization to its last
receipt.  A consumer is named by its subject: topology-service takes `initiated` and
`received`, compliance-service `created`, `updated` and `completed`.

| Variable | In the code |
| --- | --- |
| `custody`, `assetStatus`, `eventStatus`, `involves` | the graph: `HAS_CUSTODY`, `Asset.status`, `TransferEvent.status`, `INVOLVES.status` |
| `status`, `linked` | the table: its status column, and the rows with a `transfer_event_id` |
| `drafts`, `signings` | what the user has rendered and how often each document was signed |
| `disturbed` | a history variable: the assets promised to a second transfer, or received again after they had moved on |
| `sent`, `acked`, `cursor` | the streams by subject, and what JetStream remembers of each consumer |
| `pc`, `msg`, `outcome` | per consumer: the next call, the message, what `updateTransferEvent` returned |

| Action | In the code |
| --- | --- |
| `RegisterAsset` | `AssetsRepository.createAsset` |
| `Draft` | what the selectors offer when a document is rendered; it is not checked again |
| `SignDocument`, `PublicationLost` | `signDocument`: the upsert and the publication nobody awaits |
| `Deliver`, `Redeliver`, `Finish` | `EventBroker.subscribe` |
| `Create`, `Update`, `PublishTransfer` | `handleTransferInitiated` and `handleTransferReceived`, query by query |
| `UpdateDocument`, `UpdateRequisition` | the three handlers of compliance-service |
| `HandlerFails`, `RestartTopology`, `RestartCompliance` | a throw or a lost ack; a death and the boot after it, with the seed |

*Abstractions.*  The eSign request is `DocumentSigning`'s; here a document is signed or it is
not.  Display names, dates, the order of lists and message ids are left out.  A
publication is delivered arbitrarily late, so when JetStream received it makes
no difference.  `findTransferEventSnapshot` is one step with the publication that
follows it: the asset list it reads is fixed once the transfer exists, and its status
is not used by any receiver here.  The seed's own transfers are left out: their dates are
not ISO strings, their `INVOLVES` edges have a status no handler writes, and there are no
documents for them.  Its assets and custody edges are in.

*The abstract specification.*  `TransferLifecycle` says that an asset changes hands
only by the delivery of a transfer that was started, all assets of a receipt at
once and to the receiver ordered; that deliveries only accumulate; and that a
transfer is `COMPLETED` exactly when everything ordered was delivered.  The
refinement maps `holder` to the one custodian of an asset, `delivered` to the
`INVOLVES` edges that are `COMPLETED` and `progress` to `TransferEvent.status`.  Holders
are tracked for assets the seed does not create: a boot merges the first custodian
of a seeded asset back in, so after a transfer it has two until its next receipt.

*Properties*: `OneCustodian`, `InTransitCanBeReceived`, `GraphShowsEveryAsset`,
`DocumentsFollowTheGraph`, `SettledDocumentsAgree`, `HeadersListTheOrder`,
`ImplementsLifecycle`.  `InTransitCanBeReceived` asks of every locked asset that an open
transfer names it, and of one that is not `disturbed` that the sender of every such transfer, whose
assets are all the receipt page offers, still holds it.  The exclusion is needed: without it
TLC finds an asset that nobody can receive (see the differences below).  `TransferInvariant` adds `RedeliveryKeepsProgress` (a message handled
again after its ack moves no transfer), `RowsNeverFallBack` (a row falls back only when its
document is signed again), `AckedIsDone` and `EventsAgree`.  These four are proved and belong to no run; TLC
found them to hold on the instance of `transfers` before they were proved.

## Signing modelled

`DocumentSigning` has the widget's state by its names in the code (`pdf` is
`pdfBlobUrl`, `unsigned` is `unsignedDocumentData`, `submitting` is the overlay's
`localSubmitting`), one draft request with its stage, and one record per submitted
signature with where it stands at the responder, at the gateway and in the
browser.  The three advance on their own.  The gateway gives up on a responder that goes on
(`GiveUp`, then `SignDraft`), and the browser's fetch is cut while the gateway goes on
(`FetchFails`, then `RecordSigning`), after which the user may sign the document again
beside the first request.  The responder takes requests one at a time in whatever order they
reach it and may die with one (`SignDraftFails`).  The upsert (`RecordSigning`) and the
answer (`AnswerSigning`) are two steps: the event is handed to the broker client between
them and the answer waits for nothing more.  A template change resets the widget under
requests that still come back (`SelectTemplate`, then `ShowDraft` or `ShowSigned`); "Back to
Interactive View" unmounts the overlay and leaves `showSignatureOverlay` set, so the overlay is on
the screen when `OverlayShown`.  A stored PDF is the number of the signing that made it, so that
the hash in the row and the file can be compared.

*Abstractions.*  The strokes of the signature, the form fields and the hydration of
the template are left out, and so is which template is selected: no guard but the readiness of
the form looks at it.  Every way a draft fails is `DraftFails`; what the generator may still
store then goes under an id that nobody asks for again.  Whether the event of a signature is
published is `PublicationLost` of `TransferPipeline`.

*Properties*: `WhatYouSeeIsWhatYouSign`, `OneSignatureAtATime`, `SignedMeansRecorded`,
`RowMatchesObject`, `EverySignatureEnds`.  `SignedMeansRecorded` says of a signed PDF on the
screen that its row is written and a signing of it was answered; it says nothing of the
event's arrival, which the code does not wait for.  `RowMatchesObject` names the ways row and
stored PDF come apart: a signing that stored its PDF and is still to be recorded or was given up,
and one whose fetch was cut.

## The pages modelled

`CustodyPage` and `ReceiptPage` are one React tree each.  `Render` is one commit: the
effects of every selector run on the same props and state, each synchronizes its
choice with its list (`Synchronized`), notes whether a removed filter suppresses the
automatic choice (`Suppressed`), and starts a request if its filter changed,
which aborts the one before.  `Answer` and `Fail` end the request of one
list, in any order.  `User` makes one choice among what the lists offer, once the effects of
the last one have run (`Quiet`); lists may still be loading.  The table of
the receipt page is fetched by a hook that does not abort: `fetches` holds every
request under way and `DocumentsArrive` takes them in any order.

*Abstractions.*  The lists come from a fixed inventory: what another user changes
meanwhile is the subject of `TransferPipeline`, where a draft is not checked again.
Two effects of the authorization page that derive a transfer type and a control type from a
choice are folded into the commit that follows.  Texts, loading marks and manual
entry of a template id are left out.

*Properties*: `SettledFormIsSound`, `PageHasTheFormShown`, `SettledReceiptIsSound` and,
of each page, `AlwaysSettles`.

## The session modelled

`ProfileSession` has the server's clock `now` and a browser whose clock is ahead by
`skew`; the session in sessionStorage, the pending re-mint, the requests under
way, and the counter of the fixed-window limiter.  `Select`, `SignOut`, `TimerFires`,
`NoticeExpiry`, `SignedIn`, `Refused` and `Lost` are the hook; `Handle` and `Elsewhere` the
server, asked by this browser or by another at the same address.  `Tick` lets time pass while
no request is overdue and no timer is due; `Oversleep` is a tab that sleeps.
History variables (`granted`, `choice`, `crossed`, `troubled`) are read by the properties only;
`granted` is the log of the times at which requests of the address were admitted.

*Properties*: `SessionKeepsWorking`, `LastChoiceWins`, `BurstIsBounded`.

## Runs

`tlc -config <run>.cfg <module>`; the module and the properties are in `PROJECT.json`.

| Run | Instance | Shows |
| --- | --- | --- |
| `c2_race` | 3 requisitions, 7 messages (one malformed), 1 pod, 2 sequence attempts, 1 duplicate, fairness | the chain under a race for the sequence that is lost once or twice; every message is settled |
| `pods` | 1 requisition, 2 messages, 2 pods, 2 attempts, 1 fault, 1 duplicate, fairness | the upsert race, sealed drafts, and recovery from a crash |
| `two_receipts` | 1 physical transfer, 5 messages in two receipts, 1 pod | the seal gate in every order |
| `reads` | 2 requisitions, 5 messages, no fault, one listing and one verification | reads beside the writers |
| `transfers` | 3 transfers, 2 assets (one double-booked and handed on, the other from the seed), 5 documents, 1 mishap | both services from signature to last receipt, and the refinement |
| `signing` | 2 drafts, 3 signatures | every order of answers, timeouts, cut fetches and template changes |
| `custody_page` | 2 organizations, 3 assets, 2 forms, 3 choices, 1 failed request | the page at rest, and that it comes to rest |
| `receipt_page` | 3 transfers, 3 organizations, 2 choices, 1 failed request | likewise |
| `session` | 2 profiles, 2 choices, 2 requests from elsewhere, 3 clocks, 8 ticks, 1 mishap | expiry, re-mint and the limiter |
| `late_lost`, `redelivered_receipt`, `stale_rows` | small | the three disagreements below |

**Bounds of the ledger.**  `MaxSequenceAttempts` is 5 in the code.  A worker loses a round of the
race only to a record inserted meanwhile, so with three requisitions it loses at most
twice: with 2 attempts it retries after the first and throws after the second.
`MaxFaults` 1 puts one crash, lost ack or database error at every point of a
handler (`pods`); `MaxDuplicates` 1 puts a second copy of a message beside the first
or after its ack, which is enough for every property here: none counts.
Two pods matter only for two workers of one subject, so `pods` needs a single transfer.
The theorems below hold for every value of all of these.

**Bounds of transfers.**  `MaxMishaps` 1 puts one failed call, lost ack, death, lost
publication, late duplicate or second signature at every step of every handler.  Two
transfers that share an asset are the least for a conflict, a third that hands it on the least
for an asset that was passed on before an old message returns; two receipts of one transfer
are the least for `PARTIALLY_COMPLETED` and for a late `updated` beside a `completed`.

**Bounds of signing.**  Two drafts make one of them stale; three signatures let two
requests for one document, the first of them cut, and one for another be under way, or three of
one document overtake each other.  There are 419139 states.

**Bounds of the pages.**  A choice is undone, replaced or made on a list that another choice
changes: three choices on the authorization page reach each of these, two on the receipt
page do, where a choice of a row changes every list at once.  One failed request
leaves one list empty under a choice.  Requests are as many as the filters ask.

**Bounds of the session.**  900 and 30 seconds become `TTL` 6 and `Margin` 3 with `Latency` 1,
the smallest numbers for which `TimingSuffices` holds with a clock off by one either
way; it is what the properties rest on.  Eight ticks see a token
minted, minted again, and the first one's end.  `Limit` 2 and `Window` 3 let one window fill at its
end and the next at its start.

**Deadlock** is checked in the runs of the ledger, of transfers and of signing.  `Drained` and `Settled`
state the situations in which the first two rightly rest: everything acked and every
loop waiting.  The runs of the pages and of the session set `CHECK_DEADLOCK FALSE`: a page
rests when its user does nothing more, and the bounded clock stops.

**Fairness.**  `c2_race` and `pods` assume weak fairness of each worker's `Take` and of its `Handle`.
`Handle` is justified by the event loop and by the MongoDB driver, which answers
or throws; `Take` by JetStream, which keeps delivering a message nobody acked
because the consumers are added without `max_deliver`.  It presumes that the
iterator does not end (`packages/messaging/src/index.ts:204`).
Faults and duplicates are not fair and are finite, so the run says
that the ledger recovers once failures stop, not that it progresses during them.
`signing` assumes weak fairness of the draft's way and of each signature's: the gateway's two
timeouts (15 and 10 seconds) end what a responder leaves open, and the browser's `fetch`
ends with its answer.  `FetchFails` is not fair: no connection need drop.  The two pages assume weak fairness of `Page`: React commits what
an effect has set, and a request is answered or fails.  The user is never
fair.

## Proofs

### The audit ledger

`AuditLedgerProofs` proves, for every set of events, requisitions, documents,
assets and pods, and every bound:

| Theorem | States |
| --- | --- |
| `TypeCorrect` | `Spec => []TypeOK` |
| `InvariantHolds` | `Spec => []IInv` |
| `ChainIsIntact` | `Spec => []ChainIntact` |
| `LedgerIsAppendOnlyChain` | `Spec => AppendOnlyChain` |
| `HistoryIsImmutable` | `Spec => SealedNeverChanges` |
| `RecordsAlwaysJustified` | `Spec => []RecordsAreJustified` |
| `NoAckedMessageIsLost` | `Spec => []AckedIsAccountedFor` |
| `NoDraftIsStranded` | `Spec => []NoStrandedDraft` |
| `SealedDraftsHaveRecords` | `Spec => []SealedDraftHasRecord` |
| `TwoPassesSuffice` | `Spec => []ApplyNeverGivesUp` |

*Assumptions*: `PayloadType`, `PayloadAgreement` and `BoundsType`, which TLC
evaluates on every instance.  `PayloadAgreement` carries weight: without it
a `created` event could add an asset to a draft that was complete, and a complete
draft could become incomplete again.

*The argument.*  None of the properties is inductive alone.  `IInv` adds what a
handler may rely on at each await:

* `DraftsOK`: a path names a merged event of the requisition that writes it,
  and every path of a merged event is written.  Hence merging an event again
  completes nothing (`RemergeCompletesNothing`), the heart of `NoStrandedDraft`:
  only a *new* event can complete a draft, and its message is not acked yet.
* `CopiesOK`: the stale copy in `trySeal` was complete when it was read and its
  events are of the right requisition.  That alone makes the record justified,
  whatever the draft has become meanwhile.
* `ProgressOK`: what each program counter implies was already written.  It gives
  `AckedIsAccountedFor` at the ack and `SealedDraftHasRecord` at `MarkSealed`.
* `ApplyOK`: on its second pass `apply` finds a draft, so a second duplicate
  key means SEALED.
* `LateHasRecord`: a late event's requisition has its record, so a handler
  that quarantines cannot strand a draft.
* `Gapless`: no sequence below a record's is missing.  With the type
  invariant (a head in hand is the genesis or *some* record) this makes any
  record that passes both unique indexes the next one in the chain
  (`InsertAppends`): a stale head always meets a duplicate key.

`ReadProofs` adds `ListingIsComplete` (`ReadSpec => []ListMissesNothing`) and
`VerificationIsRight` (`ReadSpec => []VerifyIsRight`).  A transfer that was not open in the first
query of `listTransfers` was SEALED and so has its record by the second (`ListingOK`).
The cursor of `verifyLedger` leaves no gap behind it (`CursorOK`) and a record is only ever
added with the next number (`RecordIsNext`), so no batch, however small and old, misses one
between two others, and the record it checks next is the one expected (`NextIsExpected`).

`PagesAreRight` proves for lists of every length, every limit and every offset that cutting each
query at their sum, merging and cutting again gives the page of everything sorted together: what a query leaves
out has limit + offset newer entries in the cut (`CutIsNewer`), and so is not on the page.
Its hypothesis is that each query returns newest first.  MongoDB sorts the drafts
by `updatedAt`, but the records by `sequence`; that is the order of `sealedAt` as long as the clocks of
two pods that seal in turn do not disagree by more than the time between.  Two entries of one
list are taken to differ in their time.

Each step lemma treats one action; `Grows` and `StepGrows` collect what no
action ever takes back.

### Transfers

`TransferProofs` proves, for every set of organizations, assets, transfers and documents,
every seed and any number of mishaps:

| Theorem | States |
| --- | --- |
| `InvariantHolds` | `Spec => []IInv` |
| `PipelineTypeCorrect` | `Spec => []PipelineTypeOK` |
| `CustodyIsUnique` | `Spec => []OneCustodian` |
| `LocksCanBeReleased` | `Spec => []InTransitCanBeReceived` |
| `CanvasIsComplete` | `Spec => []GraphShowsEveryAsset` |
| `DocumentsNeverRunAhead` | `Spec => []DocumentsFollowTheGraph` |
| `HeadersAgree` | `Spec => []HeadersListTheOrder` |
| `GraphImplementsLifecycle` | `Spec => ImplementsLifecycle` |

`SettlementProofs` adds:

| Theorem | States |
| --- | --- |
| `SettleInvariant` | `Spec => []SettleInv` |
| `DocumentsSettle` | `Spec => []SettledDocumentsAgree` |
| `AckedWorkIsDone` | `Spec => []AckedIsDone` |
| `RedeliveryKeepsTransfers` | `Spec => RedeliveryKeepsProgress` |
| `RowsOnlyClimb` | `Spec => RowsNeverFallBack` |
| `LedgerInputAgrees` | `Spec => []EventsAgree` |

*Assumptions*: `OrderType`, `DocumentType` and `OneAuthorization`, which TLC evaluates on every
instance.  The first two say that a receipt lists some of the assets authorised and an
authorization all of them, as the pages have it.  `OneAuthorization` says that no two
authorizations have the same requisition number: `createTemplateDraft`
makes one, of eight random hex digits, for every document rendered without, and the workflow
widget supplies one for a receipt only; that two of a year never collide is presumed.  It enters with
`SettleInvariant`, and so with the first four; `RowsOnlyClimb` and `LedgerInputAgrees` rest on `IInv`.  Nothing is
assumed of the order of messages or of who signs when.

*The argument* (`TransferInvariant`).

* `GraphGrows` is what no query ever takes back: a registered asset, a created
  transfer, its progress, a received asset.  So whatever a message said of the
  graph when it was published (`MessageOK`) is still true when it is handled, however
  late or often: `updated` and `completed` never promise compliance-service more
  than the graph has.  That is `DocumentsFollowTheGraph` (`RequisitionStep`).
* `EdgesOK`: a transfer involves nothing before it is created and all it orders
  afterwards, and an edge IN_TRANSIT belongs to an open transfer.  A second
  authorization therefore links and locks nothing (`CreateKeepsGraph`), and the
  snapshot a handler publishes is the order (`AnnouncementOK`).  With custody
  it also puts every asset on the canvas.
* `LocksAreOpen` and `BookingOK`: an asset is locked for an open transfer.  One that is not
  `disturbed` is awaited by one transfer at most, authorised or open (`Pending`), whose sender
  holds it and which keeps it locked.  A document rendered for an asset that is already
  awaited (`DraftBooks`) and a receipt that unlocks an asset which another transfer gave on
  (`UpdateBooks`) are what disturbs.  That gives `InTransitCanBeReceived`.
* `PaperOK`: what a selector offered stays registered, or involved, until the document is
  signed.  Nothing checks it again at the signature, and nothing needs to.
* `PublishOK`: between the update and the publication the graph may move on, but what
  the update returned stays true.
* The refinement maps `holder` to the only custodian (`OneCustodian`), `delivered` to the
  completed edges and `progress` to the event's status.  Registering, creating and
  updating are the steps of `TransferLifecycle`, a repeated authorization and the seed of a
  boot are stutters, and a repeated receipt delivers again: the lifecycle allows it, and
  `redelivered_receipt` shows what it costs.

*The argument of `DocumentsSettle`* (`SettleInv`).  `DocumentsFollowTheGraph` says that a row is
never ahead; that it is not behind once everything is acked needs an invariant of what
is still on its way.

* `CatchesUp`: while the row of an authorization signed once is behind its transfer, an unacked
  message will bring it up (`OnItsWay`).  Which one depends on how far the transfer is.  It may be
  the message topology-service is still to publish for, or the `created`, `updated` or `completed` that
  compliance-service is still to take.  A `created` does not count once the transfer has
  moved on, nor an `updated` once it is completed.
* `NewsOK`: a handler about to publish has the graph's status in hand, so what it
  publishes brings the row up, and it acks only after that (`DoneOK`, `AckedIsDone`).
* `ProgressOK`: a transfer is COMPLETED exactly when every asset of it was received, so the
  receipt that moved it is the one whose news count.
* `SignedFirst`: a transfer exists only after its authorization was signed and its row
  written, so an event never meets a requisition without a row.  A second signature
  resets the row and brings back only what `initiated` causes, hence *signed once*.

`RedeliveryKeepsTransfers` follows from `AckedIsDone`: an update whose assets are all received
recomputes the status it finds.  `SettleInv` was checked by TLC on the instance of `transfers`.

### Signing

`SigningProofs` proves, for any number of drafts and signatures, whichever fetches are cut:

| Theorem | States |
| --- | --- |
| `SigningInvariant` | `Spec => []IInv` |
| `SigningTypeCorrect` | `Spec => []SigningTypeOK` |
| `SeenIsSigned` | `Spec => []WhatYouSeeIsWhatYouSign` |
| `SignaturesTakeTurns` | `Spec => []OneSignatureAtATime` |
| `ShownIsRecorded` | `Spec => []SignedMeansRecorded` |
| `RowFollowsObject` | `Spec => []RowMatchesObject` |

*Assumptions*: `BoundsType`.  *The argument.*

* `DraftOK`: one draft is under way, newer than every document shown or signed.  Hence a
  late draft never lands under a signature that waits (`ShowDraftStep`).
* `ScreenOK`: the draft on the screen is the one of `unsigned`, a signed PDF has its row and an
  answered signing, and `showSignatureOverlay` is never set beside `isSigned`.  So an
  overlay on the screen is over the draft its signature goes to.
* `WaitingOK`: a signature that waits while its draft is on the screen keeps the overlay open and
  `localSubmitting` set; whatever clears them takes the draft off the screen, which
  no later draft brings back.  Therefore every earlier signature of a document has ended, or was cut,
  in the browser.
* `SigningOK`: only a cut fetch ends before the gateway does; what the gateway recorded was signed.
* `StoreOK`: if the stored PDF is an earlier signing's than one already signed, that earlier
  signing was abandoned, by the gateway or by a cut fetch.  An upsert whose PDF is not the stored one is
  then of a signing that was cut, or it comes after one that was abandoned (`RecordSigningStep`).
  `MovesOn` gathers the steps that change no record.

### The session

`SessionProofs` proves, for every lifetime, margin, latency, limit and difference of clocks:

| Theorem | States |
| --- | --- |
| `SessionInvariant` | `Spec => []IInv` |
| `SessionTypeCorrect` | `Spec => []SessionTypeOK` |
| `MarginSuffices` | `Spec => []SessionKeepsWorking` |
| `ChoiceIsKept` | `Spec => []LastChoiceWins` |
| `RateInvariant` | `Spec => []RateInv` |
| `BurstsAreBounded` | `Spec => []BurstIsBounded` |

*Assumptions*: `TimingType` and `TimingSuffices`: an answer takes less than the margin, also
when the browser's clock is behind by the skew, and latency, margin and a clock that is ahead
together take less than the lifetime.  With the 900 and 30 seconds of the deployment that
allows a clock to be behind by almost half a minute and ahead by fourteen minutes.

*The argument.*  `TimerOK` and `RemintOK`: a session has a re-mint pending, due a margin before
its end, or one under way that was sent at that moment.  `CallOK`: an answer is at most a
latency old and, if granted, promises a whole lifetime from its sending.  Together an
answer comes before the end of the session it replaces.  `ChoiceOK`: without crossing
requests there is one under way, and it is for the last choice.

*The rate limit.*  `BurstIsBounded` counts over a stretch of the log; the proof needs no sum.
`SpacingOK` says that any two admissions 2 x `Limit` - 1 places apart lie a window apart, so a
stretch of one window holds fewer.  `WindowOK` makes it inductive: the current window admitted the last
`InWindow` entries of the log, the first of them (`Opener`) opened it, and the `Limit` entries
before that began at least a window earlier.

### The pages

`CustodyPageProofs` and `ReceiptPageProofs` prove, for every set of organizations, assets,
forms or transfers, and any number of choices, answers and failures:

| Theorem | States |
| --- | --- |
| `PageInvariant`, `ReceiptInvariant` | `Spec => []PageInv`, `Spec => []ReceiptInv` |
| `PageTypeCorrect`, `ReceiptTypeCorrect` | `Spec => []PageTypeOK`, `Spec => []ReceiptTypeOK` |
| `FormIsSound` | `Spec => []SettledFormIsSound` |
| `FormIsTheOneShown` | `Spec => []PageHasTheFormShown` |
| `ReceiptIsSound` | `Spec => []SettledReceiptIsSound` |

*Assumptions*: `InventoryType`, `ShipmentType`.  *The argument.*  `ListsOK`: a list that is
not loading answers the filter asked last, since a filter that changed makes it load again.  At
rest the filter asked last is the one of the choices shown, and every choice is on its list
(`ShownIsOffered`, `ShownIsListed`); so each choice fits the others, although it may have been made from a
list that is gone.  That the pages come to rest is liveness and stays with TLC.

*Model-checked only*: liveness, that is `EveryMessageSettles`, `CompleteDraftIsSealed`,
`EverySignatureEnds` and the `AlwaysSettles` of both pages, since `ENABLED` and fairness are out of the
prover's reach.  Every other property of the passing runs is a theorem.

## Where the documentation and the code differ

Three runs expect a violation.  Each checks one sentence of the documentation or of
a comment; `PROJECT.json` quotes the sentence with its line.

* `late_lost`: an event merged after `trySeal` read the draft and before it marks
  it SEALED is in neither the record nor the dead letters.  It is in the event log.
* `redelivered_receipt`: a message handled and acked, and handled once more because its
  ack wait had run out, takes an asset back from the organization a later
  transfer gave it to.
* `stale_rows`: the documents table keeps the answer that came last, also when it
  belongs to an older filter.

Other differences met while modelling, without a run:

* The event that sealed a transfer, redelivered after a lost ack, is dead-lettered as
  late although the record contains it.
* The gate does not wait for `updated`, so a receipt can be sealed with no asset
  snapshots; `created` merged after `completed` leaves the older snapshot in the record.
* A transfer sealed between the two queries of `listTransfers` is listed twice.
* A document signed again after its transfer made progress is set back to SIGNED.
  Its second `initiated` makes topology-service publish `created` again, but no receipt's `updated` or
  `completed`: the row of a physical transfer stays behind.  `SettledDocumentsAgree` excludes it
  (`signings[d] = 1`).
* An asset rendered into two authorizations before either was signed is booked twice.  If one
  transfer is completed before the other's authorization is handled, the latter locks the asset at an
  organization that is not its sender; the receipt page then never offers the asset, and nothing else releases it.
  `InTransitCanBeReceived` excludes such assets (`disturbed`).
* A fetch that is rejected while the gateway works lets the user sign again, and the two upserts are not
  guarded: the one of the first request may come last, so that the row keeps the hash of a PDF that
  was replaced, with both requests answered.  `RowMatchesObject` allows it for a cut fetch only.
* The signature is answered before its event is published; if the publication fails the browser
  shows a signed document of which topology-service never learns.
* A token ends up to a second before `now + TTL`, since the code floors to seconds; the
  model's tick is longer than that.
* An answer to a sign-in is written to the store whatever was chosen since:
  `LastChoiceWins` excludes it (`crossed`).
* `isReadyForPdf` does not wait for lists that are still loading: the properties of the
  pages are about a page at rest.

## What is not modelled, and the plan

* Of the ledger: pages that are cut while records are sealed, recomputation of hashes
  (`HASH_MISMATCH`), calls that are a single query, start-up.  A graceful shutdown
  persists nothing, so it is a crash at the step where it happens.
* Of `EventBroker`: `connect`, `ensureStream` (two services that update one stream at
  once can lose a subject until the next boot), the end of a message iterator.
  `respond` has no queue group, so during a rolling update both pods serve a request; the
  model has one responder.
* Of topology-service: the seed's transfers (see above), DTO mapping, connection retries.
* Of the clients: drawing, routing, module federation, and forms that post once.
* Rendering and stamping of PDFs, SHA-256, token signatures: libraries, external.
* A re-mint that is lost or refused is not tried again, and the user is signed out when the
  token ends: `SessionKeepsWorking` excludes it (`troubled`).

Next, in this order: an abstract specification of signing (a row per document that follows its
stored PDF) which `DocumentSigning` refines; `ensureStream` as two steps; the partial failure of
`createTransferEvent` (no row returned when an organization or asset is missing).
