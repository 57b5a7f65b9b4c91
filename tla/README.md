# Verification of the RAHAL reservation service

RAHAL is a car rental service for Cairo: a NestJS API over PostgreSQL (Prisma),
a Next.js web application and shared packages. This directory holds TLA+
modules that model its core, TLC configurations that check them on small
instances, and TLAPS proofs of their main properties for every instance. Paths
are relative to the repository; `reservations.repository.ts` and its
neighbours live in `apps/api/src/`.

## 1. The system

A customer drafts a request for one car and one period and submits it. A sales
employee claims it, reads its documents, verifies or rejects them, asks for more
information, proposes another car or other dates, rejects the request, or
pre-approves it for 48 hours. Within these the customer comes to the branch,
signs a contract and pays a deposit; staff confirm the booking, deliver the car,
take it back and close the booking. A sweep in the API process ends offers,
pre-approvals and drafts whose time has passed. Each of these writes an event
into an outbox, from which workers deliver notifications. Around this core stand
accounts with codes and a second factor for staff, policies and texts published
in versions, reviews and campaigns, and a web application in which customers
write requests and staff work on lists.

| Component (`apps/api/src/`) | State | Operations | What makes it hard | What makes it correct |
|---|---|---|---|---|
| `reservations` - drafts | Reservation in DRAFT, documents, stored objects | save, details, consents, upload, delete, abandon, submit | check-then-create; clearing documents beside a submission; objects removed after the commit | one draft per selection; what is submitted is complete; every row names an object |
| `reservations` - sales review | status, assignee, offers, documents and their access log, events | claim, decide, offer, preview, verify/reject, replace, reply, respond | snapshots kept across a write; answers racing the sweep; verdicts written by id | only the last offer is open; terms are those accepted; no verdict unread; staff and customer have a way on |
| `reservations` - branch | status, contract, deposit, booking, operations, car status | contract, checklist, confirm, deliver, return, complete, cancel, no-show | two confirmations, two operations, sweep against confirmation | no double booking; request and booking agree; a car is out once; the desk is offered what the API takes |
| `reservations` - expiry | `running` flag, interval timer | sweep | one at a time in a process only; failure is logged | everything due ends, once, with its history |
| `fleet` | VehicleBlock rows | create, remove | check and write in separate transactions | holds overlap neither holds nor bookings |
| `vehicles` | Vehicle status and active flag | create, update | reads the status and writes it back | workflow status survives edits |
| `notifications` - outbox | NotificationEvent, NotificationDelivery | claim, deliver per channel, defer, retry | crash while PROCESSING, lost answers, quiet hours, retries | at least once, no channel twice after SENT, nothing stuck |
| `notifications` - centre, campaigns, push | notifications, campaigns, subscriptions | list, read, dispatch, subscribe | the seven-day cap is read then written | the cap holds |
| `background-jobs` | none | drain and sweep on call | beside the interval timer | as outbox and sweep |
| `auth` | users, sessions, codes, challenges, MFA credential | register, verify, login, reset, change contact, MFA | attempts counted after they are compared; codes used twice | single use; revocation ends sessions |
| `auth` - rate limit | Redis counters, in-process buckets | assertAllowed | fallback per process | at most the limit per window |
| `staff` | roles, overrides, sessions | create, reset, update, permissions | sessions issued beside a change | a change reaches every session |
| `policies`, `content`, `reviews`, `document-requirements` | versions, entries, reviews, rules | publish, save, moderate, update | two publications; save beside publish; the last rule | one policy in force; published is what was saved |
| `branches` | branches, and the cars and requests that refer to them | create, update, disable, delete what nothing refers to | counted, then deleted | every car and request has a branch |
| `admin-operations` | none | overview, reports, lists | a report is several queries over requests that go on while they are answered | its figures agree, but for what moved meanwhile |
| `admin-customers`, `account` | records | maintenance and reading | little | reading only |
| `apps/web` - request form | the draft, and what was saved or read for it | choose, save, details, consents, documents, submit | answers arrive after the customer has gone back and changed something | the review shown is that of the draft submitted |
| `apps/web` - requests and lists | a list, an open entry, calls in flight | open, act, save, reload | answers of an earlier entry, lists read before a change | each answer ends up at its own entry; own changes stay visible |
| `apps/web` - editors of cars and branches | a form, its pictures, uploads and saves in flight | type, move, upload, save, disable, delete | overlapping uploads and answers put into whichever form is open | no picture is lost or put elsewhere; what was typed is known to be unsaved |
| `apps/web` - notification centre | a list, a count | periodic loads, marks | marks shown before they are sent, overlapping loads | it comes to show what is stored |
| `apps/web` - signing in | a session as told last | sign in, register, verify, sign out | the cookie is shared with other tabs | whom it calls verified is |
| `apps/web` - staff onboarding | stage, challenge, session | second factor, recovery codes, address, password | stages chosen in two places; resets from outside between them | complete means nothing is left to do |
| `packages/*`, e-mail, config | none shared | types, settings | - | - |

The parts of the API share the database and nothing else: there are no calls
between processes except through rows. The web application calls the API over
HTTP and keeps what it was answered in component state. A transaction runs at PostgreSQL's default READ
COMMITTED. A handler reads with `findFirst`, decides, and writes with
`updateMany` whose WHERE clause names the status it expects, with `update` or
`upsert` by id, or with `create` under a unique index or the exclusion
constraint `Booking_vehicle_period_no_overlap`. What it read may be stale when
it writes; only the WHERE clause and the constraints are examined again. That is
where the interesting behaviour is and what the modules are built around.

## 2. Modules

| Module | Models |
|---|---|
| `ReservationLifecycle` | the promise: requests move along the edges of their life cycle, and a confirmation never takes a car that a live booking has |
| `SalesReview` | submitted to pre-approved: review, offers, documents, customer answers, sweep |
| `BranchBookings` | pre-approved to closed: paperwork, confirmation, booking operations, holds, vehicle edits, sweep |
| `DraftSubmission` | from the first save to the sales queue: details, consents, documents and their stored objects, submission, abandonment, the draft sweep |
| `Outbox` | events, the workers that drain them, deliveries per channel, retries |
| `Requests` | a call in flight: it begins, goes on after an await, ends; shared by the modules below |
| `Accounts` | customers and staff: sessions, passwords, codes, second factor, and what administrators do to them |
| `Publishing` | policy bundles, sections of the site, document rules |
| `Engagement` | reviews, campaigns, the notification list |
| `RequestForm` | the page in which a request is written (`reservation-start.tsx`) |
| `RequestPages` | the two pages that show requests and act on them (`sales-review-workspace.tsx`, `customer-requests-workspace.tsx`) |
| `OfficeLists` | fifteen pages that list entries and change them; they differ in a few flags |
| `SignInPage` | the page where one signs in, registers, verifies the address and signs out (`auth-access.tsx`), beside another tab |
| `VehicleEditor` | the editor of a car: rows of pictures, uploads, the save (`fleet-vehicle-manager.tsx`) |
| `BranchEditor` | the page and dialog of branches (`branch-management-workspace.tsx`), its calls and late answers |
| `Catalogue` | branches, cars and requests under the foreign keys of the schema: look-up and write of each handler |
| `Notices` | the notification centre of a page and the marks and loads it sends |
| `Reports` | the queries of the administrator's reports, answered one by one, with their trends and funnel, and the days of the overview |
| `StaffOnboarding` | the page that takes a new employee through factor, address and password, with the part of the API it talks to |
| `RequestControls`, `BranchControls`, `DraftControls` | which controls the pages of a customer, the sales team and a branch show for each state of `SalesReview`, `BranchBookings`, `DraftSubmission` |
| `BranchBookings_proofs`, `SalesReview_proofs`, `DraftSubmission_proofs` | theorems about the module of that name and about its `...Controls` module, which it extends |
| `Outbox_proofs`, `Accounts_proofs`, `Publishing_proofs` | theorems about the module of that name |
| `Office_proofs` | theorems about `Catalogue`, `Engagement`, `BranchEditor`, `OfficeLists` and `VehicleEditor` |
| `Pages_proofs` | theorems about `SignInPage`, `RequestPages`, `RequestForm`, `StaffOnboarding` and `Reports` |
| `MCSales`, `MCBranch`, `MCDrafts`, `MCOutbox`, `MCServices` | instances for TLC; `MCDrafts` holds `DraftSubmission` and `Reports`, `MCOutbox` `Outbox` and `Notices`, `MCServices` every module from `Accounts` to `StaffOnboarding` but `Notices` and `Reports`, and `Outbox` with two workers |

**Two steps per handler.** `Begin...` is the read with every early return as a
guard (an early return that changes nothing is a step not taken);
`Commit...` is the write with the guards the database examines again. Between
them the handler stands in `tx`, with what it carries: the receipt number or
the storage key, the instant it took as now, the generation of the document it
read. Every other action may happen in between. `Rollback` is a write refused or
a connection lost: nothing of the transaction is kept.

**How variables correspond to columns** is said at each declaration. A few are
not plain columns: `terms` (SalesReview) is whose car, dates and rates the
request has, 0 for its own or the index of the offer it took them from;
`document` is the one row that is not soft-deleted, with a generation that tells
it from the rows before it; `previewed` is who has a VIEW_INLINE entry of the
last 15 minutes; `event` is the `toStatus` of the last ReservationEvent; `hold`
is how far an administrator has come with a block.

**Abstractions.**
- A nested `select` is one read, and the conflict queries of a handler are read
  together with the request. The exclusion constraint is examined at the write.
- Sales staff are authorised in `SalesReview`. `BranchBookings` lets any handler
  work on any request, which gives it more behaviours, so what holds there holds
  with the authorisation. Who may work on a request and who sees its controls is in
  `BranchControls`: `Reviewer` is `assignedSalesId`, which stands from review on; an
  administrator may work on any request (`canOverrideAssignment`), and has the
  panels of one only as its reviewer (`assignedToCurrentUser`).
- Answers that change nothing (a repeated claim by its owner, a repeated
  confirmation, a repeated checklist with the same receipt) are no actions.
- Texts, notes, notifications and outbox rows are left out; they are written in
  the transaction of the action. The property about history uses `event`.
- Amounts: a checklist with the wrong amount changes nothing; prices are part of
  `terms`. Of the deposit of a car `priced` says whether it is set: a checklist is
  refused without one (`DEPOSIT_NOT_CONFIGURED`), the page does not offer it, and
  edits of the car may set it or take it away. The switch for protected uploads is
  on.
- `CONFIRMED_BOOKING`, `PENDING_REQUEST`, `MAINTENANCE`, `MANUALLY_BLOCKED`,
  `OVERDUE` and `ARCHIVED` are vehicle statuses no code writes; the model has
  the three that are written.
- A request has one document type. Whether an offered car is free is left to
  `BranchBookings`: an offer refused for it changes nothing.
- A transaction may stay open across clock ticks, longer than Prisma's timeout
  lets it; this too only adds behaviours.
- The sweep's batches of 100 do not bind: fewer than 100 requests are due.
- The document read of `reviewSalesDocument` in the service and the one in its
  transaction are one read.
- `DraftSubmission`: details are their category, consents the policy version
  they were given to, and the content of a file is left out. Whether the car is
  free, and whether an address is verified, is decided by the environment when
  the submission begins. A selection is one value; two drafts of one selection
  are two rows that carry it.
- `Outbox`: every database call is a step that may fail before or after its
  commit, and a provider may take a message and fail to say so. Preferences and
  quiet hours are chosen by the environment when they are read. In the app there is
  no provider, and a failure there is written to its row and counted nowhere, as in
  `drainOne`. `MaxAttempts` is 8 in the code.
- `Accounts`: passwords are numbered; a code or a factor is right or wrong by
  choice, and codes are rows with a purpose. `period` is the 30-second period of
  the authenticator. One account is followed at a time; accounts do not touch.
- The pages: what a page keeps of an entry is the version, or the status, it was
  told; layout, texts, filters and the fields of forms are left out. A call may
  be answered late, in any order, or fail before or after it took effect. The
  server behind `RequestPages` is a status per request, behind `OfficeLists` a
  version per entry: what moves them is in the other modules.
- `VehicleEditor`: a picture is a row with an address that is blank, typed, a preset's
  or uploaded; what the other fields say is left out. `MaxImages` is 6 in the code.
- `BranchEditor`: a branch is the version its last change left.
- `Catalogue`: a status is all that is said of a branch; requests are not deleted
  (nothing in the code deletes one).
- `SignInPage`: a call carries the cookie it is sent with; which addresses and
  passwords are right, and the end of sessions, are in `Accounts`.
- `Reports`: an instant is a day. One window of one report is followed, from the
  instant it is asked for; each of its queries is answered at any later instant, by
  itself, over the rows as they then are, and a figure is of the rows of one query.
  The tables of cars and of employees, the occupied days and the mix of statuses are
  left out. The calendar of `cairoDayBounds` is in hours, with one
  shift of the clocks each way, since what it returns depends on nothing else. A sum
  is the number of the units that make it up (`Total`), so that the prover can count
  them; `TotalIsSum`, which the run `drafts` evaluates, compares it with addition.
- The `...Controls` modules speak of a page that has just been loaded and of one
  call: a press on a page that is out of date is a call the API refuses, and what
  the page does with the refusal is in `RequestPages`. A control is the form or the
  button that calls the API. "The API takes it" is `Accepted`: the guard of the
  handler's read step, the same operator (`ConfirmAccepted`, `VerdictAccepted`,
  `UploadAccepted`, ...) that the action `Begin...` has as a conjunct, so a page is
  compared with what the handlers examine and not with a copy of it. For a delivery
  that includes what its write asks of the car (`Deliverable`). The other
  conjuncts of `Begin...` say that a handler is free and that the instance has a
  key, a place or a tick left. What only the API can tell (a window that closed
  before the sweep said so, a period that is taken, a car that is still out or off
  the list, a no-show before the pick-up) is excepted by name, in `ToldByTheApi`. A
  request whose car has no deposit set waits for an administrator (`Priceless`), and
  a request without a reviewer has no controls at the desk. A draft whose
  category has no document rule left (`WithoutRules`) cannot list its documents
  (`reservations.service.ts:1423`, `documentsRequired > 0`): the last base rule of a
  category is refused to go, but two administrators can take the last two away.
- `OfficeLists` describes a page by what a change under way holds back, how the
  list is brought up to date, whether it is read again with a filter, and
  whether it survives a failed read.

**Slips.** A definition marked "Slip" precedes the definition it spoils and is
used by nothing. It is the mistake that a property is there to catch, such as a
dropped WHERE clause, a missing index or an update count nobody looks at.
`PROJECT.json` pairs every property with its slip, and the property fails with it.

## 3. Runs

| Run | Shows | Instance |
|---|---|---|
| `branch_clash` | `NoDoubleBooking`, `BookingAgrees`, `PaperworkBehindBooking`, `CustodyLog`, `OneCarOnTheRoad`, `DeskServes` | three requests for one car, r2 overlapping both others, r3 following r1 without a gap; two handlers; two receipts; r1's reviewer is an employee, r3's an administrator, and r2 is nobody's |
| `branch_fleet` | `PreApprovalResolves` | r1 and r3, one handler, one hold, one editor |
| `sales_offers` | `OpenOfferIsLast`, `OfferOutstanding`, `AcceptedTermsHold`, `OfferResolves` | one request, up to three offers, two handlers, two ticks |
| `sales_documents` | `VerdictOnReadDocument`, `StaffServed`, `WayForward` | two employees, an administrator, two handlers, one offer, one replacement |
| `drafts` | `TypeOK`, `SubmittedIsComplete`, `LiveRowHasObject`, `SubmittedOnce`, `DraftResumes`, `ReportAddsUp`, `ImplementsLifecycle` | one draft, two categories, two document types, two object keys, two handlers, two policy bundles; reports of two windows of three instants over two requests, one of which moves while a report is read |
| `outbox` | `ProcessedIsDelivered`, `EventSettles`, `InboxSettles` | one worker, two events, e-mail for both and a message in the app for one of them, two attempts; a page with two notifications, two calls in flight |
| `services` | `TypesOK`, `RepeatedOnlyUnheard`, `AttemptsBounded`, `UsedOnce`, `ActiveSessionKnowsPassword`, `AlwaysInForce`, `PublishedTogether`, `WeeklyCap`, `ListWasTrue`, `OwnChangesShown`, `ReviewOfThisDraft`, `CompleteIsSecured`, `CarsHaveBranches`, `UnsavedIsKnown`, `PicturesStay`, `VerifiedIsTrue` | two requests in flight in each part; two of everything else, three policy versions and campaigns; an account is an employee's, or a customer's with codes of one purpose; two pictures of a car, three versions of a branch; two customers and a second tab |
| `branch_hold`, `branch_edit`, `sales_rejection`, `sales_reply`, `sales_expiry` | a sentence of the documents the code does not keep (below) | as small as shows it |

**Bounds and why they are enough.** `Window` (the 48 hours) is one unit, and
`MaxTime` is one or two: each comparison of the code with an expiry sees the
instants before, at and after it. Two handlers give every pair of operations in
flight, and the sweep, the hold and the edit are actors beside them; a third
handler would only let a third snapshot be stale in the same way. Three requests
give a clash on each side of a booking and a successor that touches it, which
is the boundary of the half-open periods. Three offers are needed for one
accepted, one left pending by a late answer, and the one after. Handlers, and
sales employees of equal role, are interchangeable, and symmetry is used only in
runs without liveness. Windows and offers stop being opened when they would not
close within `MaxTime`.

`services` holds the smaller components in one instance: a variable `part` says
which of them a behaviour follows, and the others rest in a fixed state. They
share no state in the code either but for the rows named in section 1. `drafts` and
`outbox` have two such parts each, by the same device. The part
that signs in is a customer, or an employee of the sales team; an administrator
(who may also set a first address of his own) makes the instance too large and is
left to `StaffOnboarding`. Two workers meet in `services` and one in `outbox`:
safety needs them to race, and liveness is about what one process leaves behind.

`MaxTime`, `MaxVersion`, `MaxMoves`, `MaxSaves`, `MaxClock`, `MaxInstant`,
`MaxCodes`, `MaxChallenges`, `MaxSessions` and `MaxPassword` are bounds of the
instance on what the code lets grow. Two handlers and one code each way give the
second use of a code, the wrong answer beyond the limit, the answer that comes
after the page has moved on, and the second publication in flight.

Two pictures of six let an upload merge into rows that were moved, removed or
filled meanwhile, and meet the limit. A report of three instants has a last point
cut short (`BucketSize` 2), both windows hold rows at `LastInstant` 5, and a row
has times in both, before and after. A report is followed until its queries are
answered, with one request submitted so far: its figures are compared request by
request. The sums, which are of every window that could be asked for, are taken over
two requests with no report under way. In `outbox` only one event may have both
channels: the other is there to overtake it; push, which is sent after the e-mail
and counted like it, is left to the theorem. Properties
a theorem states for every instance (the types of `SalesReview` and
`BranchBookings`, the life cycle of both, one worker per event, one request per
receipt) are not repeated by a run.

**Fairness.** Time passes (`WF Tick`), the interval timer of
`reservation-expiry.service.ts` keeps starting sweeps (`WF SweepBegin`), and
among unboundedly many sweeps not every one fails (`SF SweepCommit`): the code
logs the error, clears `running` and is called again in a minute. No customer,
employee or administrator is obliged to do anything, and no write is obliged to
succeed.

In `Outbox` a worker that does not stop goes on with its event (`WF` of its
steps: the interval of `notification-outbox.service.ts:29` and the batches of
`background-jobs.service.ts` call it again and again), delays end
(`WF BecomesDue`), and quiet hours do (`SF QueueOutside`: an event is not deferred for
ever; the message in the app, which is recorded before quiet hours are asked for, needs
no more than `WF Queue`). No provider is obliged to take anything and no database
call to succeed: an event settles because its attempts are counted, or it is stranded.

In `Notices` the timer of the page (`notification-center.tsx:125`) keeps loading
however much is marked (`SF LoadGoesOn`), every call ends (`WF CallEnds`), and
loads do not fail for ever (`SF InboxShown`). The marks themselves may all be lost.

## 4. What the code does and its documents do not say

| Run | Document | Code |
|---|---|---|
| `branch_hold` | `docs/IMPLEMENTATION_PLAN.md:372`: a hold cannot overlap an existing block or a confirmed booking | `fleet.service.ts:111` checks in one transaction and inserts in another; no constraint relates the two tables |
| `branch_edit` | `docs/ARCHITECTURE.md:150`: an update preserves workflow-owned status | `vehicles.repository.ts:222` writes back the status it read, over a delivery committed meanwhile |
| `sales_rejection` | `docs/ARCHITECTURE.md:274`: rejection returns the request to the customer | a decision committed before the verdict's write leaves the request pre-approved with a rejected document |
| `sales_reply` | `docs/IMPLEMENTATION_PLAN.md:291`: the reply notifies the assigned reviewer | a request rejected before anyone claimed it comes back under review with no assignee, and can no longer be claimed |
| `sales_expiry` | `docs/ARCHITECTURE.md:144`, `docs/IMPLEMENTATION_PLAN.md:296`: every expiry writes its event | the late-answer path at `reservations.repository.ts:1954` writes none |

## 5. Proofs

`BranchBookings_proofs` proves, for every set of requests, cars, holds,
handlers, editors, receipts and keys, every assignment of cars and periods, and
every `Window` and `MaxTime`, from `BranchAssumption` alone (the constants have
their types, and `None` is none of the values it stands beside), and
`DeskAlwaysServes` for every staff and every assignment of reviewers, from
`DeskAssumption` (administrators are staff, a reviewer is one of the staff or
`None`):

| Theorem | Property |
|---|---|
| `TypeCorrect` | `TypeOK` |
| `BookingsAgree` | `BookingAgrees` |
| `NeverDoubleBooked` | `NoDoubleBooking` |
| `PaperworkStands` | `PaperworkBehindBooking` |
| `ReceiptsStayApart` | `ReceiptPaysOnce` (no run) |
| `CustodyIsLogged` | `CustodyLog` |
| `OneCustomerPerCar` | `OneCarOnTheRoad` |
| `DeskAlwaysServes` | `DeskServes` of `BranchControls` |
| `LifecycleImplemented` | `ImplementsLifecycle`: the step simulation of `ReservationLifecycle` |

Each invariant is inductive beside `TypeOK`. Two of them had to say something of
the handlers in flight to become so: `PaperworkBehindBooking` also of a
confirmation on its way, since the paperwork is examined when it begins and not
when it commits (it stays true because nothing removes contract, deposit or
attendance, lemma `PapersStay`), and `CustodyLog` of a completion on its way,
since the return is examined when it begins. `NoDoubleBooking` rests on the
constraint at the commit and not on the query before it (`ConfirmKeepsApart`).
The refinement needs `BookingAgrees`, because the constraint speaks of bookings
and the life cycle of requests. Lemmas `StepCases` and `Operations` say once what
`Next` and the five booking operations may do to a request and its booking, so
that each proof has only the cases that concern it.

`DeskAlwaysServes` needs nearly all of these together: which step is next follows
from the booking and its log, and that the steps before it are ticked from the
paperwork. One part is its own: `ContractFirst`, attendance and deposit are recorded
only for a request with a contract, and so is a checklist on its way, which was
examined when it began. Without it a request might have a deposit and no contract,
and the page would offer a first step with a later one ticked. That the API takes
what is offered needs besides that the reviewer may work on the request
(`MayWorkOn`) and, for a checklist, that the page asks for the deposit of the car as
the handler does; a delivery is refused if the car is not there, which the page
does not know.

`UnlistedTogether` (`InactiveIsUnlisted`) is inductive beside `TypeOK`: only a
catalogue write makes a car inactive, and it writes the fleet's list from the
same form. No run repeats it, nor `ReceiptPaysOnce`, `TypeOK` and
`ImplementsLifecycle` above, nor `AssignmentStands`, `TypeOK`,
`ImplementsLifecycle` and `OneWorkerPerEvent` below: what is proved for every
instance needs none.

`SalesReview_proofs` proves, for every set of requests, staff and handlers, from
`SalesAssumption` alone:

| Theorem | Property | Rests on |
|---|---|---|
| `TypeCorrect` | `TypeOK` | a replacement on its way has read a status (`ReplacementSawStatus`) |
| `OneOfferAtATime` | `OpenOfferIsLast` | `OffersInv` |
| `WaitingHasOffer` | `OfferOutstanding` | `OffersInv` |
| `TermsAreThoseAccepted` | `AcceptedTermsHold` | `OffersInv` |
| `VerdictsOnReadDocuments` | `VerdictOnReadDocument` | `ReadIsMarked` |
| `AssignmentsStand` | `AssignmentStands` | |
| `StaffAlwaysServed` | `StaffServed` of `RequestControls` | `UnclaimedIsNobodys` |
| `AlwaysAWayForward` | `WayForward` of `RequestControls` | `UnclaimedIsNobodys`, `OffersInv` |
| `LifecycleImplemented` | `ImplementsLifecycle` | |

The three properties of offers are proved together. Only the last offer is ever
pending (`PendingIsLatest`), because making one withdraws the others in the same
transaction, and while the request waits for the customer that one is
(`OpenOfferIsLast`); a late answer to an earlier one may return the request to
review over its head, and it stays open until the next is made or it lapses.
That is also why the terms accepted are those of the latest acceptance. The
offer for which a request waits survives the answer to another request and the
sweep because the sweep returns the request with it. Lemma `OfferSteps` splits
the steps once into those that make, answer, lapse or leave offers. A verdict
needs `ReadIsMarked`: reading takes a document out of `UPLOADED` and marks it
read in one transaction, so the row a verdict carries can only still be the
current one if it has been read.

The page offers a claim by the status and the handler also asks that nobody reviews
the request; `UnclaimedIsNobodys`, a request that waits for review has no reviewer,
is why the two agree. `AlwaysAWayForward` goes through the open states: a request
that waits is on the page of any employee, one under review on its reviewer's, one
that waits for information or for a rejected document on the customer's, and for one
that waits for an answer `OffersInv` gives the pending offer and `PendingIsLatest`
says that it is the latest, the one the page shows. It assumes `Staff # {}`: with
nobody employed no request is claimed.

`Outbox_proofs` proves, for every set of events and workers, of the
safety part `OutboxSpec` (no fairness is used):

| Theorem | Property |
|---|---|
| `ClaimedOnce` | `OneWorkerPerEvent` |
| `NothingRepeated` | `RepeatedOnlyUnheard` |
| `ProcessedWasDelivered` | `ProcessedIsDelivered` |

They share one inductive invariant, `Inv`. `InHand` ties the claim to the worker:
an event in somebody's hands is `PROCESSING`, or `PROCESSED` when the completion
went unheard, so no claim finds it. `NoteInHand` carries that from the event to
the notification a worker sends: a notification of one event (`Alone`) has one
sender. From there `GoneThrough` says that a channel outside the app that a worker
has ticked off is `SENT` unless it counted a failure, which is what the step that
marks the event relies on (of the message in the app nothing of the kind holds), and `HeardIsSent`
that what a provider was heard to take is `SENT` and nobody is about to send it.
Each action keeps `Inv` by a lemma of its own (`ClaimKeeps`, `LoadKeeps`,
`QueueKeeps`, `DeliverKeeps`, `EndingKeeps`, ...).

`DraftSubmission_proofs` proves, for every set of drafts, selections, keys,
document types and handlers, from `DraftAssumption` alone:

| Theorem | Property | Rests on |
|---|---|---|
| `TypeCorrect` | `TypeOK` | `Typed` |
| `OneSubmission` | `SubmittedOnce` | |
| `CompleteWhenSubmitted` | `SubmittedIsComplete` | `Complete` |
| `LiveRowsHaveObjects` | `LiveRowHasObject` | `Stored` |
| `DraftAlwaysResumes` | `DraftResumes` of `DraftControls` | `InOrder` |
| `LifecycleImplemented` | `ImplementsLifecycle` | `Typed` |

`Typed` adds that what a transaction carries is what its next step writes, and
`Complete` that details and consents read by a submission on its way are still
there: neither is ever taken back. Of documents the theorem says nothing after the
submission, since a removal in flight may still take one (section 6). That every
row that counts has its object is the hard one, since rows and objects are written by different calls. `Stored`
says what each handler knows of the keys it holds: an upload on its way has its
object, and a key nobody else has drawn (`Apart`); whoever is about to retire
rows holds keys of rows that were committed, of the draft it works on; and whoever
is about to remove objects holds keys that are `Spent`, of which nothing has
need any more, neither a row that counts nor an upload in flight. A lost upload's
row is the exception the property names. Lemmas on the step relation (`Gentle`)
show once that no step brings a row back, so that what a handler knows of its
keys survives the steps of all others.

`InOrder` says that the steps of a draft were taken in order, whatever was cleared
or published since: consents stand beside details, and every row that counts, and
every upload on its way to become one, belongs to a draft with both. A row may count
for consents to an older bundle, and a document of a type no longer asked for may
remain, so the card's steps follow from `InOrder` and the rules of the stored
category (`StepsInOrder`), not from the uploads alone. That the number a card shows
exists and is one only is lemma `CardStepIsFirst`, which `CHOOSE` needs.

`Accounts_proofs` proves, of one account with any number of codes, challenges,
sessions and requests in flight, from `AccountsAssumption`:

| Theorem | Property | Rests on |
|---|---|---|
| `TypeCorrect` | `AccountsTypeOK` | `Typed` |
| `SessionsKnowPassword` | `ActiveSessionKnowsPassword` | `Typed` |
| `GoodForOneUse` | `UsedOnce` | `CodesOnce`, `FactorsOnce` |
| `WrongAnswersBounded` | `AttemptsBounded` | `Limited` |

`FactorsOnce` is what makes single use inductive: the factor and the challenge of
a session, or of a sign-in that was accepted and has not opened its session yet,
are `Spent`, so that no other request can have them accepted, and no two of these
share either. `Limited` counts on both sides: the wrong answers counted so far,
and the requests in flight that may yet count one, are together within the limit
and one for each other request. That sum stays bounded when a request is let in,
counts or gives up; no bound on the attempts alone is inductive.

`Publishing_proofs` proves, for every set of versions, rules and handlers, of
`PublishingSpec`:

| Theorem | Property | Rests on |
|---|---|---|
| `TypeCorrect` | `PublishingTypeOK` | `Typed` |
| `NoGapInForce` | `AlwaysInForce` | `Succeeded` |
| `CopiesAgree` | `PublishedTogether` | `Typed` |

`Succeeded`: a bundle that ends has a successor that takes effect when it does.
It says nothing of the instants between, so lemmas `Least` and `Last` (a set of
numbers that is not empty has a least, a bounded one a last) find the bundle that
took effect last before an instant, which cannot have ended by then.

`Office_proofs` and `Pages_proofs` prove, for every set of the entries, customers,
requests, drafts and calls in flight of each module, and from its assumption:

| Module | Theorem | Property | Rests on |
|---|---|---|---|
| `Catalogue` | `CatalogueTypeCorrect`, `BranchesAreThere` | `CarsHaveBranches` | inductive beside the types |
| `Engagement` | `EngagementTypeCorrect`, `CampaignsAreCapped` | `WeeklyCap` | `Capped` |
| `BranchEditor` | `BranchEditorTypeCorrect`, `TypedIsAskedAbout` | `UnsavedIsKnown` | inductive beside the types |
| `OfficeLists` | `OfficeTypeCorrect`, `OwnChangesAreShown` | `OwnChangesShown` | `Recent` |
| `VehicleEditor` | `VehicleEditorTypeCorrect`, `UploadsKeepPictures` | `PicturesStay` | `VehicleEditorTyped` |
| `SignInPage` | `SignInPageTypeCorrect`, `VerifiedAreVerified` | `VerifiedIsTrue` | `AllTrue` |
| `RequestPages` | `RequestPagesTypeCorrect`, `ListWasAlwaysTrue` | `ListWasTrue` | `HadBefore` |
| `RequestForm` | `RequestFormTypeCorrect`, `ReviewIsOfThisDraft` | `ReviewOfThisDraft` | `Reviewed` |
| `StaffOnboarding` | `StaffOnboardingTypeCorrect`, `CompleteMeansSecured` | `CompleteIsSecured` | `Informed` |
| `Reports` | `ReportsTypeCorrect`, `ReportsAddUp` | `ReportAddsUp` | `RowsAgree`, `ReportAgrees` |

What a page shows was on its way to it before, so each of these invariants speaks
of the calls in flight as it does of the page. `Capped`: the campaigns that
reached a customer and the requests about to send one more are together at most
as many as requests can be in flight. `Recent`: a page that holds back other
changes has one call under way, it loads only while nothing is listed, and a list
or an entry on its way is no older than what the page has saved. `AllTrue`: every
user named on the page or in an answer is described as the account is, which
later steps keep because an account is never closed or made unverified
(`StandingGrows`, `TruthStays`). `HadBefore`: what an answer says, its request
once was. `Reviewed`: no read of another draft is awaited, and no save is under
way while the form has a draft (of a page that was not opened to resume a draft, whose
draft may be replaced under the review); lemma `FormSteps` sorts the steps of the form into
those that post, fail, answer and edit. `Informed`: with a session of the account
as it stood, what an answer on its way tells of the account is still so, for only
a call of this page changes an account without ending its sessions, and
`OneCall` says there is one at a time, sent from the stage shown or one the
countdown has overtaken.

`VehicleEditorTyped`: beside the types, an upload that has nothing left to send
has sent something, so that rows which lose their blanks still are rows once it
is merged. `PicturesStay` is an action property: only the end of an upload takes
its call away with the page still open, and lemma `MergeKeeps` says what it
leaves. The prover sees nothing of `SelectSeq`, so the rows that are not blank
are written as those at the n-th place that is not (`Filled`); lemmas
`NthIsPlace` and `FilledFits` give what the proof needs of them, and
`FilledIsFilter`, an assumption of `MCServices` that the run evaluates, that they
are the rows `SelectSeq` selects.

`RowsAgree` ties the status of a request to its times and milestones, all of
which a funnel counts: a confirmed request has passed its approval, that its
review, and what is completed is never lost. It holds of the rows at every
instant, and so of the rows of one query whenever it is answered. Figures of two
queries are of two instants: `ReportAgrees` says what an answer given keeps to do with
the rows as they go on. The rows of a window only grow, and only by requests that
were being submitted when the end of the window was read (`CohortGrows`,
`Straddling`: the earlier window has none of them), so an answer has the rows of now
but for these; and what was confirmed by an answer has passed its pre-approval, unless
it had not when the report was asked for.

The sums of a report (the points of a trend, the days of the overview) would be
inductions over data, which the prover has no rule for. They are
counted instead: `Total` is the number of pairs of a point and one of its units, and
lemma `PartsAddUp` maps these pairs one to one onto the rows that the points count,
for any way of sorting rows into points. What is left for each sum is that every row
has a point and no row two. The hours of a calendar day
(`TodayIsOneDay`) are arithmetic on the two shifts of the clocks.

The types of every module with a proof module are proved for its specification;
that no run repeats a type invariant of its own for `Accounts` to `SignInPage` is
because `TypesOK` of `services` is their union (and none for `Reports`, of which
`ReportsTypeCorrect` is proved).

The constants of a proof are bounded as the model's are: `MaxTime`, `MaxVersion`,
`MaxCodes` and the like are any numbers, and what is proved does not depend on
them. Finiteness of `Handlers` is assumed where requests in flight are counted.

Only model-checked:
- liveness (`EventSettles`, `InboxSettles`, `PreApprovalResolves`, `OfferResolves`):
  the prover does not reason about fairness;
- `TypesOK` of `services`, the union of the types of its modules: each of its cases
  is a theorem of that module, and only the choice by `part` is the run's;
- that an accepted call can be made, `ENABLED Begin... <=> Accepted` up to a free
  handler and the bounds above: it was compared in all states of instances of the
  size of `branch_clash`, `drafts` and `sales_documents`. The prover does not expand
  `ENABLED`, which is why the theorems speak of the guards;
- the violations of section 4, which are counterexamples.

## 6. Not modelled, and what is left

Left for later work:

1. A composition of `SalesReview` and `BranchBookings` at the pre-approval,
   where an accepted offer changes the car and the period that is booked, and of
   `DraftSubmission` and `SalesReview` at the submission, where documents cleared
   late are missed.
2. The other pages of the browser that keep state over calls: the document
   viewer, the editors of typed content, the gates that ask for push and marketing,
   password recovery, the profile.
3. Two processes that sweep at once, and batches of 100.
4. Pure functions over bounded inputs: rental days, quiet hours, the medians of a
   report, its tables of cars and employees, the occupied days, its checks of data.

Left aside for good: the rate limiter (one script in Redis, one map in a
process), e-mail transport, configuration, the lists and counters of
`admin-operations`, record maintenance such as profiles, which has no protocol of
its own; the text of messages; public pages, layout and motion; the content of
scans and encryption at rest, which no property here tells apart.

Observed while modelling and not kept by the code, without a run of its own:
two checklists of one request in flight are both accepted and the later replaces
the receipt (`reservations.service.ts:857` says it is refused); two
administrators can each switch off one of the last two base rules
(`docs/ARCHITECTURE.md:275`); a deletion by id removes a document of a request
submitted meanwhile (`reservations.repository.ts:2355`); an event left PROCESSING
by a process that stopped is claimed by nobody again; an event is marked PROCESSED
though the row of its message in the app says FAILED
(`notification-outbox.service.ts:75`); a decision begun before a request went to the
customer and came back is let through; a request whose car has no deposit set cannot
be taken further at the branch until an administrator sets one; the countdown of
`staff-security-onboarding.tsx:238` runs on after the factor was confirmed and
may put `expired` over the recovery codes; an administrator whose password was
reset by e-mail before the first address was verified can no longer verify one
(`auth.service.ts:661`). On the pages: the reply form is shown while an offer or a
rejected document is waiting for the customer, and the API refuses it there
(another control beside it is the way on, `WayForward`); a request under review
without a reviewer has no control on any page; the review of a draft of the
category that is no longer accepted names no blocker and its button is refused,
and saving the details again is the way on (`DraftResumes`).

In the editors: saving a car whose branch is inactive moves it to the first active
branch and makes missing doors 4 (`fleet-vehicle-manager.tsx`); what is typed while
a car is saved is lost with the answer, and the dialog closes by Escape, the cross
and the backdrop during an upload though Cancel is disabled. The late answer to a
save reopens a closed dialog of branches and puts a deleted branch back into the
list. What an answer takes from the dialog is lost without a question: an answer to a
save puts its branch over what was typed since, of the same or of another branch, the
answer to a deletion closes the dialog of another branch, and the reason that is typed
for a change never counts as unsaved (`branch-management-workspace.tsx:160`, `:213`,
`:226`). A draft keeps the branch its car
had. In the notification centre the list and the count are read apart, the answer
to "mark all" marks newer items on the page, and a mark that was lost stays on the
page until the next load. The sign-in page shows answers that come after the session
has changed: the first look-up may put the earlier session over the one just signed
in, and a confirmation that comes after signing out shows the account again
(`auth-access.tsx:149`, `:311`); the header's link and the gates, which read the
session again, may show the older of two overlapping answers
(`account-entry-link.tsx:19`). The marketing gate writes back the other preferences
it read earlier (`marketing-consent-gate.tsx:108`). Overrides of an employee changed
elsewhere are not taken up by an open editor, since it is remounted by `updatedAt`
of the account only. A report counts the occupied days of all cars but the capacity
of active ones only, so a utilisation may exceed 100 %
(`admin-operations.service.ts:550`). So it may for one car: a car that came back early is
booked again in the rest of its period, since constraint and query cover CONFIRMED and
ACTIVE bookings only (`reservations.repository.ts:1379`, `:1648`), and the report counts
the planned days of both (`admin-operations.repository.ts:148`).
