# Formal models of the Kairikos portal

The repository is a portal (Next.js, Prisma, Postgres) through which a small
business is sold and served several products: *Recall* (missed calls), a chatbot,
websites, SEO, reviews. This directory holds TLA+ specifications of its most
concurrent product, **Recall**, and of the two ways money comes in, **Stripe
billing** and **web quotes**, with their TLC configurations and TLAPS proofs. Paths
below are under `src/portal/src/` unless they say otherwise.

Recall in a paragraph: a client forwards the calls he misses to a virtual number
we hired at Twilio. The voice webhook greets the caller and records his message;
the recording webhook attaches the audio, has it transcribed, creates a lead and
writes to the client over WhatsApp. A scheduler calls `recall-tick` every five
minutes; the tick redoes whatever the webhooks missed, writes to the caller ninety
seconds after his call, assigns numbers, moves clients through onboarding and
deletes recordings after thirty days. Postgres is the only shared state. Nothing
locks: handlers read, await something slow, and write.

Billing in a paragraph: a client buys a product through a Stripe checkout that
reserves his row, or a pack of messages for one he has; a web project is sold by a
quote which he accepts and Stripe invoices, whole or in two parts. What was paid is
known from the events Stripe's webhook delivers, at least once and in no order; a
ledger of events keeps each from being handled twice.

## 1. Inventory

| Component | State it keeps | Operations | Talks to | Modelled |
|---|---|---|---|---|
| Onboarding and number pool: `lib/recall.ts`, `recall-onboarding.ts`, `recall-meta.ts`, `recall-numbers.ts`, `recall-templates.ts`, `recall-calls.ts` | `RecallSubscription.status` and its milestone dates, `metaConnectionId`; `VirtualNumber` | pay, sign, connect, assign, release, buy, advance on approved templates, verify forwarding | Twilio, Meta, tick, operator, client | `RecallOnboarding`, `NumberLease` |
| Recordings: `recall-calls.ts`, `recall-transcription.ts`, the owner half of `recall-messaging.ts`, `recall-retention.ts`, the two Twilio webhooks | `CallEvent`, `Lead`; audio at Twilio | incoming call, attach, transcribe, tell the owner, purge | Twilio, Whisper, Meta, tick | `RecallRecordings` |
| Callers: the caller half of `recall-messaging.ts`, `recall-optout.ts`, `recall-blocklist.ts`, `contacts.ts`, the WhatsApp reply route | the caller's half of `CallEvent`, `RecallBlockedNumber`, `Contact.legalBasis` | notify, throttle, block, unblock, opt out, keep evidence | Meta, Twilio SMS, n8n, tick | `RecallCallers` |
| Scheduler: `src/scripts/scheduler.sh`, `api/cron/recall-tick` | none | thirteen jobs in order, each in its own try | all of the above | as the tick's actions |
| Callbacks and slots: `recall-callbacks.ts`, `recall-slots.ts`, the offers and reminders of `recall-messaging.ts` | offered and booked moments on `CallEvent` | offer, choose, remind | tick, reply route, Meta | `RecallCallbacks` |
| Stripe's webhook: `stripe-webhook.ts`, `api/webhooks/stripe` | `StripeWebhookEvent` | claim, dispatch, close | Stripe | `StripeWebhook` |
| Stripe billing and packs: `stripe-billing.ts`, `usage-packs.ts` | `ClientProduct.status`, `Subscription`, `UsagePackPurchase`, balance | check out, activate, expire, retire, credit, spend | Stripe, webhook, client | `StripeBilling`, `MessageBalance` |
| Web quotes and invoicing: `web-quotes.ts`, `web-quote-invoicing.ts`, the routes under `admin/web-quotes` and `accept` | `WebQuote`, `Invoice`, the project's `ClientProduct` | write, send, accept, invoice, void, note a payment, activate | Stripe, webhook, client, operator | `WebQuotes` |
| Recovery campaigns: `recovery-*.ts` | campaigns and recipients | launch, send, stop | tick, Meta | no |
| Digests, reports, reviews, stuck alerts | last-sent stamps | periodic sends | tick | no |
| Catalogue, coupons and discounts: `stripe-catalog.ts`, `stripe-promotions.ts`, `pack-discounts.ts` | prices at Stripe | create, look up | Stripe | no |
| Wizard and product lifecycle: `wizard-*.ts`, `client-product-*.ts` | steps, reviews, status | save, submit, approve | client, operator, cron | no |
| Chatbot and channels, leads, website drafts and publishing, site templates, SEO, Google Business, prospecting | their own rows | mostly single-row edits around model calls and imports | outside services | no |
| Sessions and login, user interface, n8n workflows, deployment, SQL migrations | | | | no: authentication and presentation; a restart of the container is a fault of every model |

### What is hard here

* **State used across an await.** Every handler above reads rows, calls Meta,
  Twilio or Whisper for seconds, and writes by id.
* **The same work from two sides.** The webhook's background chain and the tick
  both transcribe and tell the owner; operator and tick both assign numbers; a tick
  slower than `curl --max-time 120` goes on in the app while the next one starts.
* **Two writes that belong together.** Claim and advance, send and stamp, delete
  and erase, evidence and stamp. A restart falls between them.
* **Retries of what was already done**: a repeated callback, a deletion answered
  with 404, a send whose stamp was lost.
* **Limits**: five claims, three attempts, batches of 20, 25 and 50 oldest first.
* **Money known by hearsay.** Stripe's events are repeated, late and out of order;
  its idempotency keys are forgotten after a day; the same row is written by the
  client's request, the operator's and the event's handler.
* **Two parties at odds**: a person asks not to be written to while the client
  unblocks his number and a message is on its way.

`PROJECT.json` lists each hazard at its line with the property that would catch it.
What must be correct:

* onboarding: no milestone without its predecessors; a number is leased to one
  client, a client holds one; what is released was given back; a waiting client
  gets a number;
* recordings: a claimed erasure is real; "told" means sent; the owner waits for the
  words; an outcome is final; the owner hears; recordings expire;
* callers: whoever asked to be left alone is; evidence is of a message that went
  out; one message a day; every caller is decided;
* callbacks: one is booked only for a moment that was offered, and a moment by one
  caller; the owner is reminded, and not without end;
* billing: an event is run by one delivery at a time and in the end; who pays has the
  product and who stops has not; a pack is credited once;
* quotes: only payment activates a project, for the full amount; a payment activates
  it; a payment by hand is told from one of Stripe's.

## 2. Plan

| Step | Module | Abstract view | Status |
|---|---|---|---|
| 1 | `RecallOnboarding` | `NumberLease` | done, safety and refinement proved |
| 2 | `RecallRecordings` | | done, safety proved |
| 3 | `RecallCallers` | | done, safety proved |
| 4 | `RecallCallbacks` | | done, safety proved |
| 5 | `StripeWebhook`, `StripeBilling` | `MessageBalance` | done, safety and the refinement proved |
| 6 | `WebQuotes` | | done, safety proved |
| 7 | `Recovery`, the digests, the product wizard | | open |
| 8 | a composition of `RecallRecordings` and `RecallCallers` over one `CallEvent` | | open |

Each component gets one passing run on the smallest instance that shows its
races (two handlers and a tick), one fault, its real retry limits where they fit, and a
proof of its type invariant and first safety invariants.

## 3. How the modules read

A handler is a process. `proc[p]` (or `desk[d]` for the client's blocklist page)
holds where it stands, `at`, and what it has read; one action is the code from one
await to the next. Anything the code reads before an await and uses after it is
therefore a field of `proc`, and anything it reads again is read again. `Fault`
(`Crash`) empties one handler or all and leaves the rows. Variables named in the
header comment as promises to the outside (`held`, `audio`, `heard`, `ever`,
`noticed`, `today`, `excused`) are what Twilio, Meta or a person knows; handlers do not read
them except where the code asks that service.

An outside call that fails has two actions, because the code cannot tell them
apart: nothing was done, or it was done and the answer was lost (`...Unheard`). Both leave the
rows as the code's error branch leaves them; they differ in what Twilio, Meta or Stripe knows.
Whisper has only the first: a transcription we do not hear of changes nothing.

`Slip:` marks a variant of the operator below it, with a plausible mistake. No
specification uses one; they show that a property would catch it.

### RecallOnboarding, NumberLease
`status`, `reached` (the milestone dates), `connected`, `approved` are the
subscription's columns; `phase`, `tenant` the number's; `held` is Twilio's account, and
`adrift` the numbers Twilio took back without the row saying so: the release's answer
was lost (`ReleaseUnheard`), or its handler died before the row. Releasing again, which Twilio
answers with 404 and our client with success, clears them.
`EnsureSubscription` is the payment, `BeginSign/FinishSign` the operator's
confirmation, `BeginConnect/FinishConnect/ConnectFails` the two ways to connect
WhatsApp, `BeginAssign` to `AdvanceAssigned` the assignment with its
find-claim-retry loop, `BeginRelease` to `Unlist` the release, `BuyNumber`,
`ListNumber`, `ListingFails` the purchase, `BeginTemplates` to `OpenForwarding` the
template sweep, `IncomingCall` to `Activate` the first forwarded call.
`NumberLease` is the pool as it promises to be: list, lease, return, each atomic.
`RecallOnboarding` implements it with `phase` and `tenant` mapped to themselves.

Left out: `paused` and `cancelled` (no code writes them), audit rows, e-mails. One
recall subscription stands for one client.

### RecallRecordings
`row` is the `CallEvent`, `audio` the recording at Twilio, `leads` how many leads
exist for the call, `heard` whether Meta accepted a message to the owner, `age`
how long ago the call was (past the transcript grace, past retention).
`IncomingCall` is the voice webhook, `RecordingCallback` the recording webhook,
whose background chain (`ReadForTranscript` ... `StampTold`) is the same code the
tick runs from its own lists (`ToTranscribe`, `ToTell`, `ToPurge`). `SendUnheard` and
`DeleteUnheard` are a message sent and a recording deleted whose answers were lost; the
next try finds the owner told already, or a 404.

Simplifications: `attachRecording` reads and writes in one step (its outcome
depends only on `withheld`, which nothing later changes); thirty days are longer than
any handler runs; a recording's length is voice or silence; web push is left out.

### RecallCallers
All calls are from one number to one client, which is the scope of the throttle,
the blocklist and the contact. `row` is the caller's half of the `CallEvent`,
`block` the blocklist row, `basis` the call the contact's legal basis points at.
`today` and `ever` count the messages a person got, `unheard` those of them whose answer was
lost, which the code takes for refused and sends again (`today` counts the others), `noticed` those with
the legal notice, `excused` what was out or under way when he asked to stop.
`TickPicks` is the sweep's list, `ReadForCaller` to `ResolveRefused` are
`notifyCaller` exit by exit. `Sender` is how the number is written in a reply.

Simplifications: the single confirmation of an opt-out is not counted as a message;
a request the route does not route (inactive subscription, no connection, SMS) is no
request; a day passes only between ticks; the wording and the choice of template are a free
choice at each send.

### RecallCallbacks
Time is counted in slots of the offer's grid and the opening hours are a set of
moments. `row` is the callback part of the `CallEvent`. `TickOffers` to `CloseCaller`
are the message with an offer, sent and then stored; `ReplyArrives` takes up a
reply against the newest open offer of its sender, `FindFree` asks which moment is free,
`Book` writes it by id; `TickReminds`, `ReminderAccepted`, `StampReminded` are the
sweep that reminds the owner. `shown`, `asked` and `told` are what the caller was sent,
picked, and the owner was reminded of. `raced` marks calls booked while another reply
stood between reading and writing: for them two callers can get one moment, as the code
allows, and the properties say that nothing else brings it about. An offer or a reminder
that went out with its answer lost (`OfferUnheard`, `ReminderUnheard`) counts as a fault.

Simplifications: one subscription; a handler ends before the clock has moved
twice; when a caller gets a plain message, or none, is for `RecallCallers` to say, here it
is `TickClosesCaller`; replies that pick nothing change nothing.

### StripeWebhook, StripeBilling, MessageBalance
`StripeWebhook` is the ledger: `Deliver` is the insert of a new event's row or the
conditional claim of a failed or stale one, `AnswerDuplicate` every other delivery,
`Settle`, `Throws`, `Dies` the three ends of a handler, `GrowsStale` the ten minutes after
which a pending row can be taken over. What a handler does is left to `StripeBilling`,
which instantiates it: `step` is where the worker stands in the handler of its event.
`Look`, `Reserve`, `SessionOpens`, `SessionFails` are a checkout request, `PackOpens` the
purchase of a pack; a request whose answer is lost, or that dies waiting for it, may leave a
session `unheard`: open at Stripe, its address known to nobody, so that it can only expire, and
that expiry finds whatever the row has become. The earlier session of the initial states may be
one. `Pays`, `Abandons`, `Ends` happen at Stripe and put events into `owed`.
`ReadForActivation` to `CreateProfile` handle a completed session, `ReadForExpiry` and
`CancelPending` an expired one, `SyncSubscription` and `Retire` the subscription's
events, `CreditPack` and `ExpirePack` the packs'; `Spend` is a message taken from the balance.
`MessageBalance` is what a pack promises: units for each paid purchase, once.

`alone` holds the sessions whose contract no other checkout or subscription could
touch, `crossed` those activated from a status that had changed since it was read, `cut`
those whose handler stopped after activating: what the two properties about products
leave out, because there the code does go wrong (section 7).

Simplifications: one client; products sold once per client, so that a contract is a row;
the end of a subscription is the last thing heard of it; the operator, who may set any status
by hand, and prices, coupons and the customer at Stripe are left out.

### WebQuotes
`quote`, `product`, `mirror` and `marked` are the `WebQuote`, the status of the project's
`ClientProduct`, and the `Invoice` rows with their note of a payment by hand; `invoice`,
`byHand`, `kept` and `owed` are what Stripe knows: the invoices, those paid outside it, the
idempotency keys, and the events to deliver. A request (`Begin`) reads the quote and passes
the checks of its route; `Look` to `PayByHand` talk to Stripe and copy its answer; `Write`
sets the quote without looking again; `GivesUp` is a request that fails anywhere. `Deliver`
to `ApplyPayment` are the handler of `invoice.paid`. A handler that stops is followed by another
delivery, or by none if one came in between and was answered as a duplicate (`Stops`), and an
endpoint that Stripe has disabled gets none (`Undelivered`): `lost` holds the invoices whose
event will not come any more. A quote may be for nothing, and then has no deposit to check:
Stripe marks its invoice paid on finalizing (`StateAtFirst`). `crossed` says that a write met another
quote than it was read for, or that a quote was cancelled with an invoice still open or paid;
`dropped` holds the deposits whose event came when the quote was not waiting for one.

Simplifications: one project; mails, audit rows, descriptions and rights are left out; of
Stripe's other invoice events only what the requests copy themselves. How an event is
claimed is `StripeWebhook`'s business; what comes of it, an event handled again or
lost, is a choice here.

## 4. Runs

| Run | Instance | Shows |
|---|---|---|
| `onboarding` | 2 clients, 2 numbers, 1 request and the tick, 5 tries, 1 fault; `FairSpec` | five properties hold, the refinement of `NumberLease` among them: 398,154 states |
| `onboarding_pair` | 1 client, 2 numbers, 2 requests and the tick, 1 fault (a handler dies, or all do) | the same done twice at once (release, purchase, assignment, first call): three properties hold, 1,058,438 states |
| `onboarding_bound` | 1 client, 1 number, 1 restart | *violated*: claim and advance are not one transaction |
| `recordings` | 1 call, 2 callbacks and the tick, 2 deliveries, 3 tries, 1 fault; `FairSpec` | seven properties hold: 211,068 states |
| `recordings_leads` | 1 call, 1 callback and the tick | *violated*: two leads for one call |
| `recordings_turns` | 2 calls of 2 clients, batch 1; `FairSpec` | *violated*: unconnected rows starve the others |
| `callers` | 2 calls, 1 tick, 1 client at his page, 2 tries, batch 1, 1 fault; `FairSpec` | seven properties hold: 518,908 states |
| `callers_wa_id` | the same with the sender as Meta writes it | *violated*: the request to stop is lost |
| `callbacks` | 2 callers, 2 replies at once, 1 tick with a batch of 1, 2 moments, 1 fault; `FairSpec` | six properties hold: 477,702 states |
| `billing` | 1 contract, an earlier session and a new one, 1 checkout, 2 workers, 1 fault; `FairSpec` | six properties hold, the refinement of `MessageBalance` among them: 499,975 states |
| `billing_forgotten` | 1 contract, 1 checkout, 1 worker, 1 fault | *violated*: a client who has paid is forgotten when a handler dies whose event came twice |
| `web_quotes` | amounts 0 and 3, deposits 1 and 3, 2 invoices, a client and an operator, 1 handler, 2 turns for the worse; `FairSpec` | six properties hold: 1,273,236 states |

Each violated property is a sentence of the repository, quoted in the module and in
`PROJECT.json` "findings", that the code does not keep.

**Why these bounds.** A race needs two handlers on one row and one more to spoil
what they agreed on: two requests or callbacks and the tick are enough for each pair
of operations to overlap in every order. Two clients and two numbers make a claim
collide on the number and on the client. The limits of retries are the code's
own, five claims and three attempts, except that `callers` has two attempts: a first that
fails and a last are enough for each of its exits, and the proofs have any number. With two
numbers a claim is never lost five times; that exit of the loop is in the proofs only. Batches are 1 instead of 20 or 25, so that the limit bites with two
rows. One fault falls between any two writes, in turn; that more of them change nothing
for the safety properties is what the proofs show. Two calls of a person are what a throttle and a first
evidence are about. `recordings` has one call, because calls share only the batches,
and `recordings_turns` is the run in which those matter.

`callbacks`: closed at 1, open at 2 and 3, over at 4. Two moments and two people make both
the wish for one moment and the next free one happen; with no grace, each
callback is due, in time and too late within four units. `billing`: an earlier bought
product and a new session give every order of two subscriptions' events on one row; a
pack is the other kind of session; the earlier session was bought or never heard of.
`web_quotes`: amounts of 0 and 3 and a deposit of 1 give three sets of terms, so that an invoice
in full can differ from what the quote says now, and a key can answer with an invoice of another
amount; a deposit of 3 is refused; two invoices are a deposit and the balance, or a voided and a
new one; `MaxTurns` bounds edits, resets, forgotten keys, stopped handlers and events given up, together.
These three runs do not check for deadlock: the clock stops, or the last session or the
quote is done with, and nothing is left to do.

**Fairness.** A started handler goes on (weak fairness on `Continue`), as Node runs
it. The scheduler's loop never ends and a failed tick does not stop it
(`scheduler.sh`, lines 46-62), every job of a tick has its own try, and a sweep
runs over its whole list; so a row that is listed again and again is
visited: strong fairness of the tick on each row. Time passes. Twilio does not
refuse a deletion for ever. Nothing is assumed of Meta, Whisper, the client, the
person or the callbacks: a message may be refused each time, a transcript never come.

Stripe delivers what it has not been told is done: strong fairness of the deliveries of
the events it owes, taken together, since deliveries compete for the workers; weak fairness
of the handlers; and ten minutes pass. But it disables an endpoint that keeps failing
(`stripe-webhook.ts`, lines 195-198): in `StripeBilling` nothing is assumed of it while it owes
an event that is refused each time (`FailsForGood`), and `EventsAreProcessed` promises
nothing for that time; in `WebQuotes` it delivers what it has not given up. Nothing is assumed of checkouts, of
the client who pays or does not, or of any request of the quotes' pages: each may stop at
any step.

## 5. Proofs

For every value of the constants, with nothing assumed but the named `ASSUME`s at
the head of each module (counts are naturals; the ticks are finitely many; the tick is no
worker; "none" is no member):

| Module | Theorem | Property |
|---|---|---|
| `RecallOnboardingProofs` | `TypeCorrect` | `TypeOK` |
| | `ReleasedNumbersAreGivenBack` | `ReleasedIsGivenBack` |
| | `ListedNumbersAreOurs` | `ListedIsOurs` |
| | `NoMilestoneSkipped` | `NothingSkipped` |
| | `NumbersBehindStatus` | `NumberBehindStatus` |
| | `NobodyIsLeftHalfway` | `NobodyLeftHalfway` |
| | `PoolImplementsLease` | `LeaseSpec` |
| | `LeasesAreExclusive` | `OneNumberEach`, `NeverPassedOn` (*) |
| | `ForwardWhenAlone`, under `[]OneStamper` | `NeverBackward` (*) |
| | `BoundWhenAlone`, under `[]OneStamper`, till the first crash | `BoundMeansAdvanced` |
| `RecallRecordingsProofs` | `TypeCorrect` | `TypeOK` |
| | `ErasureHolds` | `ErasureIsReal` |
| | `ToldWasSent` | `ToldMeansSent` |
| | `WordsAreWaitedFor` | `OwnerWaitsForWords` |
| | `OutcomesAreFinal` | `OutcomeIsFinal` |
| | `OneLeadWhenAlone`, under `[]OneScribe` | `OneLeadPerCall` |
| | `LeadsAreBounded`, for finitely many handlers | `LeadsAreFew` (*) |
| `RecallCallersProofs` | `TypeCorrect` | `TypeOK` |
| | `EvidenceHolds` | `EvidenceIsTrue` |
| | `OptOutsAreFinal` | `OptOutIsFinal` |
| | `FirstEvidenceIsKept` | `FirstEvidenceStays` |
| | `WhoeverAskedIsLeftAlone`, for `Normalises(Sender)` | `PersonLeftAlone` |
| | `OncePerDay` | `OneMessagePerDay` |
| | `MessagesAreBounded` | `MessagesBounded` (*) |
| `RecallCallbacksProofs` | `TypeCorrect` | `TypeOK` |
| | `BookingIsAsShown` | `BookedAsShown` |
| | `SlotsExclusive` | `SlotsAreExclusive` |
| | `ClosingIsNotSilent` | `NoSilentClosing` |
| | `RemindersAreBounded` | `RemindersBounded` |
| | `PromisesWhenAlone`, under `[]OneReply` | `NoSharedMoment`, `EveryClosingHasItsReason`, `BookedOnce` (*) |
| `StripeBillingProofs` | `TypeCorrect` | `TypeOK` |
| | `OneAtATime` | `OneWorkerPerEvent` |
| | `PayingTurnsOn` | `PaidTurnsOn` |
| | `EndingTurnsOff` | `EndedTurnsOff` |
| | `PacksImplementBalance` | `PacksCreditedOnce` |
| | `ProcessedStays` | `ProcessedIsFinal` (*) |
| | `PaidPacksAreDelivered` | `ProcessedPackIsCredited` (*) |
| | `BalanceIsPaidFor` | `BalancePaidFor` (*) |
| `WebQuotesProofs` | `TypeCorrect` | `TypeOK` |
| | `HandPaymentsAreMarked` | `HandPaymentsMarked` |
| | `ActivationIsPaid` | `ActivatedByPayment` |
| | `ProjectIsPaidInFull` | `PaidInFull` |

The properties marked (*) are defined in the proof modules and belong to no run; TLC was run
on each of them, with the instances of section 4 or ones like them, without a violation, but for
`NeverBackward`: two signatures at once violate it, and the theorem has its condition.

*What alone breaks a claim.* Two of the violated runs (`onboarding_bound`, `recordings_leads`),
the step back of section 7, and the exceptions in two
properties of the callbacks ask the same question: is the overlap they show the only cause? The
theorems named `...WhenAlone` answer it. Each adds to `Spec` that one kind of overlap never
happens, and proves the claim without exception:

* `OneStamper`: no two handlers are on their way to stamp one subscription. Then no status goes back,
  and until the first crash a client with a number has moved on.
* `OneScribe`: no two transcriptions of one call are at Whisper. Then a call has one lead at
  most.
* `OneReply`: no reply is read while another is between reading and booking. Then no moment is promised
  twice, no callback closes without its reason and none is moved.

The model gives no such guarantee and the code has no lock that would; the theorems say what
a lock, or a conditional write, would have to keep apart. The hypotheses restrict nothing else: under
each, TLC still reaches active clients, leads and bookings, through crashes and
repeated deliveries.

*Onboarding.* `Shape` is the type invariant with what a handler carries at each station (a
subscription, a number, the status it may have seen) and the fact that a number being bought is
not listed yet. `Pool` adds who may hold a number between the provider's answer and the row:
every handler at `unlist` has had the provider's consent, and one that
ends without the row, by death or a lost answer, leaves its number in `adrift`. `Walk` adds to `NothingSkipped` that
the status a handler read had been reached when it read it; this is why an unguarded write of an
old plan moves a client *back* but never past a milestone: `reached` only grows. `Behind` says
that an assignment is stamped, or about to be, only behind a claim that was won.
`NobodyLeftHalfway` needs no more than `Shape`: each of the two passing statuses is written by
the handler that then moves the client on, and that handler leaves its place only by doing so or
by dying. The refinement goes action by action: the claim is `Lease`, the row writes are `List`
and `Return`, everything else stutters, and `Return` of a number that is already released is a
stutter too. `LeasesAreExclusive` is then proved of `NumberLease` alone (`LeaseShape`: a number
has a tenant exactly while it is assigned, and no two have the same) and carried over. The two
theorems under `[]OneStamper` rest on `Fresh`: whoever is to write a status that rests on the
one he read still finds that one, and nobody holds a reading later than the row; `Binding` adds
that whoever holds a number, or is about to claim one, has come as far as `meta_connected`.

*Recordings.* `IInv` is `TypeOK` with `Origin` (which outcome a row can have given its
audio, and which call a handler may be at work on), `Retention` (a handler at `erase`
has deleted the audio) and `Telling` (a handler at `stamp` has had its message accepted;
one at `send` had words or had waited for them). `Origin` is what makes an
outcome final: the kind of audio never changes once it is there, so a repeated callback
writes the outcome that is there already. `Informed` is the argument for one lead: a handler at
Whisper knows of the lead if there is one; only another at Whisper for the same call can make
that untrue. `RoomForLeads` counts instead: once a call has a lead, those it has and the handlers
that read the row before are never more than the handlers there are.

*Callers.* `IInv` is `TypeOK` with what a handler carries and `Backed`: a handler at
`evidence` or `record` stands for a message that went out, and for a notice if it claims
one. `PersonLeftAlone` needs `Alone`: once asked, the number is sealed, and for each call
the messages out plus the handlers past the blocklist check (`Way`) are no more than were
excused. Sealed, a handler can only leave the way, and a message costs its place on
it; that the ticks are finitely many is what makes the count a number. The
theorem's hypothesis, `Normalises(Sender)`, is the one `callers_wa_id` shows to be false of
production. `OneMessagePerDay` needs `Paced`: behind each message of the day stands its
date or the one handler about to write it, and whoever passed the throttle found
no message at all. That is one message a day of those we know of, with one tick and no fault,
and the proof shows where both are
used: the handler at `record` must be the only one, and must get there. A message whose
answer was lost is sent again the same day; what bounds those is that each has cost an
attempt. `MessagesBounded` says
what remains with any number of ticks and faults, by the count used for the reminders below:
until the call is dated each tick may still write except those about to date it, and
afterwards only those already past their reading; every lost answer adds one.

*Callbacks.* `Shape` is `TypeOK` with the fact that time has begun, which tells a date from
none. `Sent` says that an offer stored, or in the hands of a handler past the send, was shown
to its caller, and that the moment a reply is about to book is of that offer and not before
the one picked. `Fresh` is the argument for exclusive moments: what a reply at `book` found
free is still nobody's, or the handler knows that it was overtaken. `Knowing` carries
a reminder's moment to its stamp: who is at `stamp` has told the owner of it, or was too
late, or the service has been off; and the moment is still the row's, or the call is `raced`.
`Counted` bounds the reminders by looking ahead: those sent, with those the ticks can still
send, are never more than the ticks times one more than the faults. While the row is listed each
tick can, except those about to stamp; once it is stamped, only a tick that stands before the
send. A fault between sending and stamping, a lost answer among them, costs a stamp, and the bound
grows by as many as there are ticks. `PromisesWhenAlone` needs only that a booking is `raced` when another
handler was between reading and booking (`OnlyBookingRaces`), and takes the rest from the
theorems before it.

*Billing.* `Shape` is `TypeOK` with sessions numbered in the order they open, nothing known of
the unopened, and an event for each busy worker; `Held` says that the event of a working worker
is `pending` and not stale, which is why a delivery can take it neither as new nor as failed nor
as forgotten; `Truthful` says that a completed session was heard of only if it was paid, and
that a pack does not end. A pack is then credited only behind a paid session and a purchase
still pending, and `CreditPack` is `Credit`; `Pays` on a pack is `Pay`, `Spend` is `Spend`, the
rest stutters. The two properties about products rest on `Reported`, an event owed or in the
ledger is one of a session that has come to it, and on `Alone`: a session still alone has no
other checkout at its contract, and every other session of it is over, those opened unheard
included, with no event of theirs still to come. Then only the session's
own handlers write the row, and of those one per event: `TurnedOn` follows the activation from
the read to the write, `TurnedOff` the retirement, and neither can be undone by a later event of
the same session. `ProcessedIsFinal` is `Held` once more: who marks an event failed is the one
worker that runs it, and it is pending. `Delivered` follows a pack: its purchase expires only
with its session, and the handler of the paid one has credited it when it is done.
`BalancePaidFor` is proved of `MessageBalance` (`Bought`: what is left is at most what was
credited, and what was credited was paid) and carried over by the refinement.

*Quotes.* `Shape` is `TypeOK` with what each request and handler carries; `Noted` that a
payment by hand has its note from before Stripe was told; `Announced` that an event is owed
or under way only for a paid invoice; `Backed` that a quote at `deposit_paid` or
`invoiced_final`, a request for the balance and every invoice of it have a paid deposit
behind them. Whatever is written over the quote, an invoice keeps its role: that is
why the activation can rest on it. `Backed` speaks of roles, because a forgotten key gives a
second invoice of the same role. `PaidInFull` rests on two facts: a request that
no write has overtaken still sees the status it was allowed at and the terms it read
(`InStep`); and until something crosses, every open or paid invoice is for what the
quote says now, and there are such only once the quote is sold (`Agreed`). A final invoice is then
for exactly what the deposit leaves, and `ActivatedByPayment` gives the deposit.

**Only model-checked**: liveness (`WaitingClientGetsNumber`, `OwnerHears`,
`RecordingsExpire`, `EveryCallerDecided`, `CallbackCloses`, `EventsAreProcessed`,
`PaymentActivates`, `DepositIsCounted`), which the prover cannot do under fairness. Every
safety property of the passing runs is a theorem.

## 6. Not modelled

The components marked so in the inventory. Most of the repository's lines are pages and
components, templates and their text, and single-row edits around a model or a provider's
answer: there is no interleaving in them to check. Of those that have one, the recovery campaigns
(a send and a stamp, as in `RecallCallers`), the digests (one mail per period), the
sweep of website drafts and the product wizard are left for an extension.

Within the modelled components: message wording and
layout, the calendar of opening hours, the send ledger, audit rows, push notifications, the
Embedded Signup exchange, token expiry, the submission of templates, voice capture; prices,
coupons, prospecting packs, products sold several times to one client. A callback
that never arrives leaves its call pending, and an orphan recording (a call whose
row could not be written) is never purged; both are as the code says, are hazards in
`PROJECT.json`, and no property speaks of them.

## 7. What the properties leave out, and why

Some properties have a condition, because without it the code does not keep them; each
case can be seen by taking the condition away. The disagreements with the repository's words
that a run shows are the violated runs of section 4. Those below are disagreements of the same
kind: the words are quoted, and the condition names what the code does against them.

Onboarding:

* a step back. `recall-meta.ts:250-257` takes care "not to move a status backward or sideways on a
  reconnect". The status is read before the calls to Meta and written after them by id, so it can
  go back, and so it can with two signatures at once (`recall-onboarding.ts:129`). `NeverBackward` is
  therefore a theorem under a condition and no run;
* a number we think we own and don't, the one disagreement that `recall-numbers.ts:14-24` refuses. It
  comes about when Twilio has taken back a number and the handler dies before the row, or the answer
  to the DELETE is lost and taken for a refusal (193-199): the number stays listed, may be assigned,
  and is put right by a second release only (`adrift` in `ListedIsOurs`);
* the contrary case, which does not occur: `schema.prisma:5078-5079` says "A row can be locally
  `released` while the provider still bills us for it". `ReleasedIsGivenBack` says that no row is: a
  refusal writes `lastError` and leaves the row's status, and two releases at once end with the
  number given back. The comment describes more than the code lets happen.

Messages over WhatsApp and SMS (callers, owner, callbacks):

* a message accepted by Meta whose answer is lost counts as refused (`whatsapp-api.ts:109-112`) and as
  one to try again (76): the next tick sends it again, the same day. `OneMessagePerDay` counts
  the messages we know of and bounds all of them by the attempts;
* a reminder has no count of attempts: a restart, an overlapping tick or a lost answer between sending
  and stamping repeats it (`faults` and `Ticks` in `RemindersBounded`);
* two overlapping replies get the same moment (`raced` in `SlotsAreExclusive`).

Billing:

* after a restart, or with the database away, the event's row stays `pending`; a
  redelivery within ten minutes, or one that came beside the handler that then fails, is answered as a
  duplicate with success, and Stripe does not come back (`early` in `EventsAreProcessed`). The header
  of `stripe-webhook.ts` (36-44) tells of just this loss, a "fallo transitorio (Postgres caído diez
  segundos)", as one that is over: `billing_forgotten` shows that it is not;
* "reprocesar es seguro" (41-43): a stop between activation and the product's set-up leaves it
  without; the redelivered event finds the row active and returns (`cut` in `PaidTurnsOn`);
* the guard on `pending_payment` is to make "a duplicate/out-of-order webhook delivery" a no-op
  (`stripe-billing.ts:638-643`). It is tested on a row read before, and the write is by id: when the
  handlers of the completed session and of its end overlap, the activation lands on the
  retirement and the product stays on unpaid (`crossed` in `EndedTurnsOff`);
* "La Checkout Session nunca se abrió" (1356): it may have, with its answer lost. Nobody can pay it,
  but its expiry, a day later, cancels the row of the checkout that came next, and if that
  was to be paid its event finds nothing pending (`alone`);
* two open sessions of one contract share its pending row: the expiry of one cancels what
  the other has paid (`alone`);
* a checkout that Stripe refuses writes back the status it read, over an activation in between (`alone`);
* an older subscription whose deletion is handled late retires the product bought again (`alone`);
* `Subscription.clientProductId` is unique: the events of the subscription of a product bought again
  fail each time, and Stripe disables an endpoint that keeps failing (`stripe-webhook.ts:195-198`),
  and with it every activation (`FailsForGood` in `EventsAreProcessed`).

Quotes:

* an edit lands on a quote the client has accepted: `web-quote-invoicing.ts:15-18` says that
  `canEditWebQuote` "ya bloquea editar el importe" and that he can accept only "EXACTAMENTE lo que se
  le envió", and `accept/route.ts:26-30` relies on it. The edit tests the status it read and then writes
  the terms by id, so an acceptance in between is overtaken: the invoice is for one amount, the
  quote says another. A quote that is edited after it was sent is not sent again either, and what is
  accepted is what it says by then (`crossed` in `PaidInFull`);
* an event that is lost, as under Billing, or by an endpoint that is disabled, leaves the project
  off and the deposit uncounted for good (`lost` in `PaymentActivates` and `DepositIsCounted`);
* voided, reset and accepted again within 24 hours, a quote gets the voided invoice as Stripe's answer to the
  same key, and waits for ever;
* a deposit paid before `invoiced_deposit` is written is dropped (`dropped` in
  `DepositIsCounted`); so is one whose final invoice was voided and the quote reset;
* the request that has generated an invoice writes `invoiced` over the `paid` of its event;
* cancelling while an invoice is being generated leaves it open (`crossed`);
* a generation that stops after Stripe's answer and is repeated after a day gives two open invoices.
