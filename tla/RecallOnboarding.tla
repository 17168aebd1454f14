-------------------------- MODULE RecallOnboarding --------------------------
(***************************************************************************)
(* The alta of a recall subscription: the status that walks from `paid` to *)
(* `active`, and the pool of virtual numbers it draws from.                *)
(*                                                                         *)
(* Five handlers write the same rows, each with awaits between its read    *)
(* and its write: the operator (sign, assign, release, buy), the client    *)
(* connecting WhatsApp, the scheduler tick (assign, templates) and the     *)
(* voice webhook (the first forwarded call).  A handler here is a process: *)
(* one action per stretch of code between two awaits, with the values it   *)
(* read kept in `proc` until the write that uses them.                     *)
(*                                                                         *)
(* `paused` and `cancelled` are left out: no code writes either status.    *)
(* Audit rows, e-mails and the forwarding-instructions message change no   *)
(* state modelled here.                                                    *)
(***************************************************************************)
EXTENDS Naturals, FiniteSets

CONSTANTS Subs,        \* recall subscriptions (one per client product)
          Numbers,     \* virtual numbers the provider may sell us
          NoSub, NoNum,
          Tick,        \* the process that runs the scheduler's recall-tick
          Workers,     \* concurrent HTTP requests (operator, client, Twilio)
          MaxTries,    \* retries of a lost claim: 5 in the code
          MaxCrashes   \* bound: restarts of the app and handlers that die

ASSUME NoneAreNone == NoSub \notin Subs /\ NoNum \notin Numbers
ASSUME TickIsNoWorker == Tick \notin Workers
ASSUME BoundsAreNat == MaxTries \in Nat /\ MaxCrashes \in Nat

VARIABLES status,      \* subscription -> its RecallSubscription.status
          reached,     \* subscription -> the milestones stamped on it
          connected,   \* subscription -> metaConnectionId is set
          approved,    \* subscription -> every required template is APPROVED
          phase,       \* number -> VirtualNumber.status, "unlisted" = no row
          tenant,      \* number -> VirtualNumber.subscriptionId
          held,        \* number -> the provider has it on our account
          adrift,      \* numbers given back by a release that wrote no row yet
          proc,        \* handler -> where it is and what it has read
          crashes      \* of both, so far

vars == <<status, reached, connected, approved, phase, tenant, held, adrift, proc,
          crashes>>
account == <<held, adrift>>
poolVars == <<phase, tenant, account>>
subVars == <<status, reached, connected, approved>>

Procs == Workers \cup {Tick}

(* The statuses in their order; "absent" is the product not yet paid for.  *)
Rank(st) ==
  CASE st = "absent"              -> 0
    [] st = "paid"                -> 1
    [] st = "contract_signed"     -> 2
    [] st = "meta_connected"      -> 3
    [] st = "number_assigned"     -> 4
    [] st = "templates_approved"  -> 5
    [] st = "forwarding_pending"  -> 6
    [] st = "forwarding_verified" -> 7
    [] st = "active"              -> 8

Milestones == {"paid", "contract_signed", "meta_connected", "number_assigned",
               "templates_approved", "forwarding_pending",
               "forwarding_verified", "active"}
Statuses == Milestones \cup {"absent"}

(* nextOnboardingStatus(from) = to.                                        *)
IsNext(from, to) == from # "absent" /\ Rank(to) = Rank(from) + 1

CanSignContract(st) == IsNext(st, "contract_signed")
CanBindMetaConnection(st) == st \notin {"absent", "paid"}
(* Slip: strictly after meta_connected.                                    *)
CanBindVirtualNumberTooLate(st) == Rank(st) > Rank("meta_connected")
CanBindVirtualNumber(st) == Rank(st) >= Rank("meta_connected")

Stations == {"idle", "sign", "bind", "find", "claim", "advance", "release",
             "unlist", "list", "templates", "forwarding", "verify", "activate"}

Idle == [at |-> "idle", sub |-> NoSub, num |-> NoNum, seen |-> "absent", tries |-> 0]

At(p, station) == proc[p].at = station
(* A handler sets out, keeping what it has read.                           *)
Starts(p, station, s, n, st) ==
  proc' = [proc EXCEPT ![p] =
             [at |-> station, sub |-> s, num |-> n, seen |-> st, tries |-> 0]]
Done(p) == proc' = [proc EXCEPT ![p] = Idle]
HasNumber(s) == \E n \in Numbers : tenant[n] = s
Available == {n \in Numbers : phase[n] = "available"}

(* Every status write stamps its milestone in the same update.             *)
Advance(s, to) ==
  /\ status' = [status EXCEPT ![s] = to]
  /\ reached' = [reached EXCEPT ![s] = @ \cup {to}]
  /\ UNCHANGED <<connected, approved>>

Init ==
  /\ status = [s \in Subs |-> "absent"]
  /\ reached = [s \in Subs |-> {}]
  /\ connected = [s \in Subs |-> FALSE]
  /\ approved = [s \in Subs |-> FALSE]
  /\ phase = [n \in Numbers |-> "unlisted"]
  /\ tenant = [n \in Numbers |-> NoSub]
  /\ held = [n \in Numbers |-> FALSE]
  /\ adrift = {}
  /\ proc = [p \in Procs |-> Idle]
  /\ crashes = 0

-----------------------------------------------------------------------------
(* The payment creates the subscription.  The find, the create and the     *)
(* P2002 branch of a lost race are one step: clientProductId is unique, so *)
(* whoever comes second finds or collides with the same row.               *)
EnsureSubscription(s) ==
  /\ status[s] = "absent"
  /\ Advance(s, "paid")
  /\ UNCHANGED <<poolVars, proc, crashes>>

(* The operator confirms the contract: status read, then an update that    *)
(* does not look at the status again.                                      *)
BeginSign(p, s) ==
  /\ At(p, "idle")
  /\ CanSignContract(status[s])
  /\ Starts(p, "sign", s, NoNum, status[s])
  /\ UNCHANGED <<subVars, poolVars, crashes>>

FinishSign(p) ==
  /\ At(p, "sign")
  /\ Advance(proc[p].sub, "contract_signed")
  /\ Done(p)
  /\ UNCHANGED <<poolVars, crashes>>

(* The client's popup or the operator's manual form: the status is read    *)
(* before several calls to Meta and used after them.                       *)
BeginConnect(p, s) ==
  /\ At(p, "idle")
  /\ CanBindMetaConnection(status[s])
  /\ Starts(p, "bind", s, NoNum, status[s])
  /\ UNCHANGED <<subVars, poolVars, crashes>>

ConnectFails(p) ==
  /\ At(p, "bind")
  /\ Done(p)
  /\ UNCHANGED <<subVars, poolVars, crashes>>

FinishConnect(p) ==
  LET s == proc[p].sub
      willAdvance == IsNext(proc[p].seen, "meta_connected")
  IN /\ At(p, "bind")
     /\ connected' = [connected EXCEPT ![s] = TRUE]
     /\ status' = IF willAdvance THEN [status EXCEPT ![s] = "meta_connected"] ELSE status
     /\ reached' = IF willAdvance THEN [reached EXCEPT ![s] = @ \cup {"meta_connected"}]
                                  ELSE reached
     /\ Done(p)
     /\ UNCHANGED <<approved, poolVars, crashes>>

(* Meta's review, mirrored by syncTemplateStatuses: all required templates *)
(* become approved, or one of them stops being so.                         *)
TemplateReview(s) ==
  /\ connected[s]
  /\ approved' = [approved EXCEPT ![s] = ~@]
  /\ UNCHANGED <<status, reached, connected, poolVars, proc, crashes>>

-----------------------------------------------------------------------------
(* assignNumberToSubscription, from the operator's route or the sweep.     *)
BeginAssign(p, s) ==
  /\ At(p, "idle")
  /\ CanBindVirtualNumber(status[s])
  /\ ~HasNumber(s)
  /\ Starts(p, "find", s, NoNum, status[s])
  /\ UNCHANGED <<subVars, poolVars, crashes>>

(* The sweep only lists subscriptions in meta_connected; its list may be   *)
(* stale by the time one is reached, which a worker's BeginAssign shows.  *)
SweepAssigns(s) == status[s] = "meta_connected" /\ BeginAssign(Tick, s)

FindNumber(p) ==
  /\ At(p, "find")
  /\ proc[p].tries < MaxTries
  /\ \E n \in Available :
       proc' = [proc EXCEPT ![p].at = "claim", ![p].num = n]
  /\ UNCHANGED <<subVars, poolVars, crashes>>

PoolEmpty(p) ==
  /\ At(p, "find")
  /\ Available = {} \/ proc[p].tries = MaxTries
  /\ Done(p)
  /\ UNCHANGED <<subVars, poolVars, crashes>>

(* Slip: the claim matches the row by id alone.                            *)
ClaimNumberById(p) ==
  LET s == proc[p].sub
      n == proc[p].num
  IN /\ At(p, "claim")
     /\ ~HasNumber(s)
     /\ phase' = [phase EXCEPT ![n] = "assigned"]
     /\ tenant' = [tenant EXCEPT ![n] = s]
     /\ IF IsNext(proc[p].seen, "number_assigned")
          THEN proc' = [proc EXCEPT ![p].at = "advance"]
          ELSE Done(p)
     /\ UNCHANGED <<subVars, account, crashes>>

(* updateMany ... where status = available and subscriptionId = null.      *)
ClaimNumber(p) ==
  LET s == proc[p].sub
      n == proc[p].num
  IN /\ At(p, "claim")
     /\ phase[n] = "available"
     /\ ~HasNumber(s)
     /\ phase' = [phase EXCEPT ![n] = "assigned"]
     /\ tenant' = [tenant EXCEPT ![n] = s]
     /\ IF IsNext(proc[p].seen, "number_assigned")
          THEN proc' = [proc EXCEPT ![p].at = "advance"]
          ELSE Done(p)
     /\ UNCHANGED <<subVars, account, crashes>>

(* Slip: the number of rows that were updated is not looked at.            *)
LoseClaimUnseen(p) ==
  /\ At(p, "claim")
  /\ phase[proc[p].num] # "available"
  /\ proc' = [proc EXCEPT ![p].at = "advance"]
  /\ UNCHANGED <<subVars, poolVars, crashes>>

LoseClaim(p) ==
  /\ At(p, "claim")
  /\ phase[proc[p].num] # "available"
  /\ proc' = [proc EXCEPT ![p].at = "find", ![p].num = NoNum, ![p].tries = @ + 1]
  /\ UNCHANGED <<subVars, poolVars, crashes>>

(* The unique index on subscriptionId refuses a second number: the update  *)
(* throws and the handler ends.                                            *)
ClaimCollides(p) ==
  /\ At(p, "claim")
  /\ phase[proc[p].num] = "available"
  /\ HasNumber(proc[p].sub)
  /\ Done(p)
  /\ UNCHANGED <<subVars, poolVars, crashes>>

AdvanceAssigned(p) ==
  /\ At(p, "advance")
  /\ Advance(proc[p].sub, "number_assigned")
  /\ Done(p)
  /\ UNCHANGED <<poolVars, crashes>>

-----------------------------------------------------------------------------
(* releaseNumber: read, provider, write.  The provider answers "gone" with *)
(* success, so a repeated release succeeds and clears a number adrift.     *)
BeginRelease(p, n) ==
  /\ At(p, "idle")
  /\ phase[n] \in {"available", "assigned"}
  /\ Starts(p, "release", NoSub, n, "absent")
  /\ UNCHANGED <<subVars, poolVars, crashes>>

ProviderReleases(p) ==
  /\ At(p, "release")
  /\ held' = [held EXCEPT ![proc[p].num] = FALSE]
  /\ proc' = [proc EXCEPT ![p].at = "unlist"]
  /\ UNCHANGED <<subVars, phase, tenant, adrift, crashes>>

(* Slip: the provider's refusal is not looked at.                          *)
ProviderRefusesUnseen(p) ==
  /\ At(p, "release")
  /\ proc' = [proc EXCEPT ![p].at = "unlist"]
  /\ UNCHANGED <<subVars, poolVars, crashes>>

ProviderRefuses(p) ==
  /\ At(p, "release")
  /\ Done(p)
  /\ UNCHANGED <<subVars, poolVars, crashes>>

(* The number is given back and the answer never reaches us: the provider's *)
(* client catches it and says what it says of a refusal.                   *)
ReleaseUnheard(p) ==
  /\ At(p, "release")
  /\ held' = [held EXCEPT ![proc[p].num] = FALSE]
  /\ adrift' = adrift \cup {proc[p].num}
  /\ Done(p)
  /\ UNCHANGED <<subVars, phase, tenant, crashes>>

(* Slip: the row is marked released and keeps its subscription.            *)
UnlistKeepingTenant(p) ==
  /\ At(p, "unlist")
  /\ phase' = [phase EXCEPT ![proc[p].num] = "released"]
  /\ Done(p)
  /\ UNCHANGED <<subVars, tenant, account, crashes>>

Unlist(p) ==
  /\ At(p, "unlist")
  /\ phase' = [phase EXCEPT ![proc[p].num] = "released"]
  /\ tenant' = [tenant EXCEPT ![proc[p].num] = NoSub]
  /\ Done(p)
  /\ adrift' = adrift \ {proc[p].num}
  /\ UNCHANGED <<subVars, held, crashes>>

(* Slip: the row is written whatever the provider answered.                *)
BuyNumberUnconfirmed(p, n) ==
  /\ At(p, "idle")
  /\ phase[n] = "unlisted"
  /\ Starts(p, "list", NoSub, n, "absent")
  /\ UNCHANGED <<subVars, poolVars, crashes>>

(* provisionIntoPool, one candidate: bought first, recorded second.        *)
BuyNumber(p, n) ==
  /\ At(p, "idle")
  /\ phase[n] = "unlisted"
  /\ ~held[n]
  /\ held' = [held EXCEPT ![n] = TRUE]
  /\ Starts(p, "list", NoSub, n, "absent")
  /\ UNCHANGED <<subVars, phase, tenant, adrift, crashes>>

ListNumber(p) ==
  /\ At(p, "list")
  /\ phase' = [phase EXCEPT ![proc[p].num] = "available"]
  /\ Done(p)
  /\ UNCHANGED <<subVars, tenant, account, crashes>>

(* The row cannot be written, or the purchase was made and its answer lost. *)
ListingFails(p) ==
  /\ At(p, "list")
  /\ Done(p)
  /\ UNCHANGED <<subVars, poolVars, crashes>>

-----------------------------------------------------------------------------
(* advanceSubscriptionsWithApprovedTemplates: candidates are read, then    *)
(* two updates with a WhatsApp send between them, neither of them guarded. *)
(* Slip: candidates are picked by their connection alone.                  *)
BeginTemplatesAnyStatus(p, s) ==
  /\ At(p, "idle")
  /\ connected[s]
  /\ approved[s]
  /\ Starts(p, "templates", s, NoNum, status[s])
  /\ UNCHANGED <<subVars, poolVars, crashes>>

BeginTemplates(p, s) ==
  /\ At(p, "idle")
  /\ status[s] = "number_assigned"
  /\ connected[s]
  /\ approved[s]
  /\ Starts(p, "templates", s, NoNum, status[s])
  /\ UNCHANGED <<subVars, poolVars, crashes>>

(* Slip: the second update is left to the next sweep.                      *)
MarkTemplatesOnly(p) ==
  /\ At(p, "templates")
  /\ Advance(proc[p].sub, "templates_approved")
  /\ Done(p)
  /\ UNCHANGED <<poolVars, crashes>>

MarkTemplates(p) ==
  /\ At(p, "templates")
  /\ Advance(proc[p].sub, "templates_approved")
  /\ proc' = [proc EXCEPT ![p].at = "forwarding", ![p].seen = "templates_approved"]
  /\ UNCHANGED <<poolVars, crashes>>

OpenForwarding(p) ==
  /\ At(p, "forwarding")
  /\ Advance(proc[p].sub, "forwarding_pending")
  /\ Done(p)
  /\ UNCHANGED <<poolVars, crashes>>

(* The voice webhook.  Only a call that finds forwarding_pending through   *)
(* the dialled number goes on to verify; the others change nothing here.   *)
IncomingCall(p, n) ==
  /\ At(p, "idle")
  /\ phase[n] = "assigned"
  /\ status[tenant[n]] = "forwarding_pending"
  /\ Starts(p, "verify", tenant[n], NoNum, "absent")
  /\ UNCHANGED <<subVars, poolVars, crashes>>

(* The compare-and-swap, won or lost.                                      *)
VerifyForwarding(p) ==
  /\ At(p, "verify")
  /\ status[proc[p].sub] = "forwarding_pending"
  /\ Advance(proc[p].sub, "forwarding_verified")
  /\ proc' = [proc EXCEPT ![p].at = "activate", ![p].seen = "forwarding_verified"]
  /\ UNCHANGED <<poolVars, crashes>>

AlreadyVerified(p) ==
  /\ At(p, "verify")
  /\ status[proc[p].sub] # "forwarding_pending"
  /\ Done(p)
  /\ UNCHANGED <<subVars, poolVars, crashes>>

Activate(p) ==
  /\ At(p, "activate")
  /\ Advance(proc[p].sub, "active")
  /\ Done(p)
  /\ UNCHANGED <<poolVars, crashes>>

(* A handler dies of a failed query, or all of them with the container;    *)
(* rows stay.                                                              *)
Crash ==
  /\ crashes < MaxCrashes
  /\ crashes' = crashes + 1
  /\ \E lost \in {Procs} \cup {{p} : p \in Procs} :
       /\ proc' = [p \in Procs |-> IF p \in lost THEN Idle ELSE proc[p]]
       /\ adrift' = adrift \cup {proc[p].num : p \in {q \in lost : At(q, "unlist")}}
  /\ UNCHANGED <<subVars, phase, tenant, held>>

-----------------------------------------------------------------------------
(* What a handler in flight does next.                                     *)
Continue(p) ==
  \/ FinishSign(p) \/ FinishConnect(p) \/ ConnectFails(p)
  \/ FindNumber(p) \/ PoolEmpty(p) \/ ClaimNumber(p) \/ LoseClaim(p)
  \/ ClaimCollides(p) \/ AdvanceAssigned(p)
  \/ ProviderReleases(p) \/ ProviderRefuses(p) \/ ReleaseUnheard(p) \/ Unlist(p)
  \/ ListNumber(p) \/ ListingFails(p)
  \/ MarkTemplates(p) \/ OpenForwarding(p)
  \/ VerifyForwarding(p) \/ AlreadyVerified(p) \/ Activate(p)

(* What starts one.                                                        *)
Begin(p) ==
  \/ \E s \in Subs : BeginSign(p, s) \/ BeginConnect(p, s) \/ BeginAssign(p, s)
  \/ \E n \in Numbers : BeginRelease(p, n) \/ BuyNumber(p, n) \/ IncomingCall(p, n)

TickBegins == \E s \in Subs : SweepAssigns(s) \/ BeginTemplates(Tick, s)

Next ==
  \/ \E s \in Subs : EnsureSubscription(s) \/ TemplateReview(s)
  \/ \E p \in Workers : Begin(p)
  \/ TickBegins
  \/ \E p \in Procs : Continue(p)
  \/ Crash

(* A started handler runs on, and every tick visits each subscription that *)
(* its two sweeps list.                                                    *)
Fairness ==
  /\ \A p \in Procs : WF_vars(Continue(p))
  /\ \A s \in Subs : SF_vars(SweepAssigns(s)) /\ SF_vars(BeginTemplates(Tick, s))

Spec == Init /\ [][Next]_vars
FairSpec == Spec /\ Fairness

-----------------------------------------------------------------------------
(* Every row and every handler is well formed, and a number has a          *)
(* subscription exactly while it is assigned.                              *)
TypeOK ==
  /\ status \in [Subs -> Statuses]
  /\ reached \in [Subs -> SUBSET Milestones]
  /\ connected \in [Subs -> BOOLEAN]
  /\ approved \in [Subs -> BOOLEAN]
  /\ phase \in [Numbers -> {"unlisted", "available", "assigned", "released"}]
  /\ tenant \in [Numbers -> Subs \cup {NoSub}]
  /\ \A n \in Numbers : tenant[n] \in Subs <=> phase[n] = "assigned"
  /\ held \in [Numbers -> BOOLEAN]
  /\ adrift \subseteq Numbers
  /\ proc \in [Procs -> [at : Stations, sub : Subs \cup {NoSub},
                         num : Numbers \cup {NoNum}, seen : Statuses,
                         tries : 0 .. MaxTries]]
  /\ crashes \in 0 .. MaxCrashes

(* However handlers interleave, whatever they read long ago and wherever   *)
(* the app dies, no subscription stands at a status without every earlier  *)
(* milestone having really happened: one is never live unsigned, without a *)
(* number ever assigned, or without a forwarded call.                      *)
NothingSkipped ==
  \A s \in Subs, m \in Milestones :
    Rank(m) <= Rank(status[s]) => m \in reached[s]

(* A client said to have a number does: nobody is moved on by a claim he   *)
(* lost.  Only a release takes his number from under him.                  *)
NumberBehindStatus ==
  \A s \in Subs :
    Rank(status[s]) >= Rank("number_assigned") =>
      HasNumber(s) \/ \E n \in Numbers : phase[n] = "released"

(* A number marked released is no longer billed: no path drops a number    *)
(* from the inventory while the provider still has it on the account, as   *)
(* the header of recall-numbers.ts has it.  (The schema's comment on       *)
(* lastError says that a row can be released and still billed: releasing   *)
(* twice, hearing nothing and dying included, the code lets none be.)      *)
ReleasedIsGivenBack ==
  \A n \in Numbers : phase[n] = "released" => ~held[n]

(* The header refuses the opposite disagreement altogether, "a number we   *)
(* think we own and don't".  It does come about, and only in two ways: a   *)
(* release stands between the provider's consent and its row, or one was   *)
(* consented to and ended without a row, by the handler's death or because *)
(* the answer was lost on the way.  No purchase, claim or race does it.    *)
ListedIsOurs ==
  \A n \in Numbers :
    phase[n] \in {"available", "assigned"} /\ ~held[n] =>
      n \in adrift \/ \E p \in Procs : At(p, "unlist") /\ proc[p].num = n

(* Two statuses are only passed through, and no sweep or webhook looks for *)
(* a client who stands there: whatever overlaps, he has a handler that is  *)
(* about to move him on, and only its death can strand him.                *)
NobodyLeftHalfway ==
  \A s \in Subs :
    /\ status[s] = "templates_approved" =>
         crashes > 0 \/ \E p \in Procs : At(p, "forwarding") /\ proc[p].sub = s
    /\ status[s] = "forwarding_verified" =>
         crashes > 0 \/ \E p \in Procs : At(p, "activate") /\ proc[p].sub = s

(* The pool with all its handlers behaves as NumberLease promises: one     *)
(* number per subscription, one subscription per number, none passed on.   *)
Lease == INSTANCE NumberLease
LeaseSpec == Lease!LeaseSpec

(* A client whose WhatsApp is connected gets a number, unless the pool     *)
(* runs dry on the way.                                                    *)
WaitingClientGetsNumber ==
  \A s \in Subs :
    status[s] = "meta_connected" ~>
      HasNumber(s) \/ status[s] # "meta_connected" \/ Available = {}

(* Claimed by the code's comments, and false.  recall.ts says binding and  *)
(* advancing are two writes in one transaction; if so, a subscription that *)
(* holds a number is only in meta_connected while its claim is running.    *)
BoundMeansAdvanced ==
  \A s \in Subs :
    HasNumber(s) /\ status[s] = "meta_connected" =>
      \E p \in Procs : At(p, "advance") /\ proc[p].sub = s
=============================================================================
