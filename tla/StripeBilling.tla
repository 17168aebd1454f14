---------------------------- MODULE StripeBilling ----------------------------
(***************************************************************************)
(* Buying and losing a product.  A checkout reserves the row of a contract *)
(* and opens a session at Stripe; what became of the session, and of the   *)
(* subscription it starts, is known only from the webhook's events, which  *)
(* may be delivered twice, in any order, and to handlers that run beside   *)
(* each other.  Packs of messages are bought through the same sessions.    *)
(*                                                                         *)
(* The ledger of events is StripeWebhook.  A checkout request is a process *)
(* `desk`; the handler of an event is a worker of the ledger, and `step`   *)
(* says where in the handler it is.                                        *)
(*                                                                         *)
(* One client.  The products he may contract once have one row each.       *)
(* Prices, the Stripe customer, audit rows and the amounts and dates of    *)
(* the mirrored Subscription are left out, and so is the operator, who may *)
(* set any status by hand.                                                 *)
(***************************************************************************)
EXTENDS Integers, FiniteSets

CONSTANTS Contracts,       \* of products that are sold to a client once
          SessionCount,    \* bound: checkout sessions, numbered as they are opened
          Desks,           \* checkout requests running at once
          Units,           \* messages in a pack
          Workers, MaxFaults

Earlier == 0             \* a session from before
Sessions == Earlier .. SessionCount
NoSession == -1
Kinds == {"completed", "expired", "started", "lapsed", "deleted"}
Events == Sessions \X Kinds
NoEvent == <<NoSession, "none">>

ASSUME CountsAreNat == {SessionCount, Units, MaxFaults} \subseteq Nat
ASSUME SomeContract == Contracts # {}

VARIABLES contract,  \* contract -> status of its ClientProduct
          profiles,  \* contracts whose product has been set up
          mirror,    \* contract -> the session whose subscription its row mirrors
          purchase,  \* session -> status of its UsagePackPurchase
          balance,   \* contract -> messages left from packs
          session,   \* session -> what it is for and its state at Stripe
          desk, step,
          alone,     \* sessions that nothing else could touch the contract of
          crossed,   \* sessions activated from a status that had changed meanwhile
          cut,       \* sessions whose handler stopped after activating
          entry, stale, owed, early, worker, faults

rows == <<contract, profiles, mirror, purchase, balance>>
history == <<alone, crossed, cut>>
ledger == <<entry, stale, owed, early, worker, faults>>
vars == <<rows, session, desk, step, history, ledger>>

Hook == INSTANCE StripeWebhook WITH
          Events <- Events, Workers <- Workers,
          MaxFaults <- MaxFaults, NoEvent <- NoEvent,
          entry <- entry, stale <- stale, owed <- owed, early <- early,
          worker <- worker, faults <- faults

First == CHOOSE c \in Contracts : TRUE
Unopened == [state |-> "none", kind |-> "none", contract |-> First]
Idle == [at |-> "idle", contract |-> First, before |-> "none"]

SessionsOf(c) == {s \in Sessions : session[s].state # "none" /\ session[s].contract = c}
IsProduct(s) == session[s].kind = "product"
NextSession == Cardinality({s \in Sessions \ {Earlier} : session[s].state # "none"}) + 1

(* The client may have bought the product before, or tried to, and Stripe's*)
(* answer to that request was lost.                                        *)
Init ==
  \E bought, tried \in {{}, {First}} :
    /\ bought \cap tried = {}
    /\ contract = [c \in Contracts |-> CASE c \in bought -> "active"
                                         [] c \in tried -> "cancelled"
                                         [] OTHER -> "none"]
    /\ profiles = bought
    /\ mirror = [c \in Contracts |-> IF c \in bought THEN Earlier ELSE NoSession]
    /\ purchase = [s \in Sessions |-> "none"]
    /\ balance = [c \in Contracts |-> 0]
    /\ session = [s \in Sessions |->
                    IF s = Earlier /\ bought \cup tried # {}
                      THEN [state |-> IF bought # {} THEN "paid" ELSE "unheard",
                            kind |-> "product", contract |-> First]
                      ELSE Unopened]
    /\ desk = [d \in Desks |-> Idle]
    /\ step = [w \in Workers |-> "start"]
    /\ alone = {Earlier : c \in bought} /\ crossed = {} /\ cut = {}
    /\ Hook!InitWith({Earlier : c \in bought} \X {"completed", "started"})

-----------------------------------------------------------------------------
(* createProductCheckoutSession: look for a row that can be used again,    *)
(* reserve it, and ask Stripe for a session.                               *)
Look(d, c) ==
  /\ desk[d].at = "idle" /\ NextSession \in Sessions
  /\ contract[c] # "active"
  /\ desk' = [desk EXCEPT ![d] = [at |-> "reserve", contract |-> c, before |-> contract[c]]]
  /\ UNCHANGED <<rows, session, step, history, ledger>>

(* The update names only the row's id.  A new row that another request has *)
(* created in between is refused by the unique index.                      *)
Reserve(d) ==
  LET c == desk[d].contract
      refused == desk[d].before = "none" /\ contract[c] # "none"
  IN /\ desk[d].at = "reserve"
     /\ IF refused
          THEN /\ desk' = [desk EXCEPT ![d] = Idle]
               /\ UNCHANGED <<contract, alone>>
          ELSE /\ desk' = [desk EXCEPT ![d].at = "session"]
               /\ contract' = [contract EXCEPT ![c] = "pending"]
               /\ alone' = alone \ SessionsOf(c)
     /\ UNCHANGED <<profiles, mirror, purchase, balance, session, step, crossed, cut, ledger>>

(* Nothing more will come of a session.                                    *)
Over(s) ==
  /\ session[s].state \in {"expired", "ended"}
  /\ \A k \in Kinds \ {"started"} :
       <<s, k>> \notin owed /\ entry[<<s, k>>] \in {"none", "processed"}

Undisturbed(d, c) ==
  /\ contract[c] = "pending"
  /\ \A e \in Desks \ {d} : desk[e].at = "session" => desk[e].contract # c
  /\ \A s \in SessionsOf(c) : IsProduct(s) => Over(s)

SessionOpens(d) ==
  LET c == desk[d].contract
  IN /\ desk[d].at = "session"
     /\ NextSession \in Sessions
     /\ session' = [session EXCEPT ![NextSession] =
                      [state |-> "open", kind |-> "product", contract |-> c]]
     /\ alone' = IF Undisturbed(d, c) THEN alone \cup {NextSession} ELSE alone
     /\ desk' = [desk EXCEPT ![d] = Idle]
     /\ UNCHANGED <<rows, step, crossed, cut, ledger>>

(* Stripe opens a session and nobody gets its address: it can only expire. *)
OpensUnheard(d) ==
  /\ NextSession \in Sessions
  /\ session' = [session EXCEPT ![NextSession] =
                   [state |-> "unheard", kind |-> "product", contract |-> desk[d].contract]]

(* Stripe refuses, or its answer is lost or names no address: the row goes *)
(* back to the status that was read.                                       *)
SessionFails(d) ==
  LET back == IF desk[d].before = "none" THEN "cancelled" ELSE desk[d].before
  IN /\ desk[d].at = "session"
     /\ UNCHANGED session \/ OpensUnheard(d)
     /\ contract' = [contract EXCEPT ![desk[d].contract] = back]
     /\ desk' = [desk EXCEPT ![d] = Idle]
     /\ UNCHANGED <<profiles, mirror, purchase, balance, step, history, ledger>>

(* Slip: the session is opened before the purchase is written down.        *)
PackOpensUnrecorded(c) ==
  /\ contract[c] = "active"
  /\ NextSession \in Sessions
  /\ session' = [session EXCEPT ![NextSession] = [state |-> "open", kind |-> "pack", contract |-> c]]
  /\ UNCHANGED <<rows, desk, step, history, ledger>>

(* createUsagePackCheckout.  The purchase is a row of its own, which only  *)
(* its session leads to; one whose session no answer brings is expired and *)
(* cannot be paid.                                                         *)
PackOpens(c) ==
  /\ contract[c] = "active"
  /\ NextSession \in Sessions
  /\ session' = [session EXCEPT ![NextSession] = [state |-> "open", kind |-> "pack", contract |-> c]]
  /\ purchase' = [purchase EXCEPT ![NextSession] = "pending"]
  /\ UNCHANGED <<contract, profiles, mirror, balance, desk, step, history, ledger>>

-----------------------------------------------------------------------------
(* At Stripe: a session is paid or expires; a subscription starts, and     *)
(* lapses, when charging it is given up, or is deleted.  What comes after  *)
(* that is not followed.                                                   *)
Becomes(s, state, kinds) ==
  /\ session' = [session EXCEPT ![s].state = state]
  /\ Hook!Reports({s} \X kinds)
  /\ UNCHANGED <<rows, desk, step, history>>

Pays(s) ==
  /\ session[s].state = "open"
  /\ Becomes(s, "paid", IF IsProduct(s) THEN {"completed", "started"} ELSE {"completed"})

Abandons(s) ==
  /\ session[s].state \in {"open", "unheard"}
  /\ Becomes(s, "expired", {"expired"})

Ends(s) ==
  /\ session[s].state = "paid" /\ IsProduct(s)
  /\ \E end \in {"lapsed", "deleted"} : Becomes(s, "ended", {end})

-----------------------------------------------------------------------------
(* dispatch.                                                               *)
SessionOf(w) == worker[w].event[1]
ContractOf(w) == session[SessionOf(w)].contract

(* w is to take this step of the handler for such an event.                *)
Handles(w, kinds, s) == Hook!At(w, "apply") /\ worker[w].event[2] \in kinds /\ step[w] = s
HandlesProduct(w, kind, s) == Handles(w, {kind}, s) /\ IsProduct(SessionOf(w))
HandlesPack(w, kind) == Handles(w, {kind}, "start") /\ ~IsProduct(SessionOf(w))

Proceeds(w, s) ==
  /\ step' = [step EXCEPT ![w] = s]
  /\ UNCHANGED ledger

Applied(w) ==
  /\ step' = [step EXCEPT ![w] = "start"]
  /\ Hook!Goes(w, "settle")
  /\ UNCHANGED <<entry, stale, owed, early, faults>>

(* activateClientProductFromCheckout: read, transaction, profile.          *)
ReadForActivation(w) ==
  /\ HandlesProduct(w, "completed", "start")
  /\ IF contract[ContractOf(w)] = "pending" THEN Proceeds(w, "activate") ELSE Applied(w)
  /\ UNCHANGED <<rows, session, desk, history>>

Activate(w) ==
  LET c == ContractOf(w)
  IN /\ HandlesProduct(w, "completed", "activate")
     /\ contract' = [contract EXCEPT ![c] = "active"]
     /\ crossed' = IF contract[c] = "pending" THEN crossed ELSE crossed \cup {SessionOf(w)}
     /\ Proceeds(w, "profile")
     /\ UNCHANGED <<profiles, mirror, purchase, balance, session, desk, alone, cut>>

(* Slip: a product whose profile nothing creates.                          *)
CreateNoProfile(w) ==
  /\ HandlesProduct(w, "completed", "profile")
  /\ Applied(w)
  /\ UNCHANGED <<rows, session, desk, history>>

CreateProfile(w) ==
  /\ HandlesProduct(w, "completed", "profile")
  /\ profiles' = profiles \cup {ContractOf(w)}
  /\ Applied(w)
  /\ UNCHANGED <<contract, mirror, purchase, balance, session, desk, history>>

(* expireClientProductFromCheckout                                         *)
ReadForExpiry(w) ==
  /\ HandlesProduct(w, "expired", "start")
  /\ IF contract[ContractOf(w)] = "pending" THEN Proceeds(w, "cancel") ELSE Applied(w)
  /\ UNCHANGED <<rows, session, desk, history>>

CancelPending(w) ==
  /\ HandlesProduct(w, "expired", "cancel")
  /\ contract' = [contract EXCEPT ![ContractOf(w)] = "cancelled"]
  /\ Applied(w)
  /\ UNCHANGED <<profiles, mirror, purchase, balance, session, desk, history>>

(* syncSubscriptionFromStripe: the upsert by Stripe's id creates the row,  *)
(* whose contract must have no other.                                      *)
Mirrorable(w) == mirror[ContractOf(w)] \in {NoSession, SessionOf(w)}

SyncSubscription(w) ==
  /\ Handles(w, {"started", "lapsed"}, "start")
  /\ Mirrorable(w)
  /\ mirror' = [mirror EXCEPT ![ContractOf(w)] = SessionOf(w)]
  /\ IF worker[w].event[2] = "lapsed" THEN Proceeds(w, "retire") ELSE Applied(w)
  /\ UNCHANGED <<contract, profiles, purchase, balance, session, desk, history>>

SyncRefused(w) ==
  /\ Handles(w, {"started", "lapsed"}, "start")
  /\ ~Mirrorable(w)
  /\ Hook!Reject(w)
  /\ UNCHANGED <<rows, session, desk, step, history, faults>>

(* Slip: the end of the subscription is only mirrored.                     *)
RetireMirrorOnly(w) ==
  /\ Handles(w, {"lapsed"}, "retire") \/ Handles(w, {"deleted"}, "start")
  /\ Applied(w)
  /\ UNCHANGED <<rows, session, desk, history>>

(* retireClientProductForEndedSubscription, called at the end of a sync and *)
(* by deleteSubscriptionFromStripe, whose product is that of the mirrored  *)
(* row or, without one, of the metadata: the same.                         *)
Retire(w) ==
  /\ Handles(w, {"lapsed"}, "retire") \/ Handles(w, {"deleted"}, "start")
  /\ contract' = [contract EXCEPT ![ContractOf(w)] = "cancelled"]
  /\ Applied(w)
  /\ UNCHANGED <<profiles, mirror, purchase, balance, session, desk, history>>

(* Slip: the purchase may have been credited before.                       *)
CreditPackAgain(w) ==
  LET s == SessionOf(w)
  IN /\ HandlesPack(w, "completed")
     /\ purchase' = [purchase EXCEPT ![s] = "credited"]
     /\ balance' = [balance EXCEPT ![ContractOf(w)] = @ + Units]
     /\ Applied(w)
     /\ UNCHANGED <<contract, profiles, mirror, session, desk, history>>

(* creditUsagePackFromCheckout: one transaction.                           *)
CreditPack(w) ==
  LET s == SessionOf(w)
  IN /\ HandlesPack(w, "completed")
     /\ IF purchase[s] = "pending"
          THEN /\ purchase' = [purchase EXCEPT ![s] = "credited"]
               /\ balance' = [balance EXCEPT ![ContractOf(w)] = @ + Units]
          ELSE UNCHANGED <<purchase, balance>>
     /\ Applied(w)
     /\ UNCHANGED <<contract, profiles, mirror, session, desk, history>>

ExpirePack(w) ==
  LET s == SessionOf(w)
  IN /\ HandlesPack(w, "expired")
     /\ purchase' = [purchase EXCEPT ![s] = IF @ = "pending" THEN "expired" ELSE @]
     /\ Applied(w)
     /\ UNCHANGED <<contract, profiles, mirror, balance, session, desk, history>>

(* consumeMessageAllowance once the month's allowance is used up.          *)
Spend(c) ==
  /\ balance[c] > 0
  /\ balance' = [balance EXCEPT ![c] = @ - 1]
  /\ UNCHANGED <<contract, profiles, mirror, purchase, session, desk, step, history, ledger>>

-----------------------------------------------------------------------------
Dispatch(w) ==
  \/ ReadForActivation(w) \/ Activate(w) \/ CreateProfile(w)
  \/ ReadForExpiry(w) \/ CancelPending(w)
  \/ SyncSubscription(w) \/ SyncRefused(w) \/ Retire(w)
  \/ CreditPack(w) \/ ExpirePack(w)

Receives(e) ==
  /\ Hook!AnswerDuplicate(e) \/ \E w \in Workers : Hook!Deliver(w, e)
  /\ UNCHANGED <<rows, session, desk, step, history>>

Closes(w) == Hook!Settle(w) /\ UNCHANGED <<rows, session, desk, step, history>>

ClosesUnheard(w) == Hook!SettleUnheard(w) /\ UNCHANGED <<rows, session, desk, step, history>>

(* The handler throws, or its process ends: what it has written stays.     *)
Stops(w) ==
  /\ Hook!Throws(w) \/ Hook!Dies(w)
  /\ step' = [step EXCEPT ![w] = "start"]
  /\ cut' = IF step[w] = "profile" THEN cut \cup {SessionOf(w)} ELSE cut
  /\ UNCHANGED <<rows, session, desk, alone, crossed>>

(* The request ends between two of its steps, or before Stripe's answer.   *)
DeskDies(d) ==
  /\ desk[d].at # "idle"
  /\ faults < MaxFaults
  /\ faults' = faults + 1
  /\ UNCHANGED session \/ (desk[d].at = "session" /\ OpensUnheard(d))
  /\ desk' = [desk EXCEPT ![d] = Idle]
  /\ UNCHANGED <<rows, step, history, entry, stale, owed, early, worker>>

Ages(e) == Hook!GrowsStale(e) /\ UNCHANGED <<rows, session, desk, step, history>>

Continue(w) == Dispatch(w) \/ Closes(w)

Next ==
  \/ \E d \in Desks, c \in Contracts : Look(d, c)
  \/ \E d \in Desks : Reserve(d) \/ SessionOpens(d) \/ SessionFails(d) \/ DeskDies(d)
  \/ \E c \in Contracts : PackOpens(c) \/ Spend(c)
  \/ \E s \in Sessions : Pays(s) \/ Abandons(s) \/ Ends(s)
  \/ \E e \in Events : Receives(e) \/ Ages(e)
  \/ \E w \in Workers : Continue(w) \/ ClosesUnheard(w) \/ Stops(w)

(* The row of the contract mirrors an older subscription: the newer one's  *)
(* events can never be processed.                                          *)
Unmirrorable(s, k) ==
  k \in {"started", "lapsed"} /\ mirror[session[s].contract] \notin {NoSession, s}

FailsForGood == \E s \in Sessions, k \in Kinds : Unmirrorable(s, k) /\ <<s, k>> \in owed

(* Stripe keeps delivering what it owes, but not to an endpoint that keeps *)
(* failing, which it disables.  Handlers run on, and ten minutes pass.     *)
Fairness ==
  /\ \A w \in Workers : WF_vars(Continue(w))
  /\ SF_vars(~FailsForGood /\ \E e \in Events : Receives(e))
  /\ WF_vars(\E e \in Events : Ages(e))

Spec == Init /\ [][Next]_vars
FairSpec == Spec /\ Fairness

-----------------------------------------------------------------------------
WellTyped ==
  /\ contract \in [Contracts -> {"none", "pending", "active", "cancelled"}]
  /\ profiles \subseteq Contracts
  /\ mirror \in [Contracts -> Sessions \cup {NoSession}]
  /\ purchase \in [Sessions -> {"none", "pending", "credited", "expired"}]
  /\ balance \in [Contracts -> Nat]
  /\ session \in [Sessions -> [state : {"none", "open", "unheard", "paid", "expired", "ended"},
                               kind : {"none", "product", "pack"}, contract : Contracts]]
  /\ desk \in [Desks -> [at : {"idle", "reserve", "session"}, contract : Contracts,
                         before : {"none", "pending", "cancelled"}]]
  /\ step \in [Workers -> {"start", "activate", "profile", "cancel", "retire"}]
  /\ alone \subseteq Sessions /\ crossed \subseteq Sessions /\ cut \subseteq Sessions
  /\ Hook!WellTyped

PurchasesHaveSessions ==
  \A s \in Sessions : purchase[s] # "none" <=> session[s].kind = "pack"

(* Rows, sessions and handlers are well formed, and every pack being bought*)
(* has its purchase written down.                                          *)
TypeOK == WellTyped /\ PurchasesHaveSessions

(* No event is run by two deliveries at once.                              *)
OneWorkerPerEvent == Hook!OneWorkerPerEvent

(* Who has paid has his product: once the completed session is processed   *)
(* and while its subscription lives, the contract is active and set up.    *)
(* This holds when no other checkout or subscription could touch the       *)
(* contract; for the set-up, when the handler was not cut short.           *)
PaidTurnsOn ==
  \A s \in alone :
    session[s].state = "paid" /\ entry[<<s, "completed">>] = "processed" =>
      /\ contract[session[s].contract] = "active"
      /\ session[s].contract \in profiles \/ s \in cut

(* Who has stopped paying has not: once the end of the subscription is     *)
(* processed the contract is not active, also when the end is heard of     *)
(* before the beginning - unless the two handlers crossed.                 *)
EndedTurnsOff ==
  \A s \in alone \ crossed :
    "processed" \in {entry[<<s, "lapsed">>], entry[<<s, "deleted">>]} =>
      contract[session[s].contract] # "active"

PaidPacks == {s \in Sessions : session[s].kind = "pack" /\ session[s].state = "paid"}

Packs == INSTANCE MessageBalance WITH
           Purchases <- Sessions, Accounts <- Contracts, Units <- Units,
           paid <- {<<s, session[s].contract>> : s \in PaidPacks},
           credited <- {<<s, session[s].contract>> : s \in {t \in Sessions : purchase[t] = "credited"}},
           balance <- balance

(* The purchases and their events implement the promise of MessageBalance: *)
(* through repeated deliveries, throwing handlers and restarts every paid  *)
(* pack is credited at most once, and no unpaid one is.                    *)
PacksCreditedOnce == Packs!Spec

(* A paid session whose event Stripe will not deliver again and nobody is  *)
(* handling has turned the product on: a transient failure does not leave  *)
(* a client who has paid without it.                                       *)
NoPaymentForgotten ==
  \A s \in alone :
    /\ session[s].state = "paid"
    /\ <<s, "completed">> \notin owed
    /\ \A w \in Workers : worker[w].event # <<s, "completed">>
    => contract[session[s].contract] = "active"

Closed(s, k) ==
  \/ <<s, k>> \notin owed /\ entry[<<s, k>>] = "none"
  \/ entry[<<s, k>>] = "processed" \/ <<s, k>> \in early

(* Every event Stripe reports is processed in the end, however often its   *)
(* handler throws: again and again none is left.  The exceptions are the   *)
(* events answered as duplicates while their row was pending, of which a   *)
(* restart makes a loss, and the time when Stripe owes one that is refused *)
(* for good: it may then have disabled the endpoint, and delivers nothing. *)
EventsAreProcessed ==
  []<>(FailsForGood \/ \A s \in Sessions, k \in Kinds : Closed(s, k))
=============================================================================
