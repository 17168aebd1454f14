------------------------ MODULE StripeBillingProofs ------------------------
(***************************************************************************)
(* Proofs about StripeBilling and its ledger StripeWebhook, for any number *)
(* of contracts, sessions, checkout requests, deliveries and faults.       *)
(*                                                                         *)
(* The inductive invariant adds to TypeOK that a worker carries an event,  *)
(* that the row of an event at work is a fresh pending one and the event   *)
(* nobody else's, that sessions are numbered without gaps, and that what   *)
(* Stripe reports as completed was paid.                                   *)
(***************************************************************************)
EXTENDS StripeBilling, FiniteSetTheorems, TLAPS

Carries == \A w \in Workers : worker[w].at # "idle" => worker[w].event \in Events

(* The row of an event at work.                                            *)
Held ==
  \A w \in Workers :
    Hook!Working(w) => entry[worker[w].event] = "pending" /\ worker[w].event \notin stale

Opened == {s \in Sessions \ {Earlier} : session[s].state # "none"}

Numbered == \E n \in Nat : Opened = 1 .. n

UnopenedIsBlank == \A s \in Sessions : session[s].state = "none" => session[s].kind = "none"

Shape == TypeOK /\ Carries /\ Numbered /\ UnopenedIsBlank

(* A completed session is a paid one, and a pack has no end.               *)
Heard(e) == e \in owed \/ \E w \in Workers : ~Hook!At(w, "idle") /\ worker[w].event = e

Truthful ==
  \A s \in Sessions :
    /\ Heard(<<s, "completed">>) => session[s].state \in {"paid", "ended"}
    /\ session[s].kind = "pack" => session[s].state # "ended"

-----------------------------------------------------------------------------
LEMMA Constants ==
  /\ SessionCount \in Nat /\ Units \in Nat /\ MaxFaults \in Nat
  /\ First \in Contracts
  /\ Earlier \in Sessions /\ NoSession \notin Sessions
  /\ NoEvent \notin Events
<1>1. SessionCount \in Nat /\ Units \in Nat /\ MaxFaults \in Nat
  BY CountsAreNat
<1>2. First \in Contracts
  BY SomeContract DEF First
<1>3. Earlier \in Sessions /\ NoSession \notin Sessions
  BY <1>1 DEF Sessions, Earlier, NoSession
<1>4. NoEvent \notin Events
  BY <1>3 DEF NoEvent, Events
<1> QED
  BY <1>1, <1>2, <1>3, <1>4

LEMMA EventsArePairs ==
  /\ \A s \in Sessions, k \in Kinds : <<s, k>> \in Events
  /\ \A e \in Events : e[1] \in Sessions /\ e[2] \in Kinds /\ e = <<e[1], e[2]>>
BY DEF Events

(* The session opened next has not been opened.                            *)
LEMMA NextIsNew ==
  ASSUME Numbered, UnopenedIsBlank, NextSession \in Sessions
  PROVE  /\ NextSession \in Sessions \ {Earlier}
         /\ session[NextSession].state = "none" /\ session[NextSession].kind = "none"
         /\ Opened \cup {NextSession} = 1 .. NextSession /\ NextSession \in Nat
<1>1. PICK n \in Nat : Opened = 1 .. n
  BY DEF Numbered
<1>2. Cardinality(1 .. n) = n
  BY <1>1, FS_Interval
<1>3. NextSession = n + 1
  BY <1>1, <1>2 DEF NextSession, Opened
<1>4. NextSession \notin Opened /\ NextSession # Earlier
  BY <1>1, <1>3 DEF Earlier
<1>5. session[NextSession].state = "none"
  BY <1>4 DEF Opened
<1> QED
  BY <1>1, <1>3, <1>4, <1>5 DEF UnopenedIsBlank

-----------------------------------------------------------------------------
LEMMA InitShape == Init => Shape
<1> SUFFICES ASSUME Init PROVE Shape
  OBVIOUS
<1> USE Constants
<1> PICK bought \in {{}, {First}}, tried \in {{}, {First}} :
      /\ bought \cap tried = {}
      /\ contract = [c \in Contracts |-> CASE c \in bought -> "active"
                                           [] c \in tried -> "cancelled"
                                           [] OTHER -> "none"]
      /\ profiles = bought
      /\ mirror = [c \in Contracts |-> IF c \in bought THEN Earlier ELSE NoSession]
      /\ purchase = [s \in Sessions |-> "none"]
      /\ balance = [c \in Contracts |-> 0]
      /\ session = [s \in Sessions |->
                      IF s = Earlier /\ bought \cup tried # {}
                        THEN [state |-> IF bought # {} THEN "paid" ELSE "unheard",
                              kind |-> "product", contract |-> First]
                        ELSE Unopened]
      /\ desk = [d \in Desks |-> Idle]
      /\ step = [w \in Workers |-> "start"]
      /\ alone = {Earlier : c \in bought} /\ crossed = {} /\ cut = {}
      /\ Hook!InitWith({Earlier : c \in bought} \X {"completed", "started"})
  BY DEF Init
<1>1. contract \in [Contracts -> {"none", "pending", "active", "cancelled"}]
  OBVIOUS
<1>2. profiles \subseteq Contracts /\ mirror \in [Contracts -> Sessions \cup {NoSession}]
  OBVIOUS
<1>3. session \in [Sessions -> [state : {"none", "open", "unheard", "paid", "expired", "ended"},
                                kind : {"none", "product", "pack"}, contract : Contracts]]
  BY DEF Unopened
<1>4. desk \in [Desks -> [at : {"idle", "reserve", "session"}, contract : Contracts,
                          before : {"none", "pending", "cancelled"}]]
  BY DEF Idle
<1>5. /\ purchase \in [Sessions -> {"none", "pending", "credited", "expired"}]
      /\ balance \in [Contracts -> Nat]
      /\ step \in [Workers -> {"start", "activate", "profile", "cancel", "retire"}]
  OBVIOUS
<1>6. alone \subseteq Sessions /\ crossed \subseteq Sessions /\ cut \subseteq Sessions
  OBVIOUS
<1>7. Hook!WellTyped
  BY DEF Hook!WellTyped, Hook!InitWith, Hook!Idle, Hook!Statuses, Hook!Stations
<1>8. WellTyped
  BY ONLY <1>1, <1>2, <1>3, <1>4, <1>5, <1>6, <1>7 DEF WellTyped
<1>9. PurchasesHaveSessions
  BY DEF PurchasesHaveSessions, Unopened
<1>10. Carries
  BY DEF Carries, Hook!InitWith, Hook!Idle
<1>11. Opened = 1 .. 0
  BY DEF Opened, Unopened
<1>12. Numbered /\ UnopenedIsBlank
  BY <1>11 DEF Numbered, UnopenedIsBlank, Unopened
<1> QED
  BY <1>8, <1>9, <1>10, <1>12 DEF Shape, TypeOK

-----------------------------------------------------------------------------
(* What a step of the whole does to the ledger.                            *)
WorkerStep(w) ==
  \/ Hook!At(w, "apply") /\ Hook!Goes(w, "settle") /\ UNCHANGED <<entry, stale, owed, early, faults>>
  \/ Hook!Settle(w) \/ Hook!SettleUnheard(w)
  \/ Hook!Reject(w) /\ UNCHANGED faults
  \/ Hook!Throws(w) \/ Hook!Dies(w)

(* All but the reports of Stripe.                                          *)
QuietLedger ==
  \/ UNCHANGED ledger
  \/ faults < MaxFaults /\ faults' = faults + 1 /\ UNCHANGED <<entry, stale, owed, early, worker>>
  \/ \E e \in Events : Hook!AnswerDuplicate(e) \/ Hook!GrowsStale(e)
  \/ \E w \in Workers, e \in Events : Hook!Deliver(w, e)
  \/ \E w \in Workers : WorkerStep(w)

LedgerNext == QuietLedger \/ \E happened \in SUBSET Events : Hook!Reports(happened)

(* Something happens to a session at Stripe.                               *)
MovesOn(s) == Pays(s) \/ Abandons(s) \/ Ends(s)

LEMMA MovesOnReports ==
  ASSUME NEW s \in Sessions, MovesOn(s)
  PROVE  \E kinds \in SUBSET Kinds :
           /\ Hook!Reports({s} \X kinds)
           /\ "completed" \in kinds => session' = [session EXCEPT ![s].state = "paid"]
<1>1. ASSUME NEW kinds \in SUBSET Kinds, NEW state, Becomes(s, state, kinds),
             "completed" \in kinds => state = "paid"
      PROVE  \E ks \in SUBSET Kinds :
               /\ Hook!Reports({s} \X ks)
               /\ "completed" \in ks => session' = [session EXCEPT ![s].state = "paid"]
  BY <1>1 DEF Becomes
<1> USE DEF Kinds
<1>2. CASE Pays(s)
  <2> DEFINE kinds == IF IsProduct(s) THEN {"completed", "started"} ELSE {"completed"}
  <2>1. kinds \in SUBSET Kinds
    OBVIOUS
  <2>2. Becomes(s, "paid", kinds)
    BY <1>2 DEF Pays
  <2> HIDE DEF kinds
  <2> QED
    BY <1>1, <2>1, <2>2
<1>3. CASE Abandons(s)
  <2>1. Becomes(s, "expired", {"expired"})
    BY <1>3 DEF Abandons
  <2> QED
    BY <1>1, <2>1
<1>4. CASE Ends(s)
  <2>1. PICK end \in {"lapsed", "deleted"} : Becomes(s, "ended", {end})
    BY <1>4 DEF Ends
  <2>2. {end} \in SUBSET Kinds /\ "completed" \notin {end}
    OBVIOUS
  <2> QED
    BY <1>1, <2>1, <2>2
<1> QED
  BY <1>2, <1>3, <1>4 DEF MovesOn

LEMMA OnlyStripeReports == [Next]_vars => QuietLedger \/ \E s \in Sessions : MovesOn(s)
<1> SUFFICES ASSUME [Next]_vars PROVE QuietLedger \/ \E s \in Sessions : MovesOn(s)
  OBVIOUS
<1> USE DEF ledger, QuietLedger
<1>1. ASSUME NEW d \in Desks, NEW c \in Contracts, Look(d, c) PROVE UNCHANGED ledger
  BY <1>1 DEF Look
<1>2. ASSUME NEW d \in Desks, Reserve(d) \/ SessionOpens(d) \/ SessionFails(d) PROVE UNCHANGED ledger
  BY <1>2 DEF Reserve, SessionOpens, SessionFails
<1>3. ASSUME NEW d \in Desks, DeskDies(d) PROVE QuietLedger
  BY <1>3 DEF DeskDies
<1>4. ASSUME NEW c \in Contracts, PackOpens(c) \/ Spend(c) PROVE UNCHANGED ledger
  BY <1>4 DEF PackOpens, Spend
<1>5. ASSUME NEW s \in Sessions, Pays(s) \/ Abandons(s) \/ Ends(s) PROVE MovesOn(s)
  BY <1>5 DEF MovesOn
<1>6. ASSUME NEW e \in Events, Receives(e) \/ Ages(e) PROVE QuietLedger
  BY <1>6 DEF Receives, Ages
<1>7. ASSUME NEW w \in Workers, Dispatch(w) PROVE QuietLedger
  <2>1. UNCHANGED ledger \/ WorkerStep(w)
    BY <1>7 DEF Dispatch, ReadForActivation, Activate, CreateProfile, ReadForExpiry, CancelPending,
                SyncSubscription, SyncRefused, Retire, CreditPack, ExpirePack, Handles,
                HandlesProduct, HandlesPack, Proceeds, Applied, WorkerStep
  <2> QED
    BY <2>1
<1>8. ASSUME NEW w \in Workers, Closes(w) \/ ClosesUnheard(w) \/ Stops(w) PROVE QuietLedger
  BY <1>8 DEF Closes, ClosesUnheard, Stops, WorkerStep
<1>9. CASE UNCHANGED vars
  BY <1>9 DEF vars
<1> QED
  BY <1>1, <1>2, <1>3, <1>4, <1>5, <1>6, <1>7, <1>8, <1>9 DEF Next, Continue

LEMMA StepIsLedgerStep == [Next]_vars => LedgerNext
<1> SUFFICES ASSUME NEW s \in Sessions, MovesOn(s) PROVE LedgerNext
  BY OnlyStripeReports DEF LedgerNext
<1>1. PICK kinds \in SUBSET Kinds : Hook!Reports({s} \X kinds)
  BY MovesOnReports
<1>2. {s} \X kinds \in SUBSET Events
  BY DEF Events
<1> QED
  BY <1>1, <1>2 DEF LedgerNext

(* What a worker's step does to the workers.                               *)
LEMMA WorkerMoves ==
  ASSUME Hook!WellTyped, NEW w \in Workers, WorkerStep(w)
  PROVE  /\ worker'[w] = Hook!Idle \/ (worker[w].at = "apply" /\ worker'[w] = [worker[w] EXCEPT !.at = "settle"])
         /\ \A v \in Workers \ {w} : worker'[v] = worker[v]
         /\ worker' \in [Workers -> [at : Hook!Stations, event : Events \cup {NoEvent}]]
<1>1. CASE Hook!At(w, "apply") /\ Hook!Goes(w, "settle")
  BY <1>1 DEF Hook!WellTyped, Hook!At, Hook!Goes, Hook!Stations
<1>2. CASE Hook!Rests(w)
  BY <1>2 DEF Hook!WellTyped, Hook!Rests, Hook!Idle, Hook!Stations
<1> QED
  BY <1>1, <1>2 DEF WorkerStep, Hook!Settle, Hook!SettleUnheard, Hook!Close, Hook!Reject, Hook!Throws,
                    Hook!Dies

LEMMA DeliveryMoves ==
  ASSUME Hook!WellTyped, NEW w \in Workers, NEW e \in Events, Hook!Deliver(w, e)
  PROVE  /\ worker'[w] = [at |-> "apply", event |-> e]
         /\ \A v \in Workers \ {w} : worker'[v] = worker[v]
         /\ worker' \in [Workers -> [at : Hook!Stations, event : Events \cup {NoEvent}]]
BY DEF Hook!WellTyped, Hook!Deliver, Hook!Stations

LEMMA LedgerTypeStep == Hook!WellTyped /\ Carries /\ LedgerNext => Hook!WellTyped' /\ Carries'
<1> SUFFICES ASSUME Hook!WellTyped, Carries, LedgerNext PROVE Hook!WellTyped' /\ Carries'
  OBVIOUS
<1> USE Constants DEF Hook!Statuses
<1>1. CASE UNCHANGED ledger
  BY <1>1 DEF ledger, Hook!WellTyped, Carries
<1>2. CASE faults < MaxFaults /\ faults' = faults + 1 /\ UNCHANGED <<entry, stale, owed, early, worker>>
  BY <1>2 DEF Hook!WellTyped, Carries
<1>3. ASSUME NEW happened \in SUBSET Events, Hook!Reports(happened) PROVE Hook!WellTyped' /\ Carries'
  BY <1>3 DEF Hook!Reports, Hook!WellTyped, Carries
<1>4. ASSUME NEW e \in Events, Hook!AnswerDuplicate(e) \/ Hook!GrowsStale(e)
      PROVE  Hook!WellTyped' /\ Carries'
  BY <1>4 DEF Hook!AnswerDuplicate, Hook!GrowsStale, Hook!WellTyped, Carries
<1>5. ASSUME NEW w \in Workers, NEW e \in Events, Hook!Deliver(w, e) PROVE Hook!WellTyped' /\ Carries'
  <2>1. Hook!WellTyped'
    BY <1>5, DeliveryMoves DEF Hook!Deliver, Hook!WellTyped
  <2>2. Carries'
    <3> SUFFICES ASSUME NEW v \in Workers, worker'[v].at # "idle" PROVE worker'[v].event \in Events
      BY DEF Carries
    <3>0. worker'[w] = [at |-> "apply", event |-> e]
      BY <1>5, DeliveryMoves
    <3>1. CASE v = w
      BY <3>0, <3>1
    <3>2. CASE v # w
      BY <1>5, <3>2, DeliveryMoves DEF Carries
    <3> QED
      BY <3>1, <3>2
  <2> QED
    BY <2>1, <2>2
<1>6. ASSUME NEW w \in Workers, WorkerStep(w) PROVE Hook!WellTyped' /\ Carries'
  <2>1. Carries'
    <3> SUFFICES ASSUME NEW v \in Workers, worker'[v].at # "idle" PROVE worker'[v].event \in Events
      BY DEF Carries
    <3>0. worker'[w] = Hook!Idle \/ (worker[w].at = "apply" /\ worker'[w] = [worker[w] EXCEPT !.at = "settle"])
      BY <1>6, WorkerMoves
    <3>1. CASE v = w
      BY <3>0, <3>1 DEF Carries, Hook!Idle, Hook!WellTyped
    <3>2. CASE v # w
      BY <1>6, <3>2, WorkerMoves DEF Carries
    <3> QED
      BY <3>1, <3>2
  <2>2. /\ entry' \in [Events -> Hook!Statuses] /\ stale' \subseteq Events
        /\ owed' \subseteq Events /\ early' \subseteq Events /\ faults' \in 0 .. MaxFaults
    BY <1>6 DEF WorkerStep, Hook!Settle, Hook!SettleUnheard, Hook!Close, Hook!Reject, Hook!Throws, Hook!Dies,
                Hook!WellTyped
  <2> QED
    BY <1>6, <2>1, <2>2, WorkerMoves DEF Hook!WellTyped
<1> QED
  BY <1>1, <1>2, <1>3, <1>4, <1>5, <1>6 DEF LedgerNext, QuietLedger

-----------------------------------------------------------------------------
SessionRows == [state : {"none", "open", "unheard", "paid", "expired", "ended"},
                kind : {"none", "product", "pack"}, contract : Contracts]

(* The session a worker at work is about.                                  *)
LEMMA HandlersSession ==
  ASSUME Carries, NEW w \in Workers, Hook!At(w, "apply")
  PROVE  SessionOf(w) \in Sessions /\ worker[w].event = <<SessionOf(w), worker[w].event[2]>>
<1>1. worker[w].event \in Events
  BY DEF Hook!At, Carries
<1> QED
  BY <1>1, EventsArePairs DEF SessionOf

LEMMA DispatchIsAtWork == ASSUME NEW w \in Workers, Dispatch(w) PROVE Hook!At(w, "apply")
BY DEF Dispatch, ReadForActivation, Activate, CreateProfile, ReadForExpiry, CancelPending,
       SyncSubscription, SyncRefused, Retire, CreditPack, ExpirePack, HandlesProduct, HandlesPack, Handles

(* The steps of the ledger alone.                                          *)
Bookkeeping ==
  \/ \E e \in Events : Receives(e) \/ Ages(e)
  \/ \E w \in Workers : Closes(w) \/ ClosesUnheard(w)
  \/ UNCHANGED vars

LEMMA BookkeepingKeeps ==
  Bookkeeping => UNCHANGED <<contract, profiles, mirror, purchase, balance, session, desk, step,
                             alone, crossed, cut>>
BY DEF Bookkeeping, Receives, Ages, Closes, ClosesUnheard, vars, rows, history

LEMMA RowsTypeStep == WellTyped /\ Carries /\ [Next]_vars => WellTyped'
<1> SUFFICES ASSUME WellTyped, Carries, [Next]_vars PROVE WellTyped'
  OBVIOUS
<1>h. Hook!WellTyped'
  BY StepIsLedgerStep, LedgerTypeStep DEF WellTyped
<1> DEFINE Rest == /\ contract' \in [Contracts -> {"none", "pending", "active", "cancelled"}]
                   /\ profiles' \subseteq Contracts
                   /\ mirror' \in [Contracts -> Sessions \cup {NoSession}]
                   /\ purchase' \in [Sessions -> {"none", "pending", "credited", "expired"}]
                   /\ balance' \in [Contracts -> Nat]
                   /\ session' \in [Sessions -> SessionRows]
                   /\ desk' \in [Desks -> [at : {"idle", "reserve", "session"}, contract : Contracts,
                                           before : {"none", "pending", "cancelled"}]]
                   /\ step' \in [Workers -> {"start", "activate", "profile", "cancel", "retire"}]
                   /\ alone' \subseteq Sessions /\ crossed' \subseteq Sessions /\ cut' \subseteq Sessions
<1> SUFFICES Rest
  BY <1>h DEF WellTyped, SessionRows
<1>i. Idle \in [at : {"idle", "reserve", "session"}, contract : Contracts,
                before : {"none", "pending", "cancelled"}]
  BY Constants DEF Idle
<1> USE Constants DEF rows, history
<1>1. ASSUME NEW d \in Desks, NEW c \in Contracts, Look(d, c) PROVE Rest
  <2>1. contract[c] \in {"none", "pending", "cancelled"}
    BY <1>1 DEF Look, WellTyped
  <2> QED
    BY <1>1, <2>1 DEF Look, WellTyped, SessionRows
<1>2. ASSUME NEW d \in Desks, Reserve(d) PROVE Rest
  BY <1>2, <1>i DEF Reserve, WellTyped, SessionRows
<1>3. ASSUME NEW d \in Desks, SessionOpens(d) PROVE Rest
  <2>1. [state |-> "open", kind |-> "product", contract |-> desk[d].contract] \in SessionRows
    BY DEF WellTyped, SessionRows
  <2> QED
    BY <1>3, <1>i, <2>1 DEF SessionOpens, WellTyped, SessionRows
<1>u. ASSUME NEW d \in Desks, UNCHANGED session \/ OpensUnheard(d)
      PROVE  session' \in [Sessions -> SessionRows]
  <2>1. [state |-> "unheard", kind |-> "product", contract |-> desk[d].contract] \in SessionRows
    BY DEF WellTyped, SessionRows
  <2>2. session \in [Sessions -> SessionRows]
    BY DEF WellTyped, SessionRows
  <2> QED
    BY <1>u, <2>1, <2>2 DEF OpensUnheard
<1>4. ASSUME NEW d \in Desks, SessionFails(d) PROVE Rest
  <2>1. session' \in [Sessions -> SessionRows]
    BY <1>4, <1>u DEF SessionFails
  <2> QED
    BY <1>4, <1>i, <2>1 DEF SessionFails, WellTyped
<1>5. ASSUME NEW c \in Contracts, PackOpens(c) PROVE Rest
  BY <1>5 DEF PackOpens, WellTyped, SessionRows
<1>6. ASSUME NEW s \in Sessions, Pays(s) \/ Abandons(s) \/ Ends(s) PROVE Rest
  <2>1. PICK state \in {"paid", "expired", "ended"} : session' = [session EXCEPT ![s].state = state]
    BY <1>6 DEF Pays, Abandons, Ends, Becomes
  <2>2. session' \in [Sessions -> SessionRows]
    BY <2>1 DEF WellTyped, SessionRows
  <2> QED
    BY <1>6, <2>2 DEF Pays, Abandons, Ends, Becomes, WellTyped
<1>7. ASSUME NEW w \in Workers, Dispatch(w) PROVE Rest
  <2>t. step' \in [Workers -> {"start", "activate", "profile", "cancel", "retire"}]
    BY <1>7 DEF Dispatch, ReadForActivation, Activate, CreateProfile, ReadForExpiry, CancelPending,
                SyncSubscription, SyncRefused, Retire, CreditPack, ExpirePack, Proceeds, Applied, WellTyped
  <2>s. SessionOf(w) \in Sessions
    <3>1. Hook!At(w, "apply")
      BY <1>7, DispatchIsAtWork
    <3> QED
      BY <3>1, HandlersSession
  <2>c. ContractOf(w) \in Contracts
    BY <2>s DEF ContractOf, WellTyped
  <2>1. CASE ReadForActivation(w) \/ ReadForExpiry(w)
    BY <2>1, <2>t DEF ReadForActivation, ReadForExpiry, WellTyped, SessionRows
  <2>2. CASE Activate(w)
    BY <2>2, <2>t, <2>s DEF Activate, WellTyped, SessionRows
  <2>3. CASE CreateProfile(w)
    BY <2>3, <2>t, <2>c DEF CreateProfile, WellTyped, SessionRows
  <2>4. CASE CancelPending(w) \/ Retire(w)
    BY <2>4, <2>t DEF CancelPending, Retire, WellTyped, SessionRows
  <2>5. CASE SyncSubscription(w)
    BY <2>5, <2>t, <2>s DEF SyncSubscription, WellTyped, SessionRows
  <2>6. CASE SyncRefused(w)
    BY <2>6, <2>t DEF SyncRefused, WellTyped, SessionRows
  <2>7. CASE CreditPack(w)
    <3>1. balance[ContractOf(w)] + Units \in Nat
      BY <2>c DEF WellTyped
    <3>2. balance' \in [Contracts -> Nat]
      BY <2>7, <2>c, <3>1 DEF CreditPack, WellTyped
    <3>3. purchase' \in [Sessions -> {"none", "pending", "credited", "expired"}]
      BY <2>7 DEF CreditPack, WellTyped
    <3> QED
      BY <2>7, <2>t, <3>2, <3>3 DEF CreditPack, WellTyped, SessionRows
  <2>8. CASE ExpirePack(w)
    BY <2>8, <2>t DEF ExpirePack, WellTyped, SessionRows
  <2> QED
    BY <1>7, <2>1, <2>2, <2>3, <2>4, <2>5, <2>6, <2>7, <2>8 DEF Dispatch
<1>8. ASSUME NEW w \in Workers, Stops(w) PROVE Rest
  <2>1. SessionOf(w) \in Sessions
    <3>1. ~Hook!At(w, "idle")
      BY <1>8 DEF Stops, Hook!Throws, Hook!Dies, Hook!Reject, Hook!Working, Hook!At
    <3>2. worker[w].event \in Events
      BY <3>1 DEF Carries, Hook!At
    <3> QED
      BY <3>2, EventsArePairs DEF SessionOf
  <2> QED
    BY <1>8, <2>1 DEF Stops, WellTyped, SessionRows
<1>9. ASSUME NEW c \in Contracts, Spend(c) PROVE Rest
  BY <1>9 DEF Spend, WellTyped, SessionRows
<1>10. ASSUME NEW d \in Desks, DeskDies(d) PROVE Rest
  <2>1. session' \in [Sessions -> SessionRows]
    BY <1>10, <1>u DEF DeskDies
  <2> QED
    BY <1>10, <1>i, <2>1 DEF DeskDies, WellTyped
<1>11. CASE Bookkeeping
  BY <1>11, BookkeepingKeeps DEF WellTyped, SessionRows
<1> QED
  BY <1>1, <1>2, <1>3, <1>4, <1>5, <1>6, <1>7, <1>8, <1>9, <1>10, <1>11 DEF Next, Continue, Bookkeeping

-----------------------------------------------------------------------------
(* What a step does to sessions and purchases.                             *)
UnheardOpens(d) == desk[d].at = "session" /\ OpensUnheard(d) /\ UNCHANGED <<purchase, balance>>

LEMMA SessionsChange ==
  ASSUME WellTyped, [Next]_vars
  PROVE  \/ UNCHANGED <<session, purchase, balance>>
         \/ \E d \in Desks : SessionOpens(d) \/ UnheardOpens(d)
         \/ \E c \in Contracts : PackOpens(c)
         \/ \E s \in Sessions : MovesOn(s)
         \/ \E w \in Workers : CreditPack(w) \/ ExpirePack(w)
         \/ \E c \in Contracts : Spend(c)
<1> DEFINE Goal == \/ UNCHANGED <<session, purchase, balance>>
                   \/ \E d \in Desks : SessionOpens(d) \/ UnheardOpens(d)
                   \/ \E c \in Contracts : PackOpens(c)
                   \/ \E s \in Sessions : MovesOn(s)
                   \/ \E w \in Workers : CreditPack(w) \/ ExpirePack(w)
                   \/ \E c \in Contracts : Spend(c)
<1> USE DEF rows
<1>1. ASSUME NEW d \in Desks, NEW c \in Contracts, Look(d, c) PROVE Goal
  BY <1>1 DEF Look
<1>2. ASSUME NEW d \in Desks, Reserve(d) \/ SessionFails(d) \/ DeskDies(d) PROVE Goal
  BY <1>2 DEF Reserve, SessionFails, DeskDies, UnheardOpens
<1>3. ASSUME NEW w \in Workers, Dispatch(w) PROVE Goal
  <2>1. CASE CreditPack(w) \/ ExpirePack(w)
    BY <2>1
  <2> QED
    BY <1>3, <2>1 DEF Dispatch, ReadForActivation, Activate, CreateProfile, ReadForExpiry, CancelPending,
                      SyncSubscription, SyncRefused, Retire
<1>4. ASSUME NEW w \in Workers, Stops(w) PROVE Goal
  BY <1>4 DEF Stops
<1>5. CASE Bookkeeping
  BY <1>5, BookkeepingKeeps
<1>6. ASSUME NEW s \in Sessions, Pays(s) \/ Abandons(s) \/ Ends(s) PROVE Goal
  BY <1>6 DEF MovesOn
<1> QED
  BY <1>1, <1>2, <1>3, <1>4, <1>5, <1>6 DEF Next, Continue, Bookkeeping

(* A session that is opened.                                               *)
LEMMA OpeningKeepsShape ==
  ASSUME Shape, NEW state \in {"open", "unheard"}, NEW kind \in {"product", "pack"},
         NEW c \in Contracts, NextSession \in Sessions,
         session' = [session EXCEPT ![NextSession] = [state |-> state, kind |-> kind, contract |-> c]]
  PROVE  Numbered' /\ UnopenedIsBlank'
<1>1. /\ NextSession \in Sessions \ {Earlier} /\ NextSession \in Nat
      /\ Opened \cup {NextSession} = 1 .. NextSession
  BY NextIsNew DEF Shape
<1>2. session'[NextSession] = [state |-> state, kind |-> kind, contract |-> c]
      /\ \A s \in Sessions \ {NextSession} : session'[s] = session[s]
  BY DEF Shape, TypeOK, WellTyped
<1>3. Opened' = Opened \cup {NextSession}
  BY <1>1, <1>2 DEF Opened
<1>4. Numbered'
  BY <1>1, <1>3 DEF Numbered
<1>5. UnopenedIsBlank'
  BY <1>2 DEF Shape, UnopenedIsBlank
<1> QED
  BY <1>4, <1>5

(* Only its state changes, and only an open one is paid.                   *)
LEMMA MovesOnInState ==
  ASSUME WellTyped, NEW s \in Sessions, MovesOn(s)
  PROVE  /\ session[s].state \in {"open", "unheard", "paid"}
         /\ session'[s].state \in {"paid", "expired", "ended"}
         /\ session'[s].state = "paid" => session[s].state = "open"
         /\ session'[s].kind = session[s].kind /\ session'[s].contract = session[s].contract
         /\ session'[s].state = "ended" => session[s].kind = "product"
         /\ session[s].state = "paid" => session'[s].state = "ended"
         /\ \A t \in Sessions \ {s} : session'[t] = session[t]
         /\ purchase' = purchase /\ balance' = balance
<1>1. PICK state \in {"paid", "expired", "ended"} :
        /\ session' = [session EXCEPT ![s].state = state]
        /\ session[s].state \in {"open", "unheard", "paid"} /\ UNCHANGED rows
        /\ state = "ended" => session[s].kind = "product"
        /\ state = "paid" => session[s].state = "open"
        /\ session[s].state = "paid" => state = "ended"
  BY DEF MovesOn, Pays, Abandons, Ends, Becomes, IsProduct
<1> QED
  BY <1>1 DEF WellTyped, rows

LEMMA ShapeStep == Shape /\ [Next]_vars => Shape'
<1> SUFFICES ASSUME Shape, [Next]_vars PROVE Shape'
  OBVIOUS
<1>1. WellTyped' /\ Carries'
  BY RowsTypeStep, StepIsLedgerStep, LedgerTypeStep DEF Shape, TypeOK, WellTyped
<1> SUFFICES PurchasesHaveSessions' /\ Numbered' /\ UnopenedIsBlank'
  BY <1>1 DEF Shape, TypeOK
<1> USE DEF Opened
<1>2. CASE UNCHANGED <<session, purchase, balance>>
  BY <1>2 DEF Shape, TypeOK, PurchasesHaveSessions, Numbered, UnopenedIsBlank
<1>3. ASSUME NEW d \in Desks, SessionOpens(d) \/ UnheardOpens(d)
      PROVE  PurchasesHaveSessions' /\ Numbered' /\ UnopenedIsBlank'
  <2>0. NextSession \in Sessions /\ purchase' = purchase /\ desk[d].contract \in Contracts
    BY <1>3 DEF SessionOpens, UnheardOpens, OpensUnheard, rows, Shape, TypeOK, WellTyped
  <2>1. PICK state \in {"open", "unheard"} :
          session' = [session EXCEPT ![NextSession] =
                        [state |-> state, kind |-> "product", contract |-> desk[d].contract]]
    BY <1>3 DEF SessionOpens, UnheardOpens, OpensUnheard
  <2>2. Numbered' /\ UnopenedIsBlank'
    BY <2>0, <2>1, OpeningKeepsShape
  <2>3. session[NextSession].kind = "none"
    BY <2>0, NextIsNew DEF Shape
  <2>4. purchase[NextSession] = "none"
    BY <2>0, <2>3 DEF Shape, TypeOK, PurchasesHaveSessions
  <2>5. PurchasesHaveSessions'
    BY <2>0, <2>1, <2>4 DEF Shape, TypeOK, WellTyped, PurchasesHaveSessions
  <2> QED
    BY <2>2, <2>5
<1>4. ASSUME NEW c \in Contracts, PackOpens(c)
      PROVE  PurchasesHaveSessions' /\ Numbered' /\ UnopenedIsBlank'
  <2>1. /\ NextSession \in Sessions /\ purchase' = [purchase EXCEPT ![NextSession] = "pending"]
        /\ session' = [session EXCEPT ![NextSession] = [state |-> "open", kind |-> "pack", contract |-> c]]
    BY <1>4 DEF PackOpens
  <2>2. Numbered' /\ UnopenedIsBlank'
    BY <2>1, OpeningKeepsShape
  <2>3. PurchasesHaveSessions'
    BY <2>1 DEF Shape, TypeOK, WellTyped, PurchasesHaveSessions
  <2> QED
    BY <2>2, <2>3
<1>5. ASSUME NEW s \in Sessions, MovesOn(s)
      PROVE  PurchasesHaveSessions' /\ Numbered' /\ UnopenedIsBlank'
  <2>1. /\ session[s].state # "none" /\ session'[s].state # "none" /\ session'[s].kind = session[s].kind
        /\ \A t \in Sessions \ {s} : session'[t] = session[t]
        /\ purchase' = purchase
    BY <1>5, MovesOnInState DEF Shape, TypeOK
  <2>2. Opened' = Opened
    BY <2>1
  <2>3. Numbered'
    BY <2>2 DEF Shape, Numbered
  <2> QED
    BY <2>1, <2>3 DEF Shape, TypeOK, PurchasesHaveSessions, UnopenedIsBlank
<1>6. ASSUME NEW w \in Workers, CreditPack(w) \/ ExpirePack(w)
      PROVE  PurchasesHaveSessions' /\ Numbered' /\ UnopenedIsBlank'
  <2>1. session' = session
    BY <1>6 DEF CreditPack, ExpirePack
  <2>2. \A s \in Sessions : purchase'[s] = "none" <=> purchase[s] = "none"
    BY <1>6 DEF CreditPack, ExpirePack, Shape, TypeOK, WellTyped
  <2> QED
    BY <2>1, <2>2 DEF Shape, TypeOK, PurchasesHaveSessions, Numbered, UnopenedIsBlank
<1>7. ASSUME NEW c \in Contracts, Spend(c)
      PROVE  PurchasesHaveSessions' /\ Numbered' /\ UnopenedIsBlank'
  BY <1>7 DEF Spend, Shape, TypeOK, PurchasesHaveSessions, Numbered, UnopenedIsBlank
<1>8. WellTyped
  BY DEF Shape, TypeOK
<1> QED
  BY <1>2, <1>3, <1>4, <1>5, <1>6, <1>7, <1>8, SessionsChange

(* Rows, sessions, handlers and the ledger stay well formed, and every pack*)
(* being bought has its purchase written down.                             *)
THEOREM TypeCorrect == Spec => []TypeOK
<1>1. Shape => TypeOK
  BY DEF Shape
<1> QED
  BY <1>1, InitShape, ShapeStep, PTL DEF Spec

-----------------------------------------------------------------------------
LEMMA HeldStep == Hook!WellTyped /\ Carries /\ Held /\ Hook!OneWorkerPerEvent /\ LedgerNext
                    => Held' /\ Hook!OneWorkerPerEvent'
<1> SUFFICES ASSUME Hook!WellTyped, Carries, Held, Hook!OneWorkerPerEvent, LedgerNext
             PROVE  Held' /\ Hook!OneWorkerPerEvent'
  OBVIOUS
<1> USE DEF Hook!Working, Hook!At
<1>1. CASE UNCHANGED ledger
  BY <1>1 DEF ledger, Held, Hook!OneWorkerPerEvent
<1>2. CASE UNCHANGED <<entry, stale, owed, early, worker>>
  BY <1>2 DEF Held, Hook!OneWorkerPerEvent
<1>3. ASSUME NEW happened \in SUBSET Events, Hook!Reports(happened)
      PROVE  Held' /\ Hook!OneWorkerPerEvent'
  BY <1>3 DEF Hook!Reports, Held, Hook!OneWorkerPerEvent
<1>4. ASSUME NEW e \in Events, Hook!AnswerDuplicate(e) \/ Hook!GrowsStale(e)
      PROVE  Held' /\ Hook!OneWorkerPerEvent'
  BY <1>4 DEF Hook!AnswerDuplicate, Hook!GrowsStale, Held, Hook!OneWorkerPerEvent
<1>5. ASSUME NEW w \in Workers, NEW e \in Events, Hook!Deliver(w, e)
      PROVE  Held' /\ Hook!OneWorkerPerEvent'
  <2>1. /\ worker'[w] = [at |-> "apply", event |-> e]
        /\ \A v \in Workers \ {w} : worker'[v] = worker[v]
    BY <1>5, DeliveryMoves
  <2>2. /\ entry[e] = "none" \/ entry[e] = "failed" \/ (entry[e] = "pending" /\ e \in stale)
        /\ entry' = [entry EXCEPT ![e] = "pending"] /\ stale' = stale \ {e}
    BY <1>5 DEF Hook!Deliver, Hook!Claimable
  <2>3. \A v \in Workers : Hook!Working(v) => worker[v].event # e
    BY <2>2 DEF Held
  <2>4. Held'
    BY <2>1, <2>2, <2>3 DEF Held, Hook!WellTyped
  <2>5. Hook!OneWorkerPerEvent'
    BY <2>1, <2>3 DEF Hook!OneWorkerPerEvent
  <2> QED
    BY <2>4, <2>5
<1>6. ASSUME NEW w \in Workers, WorkerStep(w) PROVE Held' /\ Hook!OneWorkerPerEvent'
  <2>1. /\ worker'[w] = Hook!Idle
           \/ (worker[w].at = "apply" /\ worker'[w] = [worker[w] EXCEPT !.at = "settle"])
        /\ \A v \in Workers \ {w} : worker'[v] = worker[v]
    BY <1>6, WorkerMoves
  <2>2. Hook!OneWorkerPerEvent'
    BY <2>1 DEF Hook!OneWorkerPerEvent, Hook!Idle, Hook!WellTyped
  <2>3. stale' = stale
    BY <1>6 DEF WorkerStep, Hook!Settle, Hook!SettleUnheard, Hook!Close, Hook!Reject, Hook!Throws, Hook!Dies
  <2>4. ASSUME entry' = entry PROVE Held'
    BY <2>1, <2>3, <2>4 DEF Held, Hook!Idle, Hook!WellTyped
  <2>5. ASSUME Hook!Working(w), worker'[w] = Hook!Idle,
               \A e \in Events \ {worker[w].event} : entry'[e] = entry[e]
        PROVE  Held'
    <3> SUFFICES ASSUME NEW v \in Workers, Hook!Working(v)'
                 PROVE  entry'[worker'[v].event] = "pending" /\ worker'[v].event \notin stale'
      BY DEF Held
    <3>1. v # w
      BY <2>5 DEF Hook!Idle
    <3>2. Hook!Working(v) /\ worker'[v] = worker[v]
      BY <2>1, <3>1
    <3>3. worker[v].event \in Events \ {worker[w].event}
      BY <2>5, <3>1, <3>2 DEF Hook!OneWorkerPerEvent, Carries
    <3> QED
      BY <2>3, <2>5, <3>2, <3>3 DEF Held
  <2> QED
    BY <1>6, <2>2, <2>4, <2>5
       DEF WorkerStep, Hook!Settle, Hook!SettleUnheard, Hook!Close, Hook!Reject, Hook!Throws, Hook!Dies,
           Hook!Rests, Hook!WellTyped
<1> QED
  BY <1>1, <1>2, <1>3, <1>4, <1>5, <1>6 DEF LedgerNext, QuietLedger

(* Through repeated deliveries, retries and rows left pending by a restart *)
(* no event is run by two deliveries at once, whatever their number.       *)
THEOREM OneAtATime == Spec => []OneWorkerPerEvent
<1> DEFINE Safe == Held /\ Hook!OneWorkerPerEvent
<1>1. Init => Safe
  BY DEF Init, Hook!InitWith, Hook!Idle, Held, Hook!OneWorkerPerEvent, Hook!Working, Hook!At
<1>2. Shape /\ Safe /\ [Next]_vars => Safe'
  BY HeldStep, StepIsLedgerStep DEF Shape, TypeOK, WellTyped
<1>3. Safe => OneWorkerPerEvent
  BY DEF OneWorkerPerEvent
<1> QED
  BY <1>1, <1>2, <1>3, InitShape, ShapeStep, PTL DEF Spec

-----------------------------------------------------------------------------
(* Stripe's reports aside, an event that is heard of has been before.      *)
LEMMA HeardBefore ==
  ASSUME Hook!WellTyped, QuietLedger, NEW e \in Events, Heard(e)'
  PROVE  Heard(e)
<1> USE DEF Heard, Hook!At
<1>1. CASE UNCHANGED <<owed, worker>>
  BY <1>1
<1>2. ASSUME NEW x \in Events, Hook!AnswerDuplicate(x) \/ Hook!GrowsStale(x) PROVE Heard(e)
  BY <1>2 DEF Hook!AnswerDuplicate, Hook!GrowsStale
<1>3. ASSUME NEW w \in Workers, NEW x \in Events, Hook!Deliver(w, x) PROVE Heard(e)
  <2>1. /\ worker'[w] = [at |-> "apply", event |-> x]
        /\ \A v \in Workers \ {w} : worker'[v] = worker[v]
    BY <1>3, DeliveryMoves
  <2>2. x \in owed /\ owed' = owed
    BY <1>3 DEF Hook!Deliver
  <2> QED
    BY <2>1, <2>2
<1>4. ASSUME NEW w \in Workers, WorkerStep(w) PROVE Heard(e)
  <2>1. /\ worker'[w] = Hook!Idle
           \/ (worker[w].at = "apply" /\ worker'[w] = [worker[w] EXCEPT !.at = "settle"])
        /\ \A v \in Workers \ {w} : worker'[v] = worker[v]
    BY <1>4, WorkerMoves
  <2>2. owed' \subseteq owed
    BY <1>4 DEF WorkerStep, Hook!Settle, Hook!SettleUnheard, Hook!Close, Hook!Reject, Hook!Throws, Hook!Dies
  <2>3. CASE e \in owed'
    BY <2>2, <2>3
  <2>4. ASSUME NEW v \in Workers, worker'[v].at # "idle", worker'[v].event = e PROVE Heard(e)
    <3>1. worker[v].at # "idle" /\ worker[v].event = e
      BY <2>1, <2>4 DEF Hook!Idle, Hook!WellTyped
    <3> QED
      BY <3>1
  <2> QED
    BY <2>3, <2>4
<1> QED
  BY <1>1, <1>2, <1>3, <1>4 DEF QuietLedger, ledger

LEMMA HeardWhenReported ==
  ASSUME NEW happened, Hook!Reports(happened), NEW e, Heard(e)'
  PROVE  Heard(e) \/ e \in happened
BY DEF Heard, Hook!Reports, Hook!At

LEMMA TruthfulStep == Shape /\ Truthful /\ [Next]_vars => Truthful'
<1> SUFFICES ASSUME Shape, Truthful, [Next]_vars PROVE Truthful'
  OBVIOUS
<1> USE EventsArePairs
<1>t. WellTyped /\ Hook!WellTyped
  BY DEF Shape, TypeOK, WellTyped
<1>1. ASSUME NEW s \in Sessions, MovesOn(s) PROVE Truthful'
  <2> SUFFICES ASSUME NEW t \in Sessions
               PROVE  /\ Heard(<<t, "completed">>)' => session'[t].state \in {"paid", "ended"}
                      /\ session'[t].kind = "pack" => session'[t].state # "ended"
    BY DEF Truthful
  <2>1. PICK kinds \in SUBSET Kinds :
          /\ Hook!Reports({s} \X kinds)
          /\ "completed" \in kinds => session' = [session EXCEPT ![s].state = "paid"]
    BY <1>1, MovesOnReports
  <2>2. /\ session[s].state \in {"open", "unheard", "paid"} /\ session'[s].kind = session[s].kind
        /\ session'[s].state = "ended" => session[s].kind = "product"
        /\ session[s].state = "paid" => session'[s].state = "ended"
        /\ \A u \in Sessions \ {s} : session'[u] = session[u]
    BY <1>1, <1>t, MovesOnInState
  <2>3. Heard(<<t, "completed">>)' => Heard(<<t, "completed">>) \/ <<t, "completed">> \in {s} \X kinds
    BY <2>1, HeardWhenReported
  <2>4. CASE t # s
    BY <2>2, <2>3, <2>4 DEF Truthful
  <2>5. CASE t = s
    <3>1. CASE "completed" \in kinds
      BY <1>t, <2>1, <2>2, <2>5, <3>1 DEF WellTyped
    <3>2. CASE "completed" \notin kinds
      BY <2>2, <2>3, <2>5, <3>2 DEF Truthful
    <3> QED
      BY <3>1, <3>2
  <2> QED
    BY <2>4, <2>5
<1>2. CASE QuietLedger /\ ~\E s \in Sessions : MovesOn(s)
  <2>1. \A s \in Sessions : Heard(<<s, "completed">>)' => Heard(<<s, "completed">>)
    BY <1>t, <1>2, HeardBefore DEF Kinds
  <2>2. ASSUME NEW c \in Contracts, NextSession \in Sessions, NEW kind \in {"product", "pack"},
               NEW state \in {"open", "unheard"},
               session' = [session EXCEPT ![NextSession] = [state |-> state, kind |-> kind, contract |-> c]]
        PROVE  Truthful'
    <3>1. session[NextSession].state = "none"
      BY <2>2, NextIsNew DEF Shape
    <3> QED
      BY <2>1, <2>2, <3>1, <1>t DEF Truthful, WellTyped
  <2>3. ASSUME session' = session PROVE Truthful'
    BY <2>1, <2>3 DEF Truthful
  <2>4. ASSUME NEW d \in Desks, SessionOpens(d) \/ UnheardOpens(d) PROVE Truthful'
    <3>1. desk[d].contract \in Contracts
      BY <1>t DEF WellTyped
    <3> QED
      BY <2>2, <2>4, <3>1 DEF SessionOpens, UnheardOpens, OpensUnheard
  <2>5. ASSUME NEW c \in Contracts, PackOpens(c) PROVE Truthful'
    BY <2>2, <2>5 DEF PackOpens
  <2> QED
    BY <1>2, <1>t, <2>3, <2>4, <2>5, SessionsChange DEF CreditPack, ExpirePack, Spend
<1> QED
  BY <1>1, <1>2, OnlyStripeReports
LEMMA TruthfulInit == Init => Truthful
<1> SUFFICES ASSUME Init PROVE Truthful
  OBVIOUS
<1>1. owed = {} /\ \A w \in Workers : worker[w].at = "idle"
  BY DEF Init, Hook!InitWith, Hook!Idle
<1>2. \A s \in Sessions : session[s].kind # "pack"
  BY DEF Init, Unopened
<1> QED
  BY <1>1, <1>2 DEF Truthful, Heard, Hook!At

-----------------------------------------------------------------------------
(* The abstract state of the packs, by the rows it is read from.           *)
PaidPairs == {<<s, session[s].contract>> : s \in PaidPacks}
CreditedPairs == {<<s, session[s].contract>> : s \in {t \in Sessions : purchase[t] = "credited"}}

PacksStutter == UNCHANGED <<PaidPairs, CreditedPairs, balance>>

(* What the pairs are made of.                                             *)
LEMMA PairsStay ==
  ASSUME \A s \in Sessions :
           /\ s \in PaidPacks' <=> s \in PaidPacks
           /\ purchase'[s] = "credited" <=> purchase[s] = "credited"
           /\ s \in PaidPacks \/ purchase[s] = "credited" => session'[s].contract = session[s].contract
  PROVE  PaidPairs' = PaidPairs /\ CreditedPairs' = CreditedPairs
BY DEF PaidPairs, CreditedPairs, PaidPacks

LEMMA CreditingIsPaid ==
  ASSUME Shape, Truthful, NEW w \in Workers, CreditPack(w)
  PROVE  SessionOf(w) \in Sessions /\ (purchase[SessionOf(w)] # "none" => SessionOf(w) \in PaidPacks)
<1> DEFINE s == SessionOf(w)
<1>1. worker[w].at # "idle" /\ worker[w].event[2] = "completed"
  BY DEF CreditPack, HandlesPack, Handles, Hook!At
<1>2. worker[w].event \in Events
  BY <1>1 DEF Shape, Carries
<1>3. s \in Sessions /\ worker[w].event = <<s, "completed">>
  BY <1>1, <1>2, EventsArePairs DEF SessionOf
<1>4. Heard(<<s, "completed">>)
  BY <1>1, <1>3 DEF Heard, Hook!At
<1>5. session[s].state \in {"paid", "ended"} /\ (session[s].kind = "pack" => session[s].state # "ended")
  BY <1>3, <1>4 DEF Truthful
<1> QED
  BY <1>3, <1>5 DEF Shape, TypeOK, PurchasesHaveSessions, PaidPacks

(* Every step of the whole is one of the balance, or none.                 *)
LEMMA OpeningStutters ==
  ASSUME Shape, NEW state \in {"open", "unheard"}, NEW kind \in {"product", "pack"},
         NEW c \in Contracts, NextSession \in Sessions,
         session' = [session EXCEPT ![NextSession] = [state |-> state, kind |-> kind, contract |-> c]],
         \/ purchase' = purchase
         \/ purchase' = [purchase EXCEPT ![NextSession] = "pending"]
  PROVE  PaidPairs' = PaidPairs /\ CreditedPairs' = CreditedPairs
<1>1. session[NextSession].state = "none" /\ session[NextSession].kind = "none"
  BY NextIsNew DEF Shape
<1>2. purchase[NextSession] = "none"
  BY <1>1 DEF Shape, TypeOK, PurchasesHaveSessions
<1>3. /\ session'[NextSession].state # "paid"
      /\ \A s \in Sessions \ {NextSession} : session'[s] = session[s]
      /\ purchase'[NextSession] # "credited"
      /\ \A s \in Sessions \ {NextSession} : purchase'[s] = purchase[s]
  BY <1>2 DEF Shape, TypeOK, WellTyped
<1>4. ASSUME NEW s \in Sessions
      PROVE  /\ s \in PaidPacks' <=> s \in PaidPacks
             /\ purchase'[s] = "credited" <=> purchase[s] = "credited"
             /\ s \in PaidPacks \/ purchase[s] = "credited" => session'[s].contract = session[s].contract
  BY <1>1, <1>2, <1>3 DEF PaidPacks
<1> QED
  BY <1>4, PairsStay

LEMMA PacksMove ==
  ASSUME NEW p \in Sessions, NEW a \in Contracts, Packs!Pay(p, a) \/ Packs!Credit(p, a)
  PROVE  Packs!Next
<1>1. \E q \in Sessions, b \in Contracts : Packs!Pay(q, b) \/ Packs!Credit(q, b)
  <2> WITNESS p \in Sessions, a \in Contracts
  <2> QED
    OBVIOUS
<1> QED
  BY <1>1 DEF Packs!Next

LEMMA MovingIsPaying ==
  ASSUME Shape, Truthful, NEW s \in Sessions, MovesOn(s)
  PROVE  Packs!Next \/ PacksStutter
<1>1. /\ session[s].state \in {"open", "unheard", "paid"}
      /\ session'[s].state \in {"paid", "expired", "ended"}
      /\ session'[s].kind = session[s].kind /\ session'[s].contract = session[s].contract
      /\ session'[s].state = "ended" => session[s].kind = "product"
      /\ session[s].state = "paid" => session'[s].state = "ended"
      /\ \A t \in Sessions \ {s} : session'[t] = session[t]
      /\ purchase' = purchase /\ balance' = balance
  BY MovesOnInState DEF Shape, TypeOK
<1>2. CreditedPairs' = CreditedPairs
  BY <1>1 DEF CreditedPairs
<1>c. \A t \in PaidPacks \cup {s} : session'[t].contract = session[t].contract
  BY <1>1 DEF PaidPacks
<1>3. CASE session'[s].state = "paid" /\ session[s].kind = "pack"
  <2>1. s \notin PaidPacks /\ PaidPacks' = PaidPacks \cup {s}
    BY <1>1, <1>3 DEF PaidPacks
  <2>2. session[s].contract \in Contracts
    BY DEF Shape, TypeOK, WellTyped
  <2>3. \A b \in Contracts : <<s, b>> \notin PaidPairs
    BY <2>1 DEF PaidPairs
  <2>4. PaidPairs' = PaidPairs \cup {<<s, session[s].contract>>}
    BY <1>c, <2>1 DEF PaidPairs
  <2>5. PICK c \in Contracts : c = session[s].contract
    BY <2>2
  <2>6. Packs!Pay(s, c)
    BY <1>1, <1>2, <2>3, <2>4, <2>5 DEF Packs!Pay, PaidPairs, CreditedPairs
  <2>7. Packs!Next
    BY <2>6, PacksMove
  <2> QED
    BY <2>7
<1>4. CASE ~(session'[s].state = "paid" /\ session[s].kind = "pack")
  <2>1. PaidPacks' = PaidPacks
    BY <1>1, <1>4 DEF PaidPacks
  <2>2. PaidPairs' = PaidPairs
    BY <1>c, <2>1 DEF PaidPairs
  <2> QED
    BY <1>1, <1>2, <2>2 DEF PacksStutter
<1> QED
  BY <1>3, <1>4

LEMMA HandlingIsCrediting ==
  ASSUME Shape, Truthful, NEW w \in Workers, CreditPack(w) \/ ExpirePack(w)
  PROVE  Packs!Next \/ PacksStutter
<1> DEFINE s == SessionOf(w)
<1>1. session' = session
  BY DEF CreditPack, ExpirePack
<1>2. PaidPairs' = PaidPairs
  BY <1>1 DEF PaidPairs, PaidPacks
<1>3. ASSUME ExpirePack(w) PROVE PacksStutter
  <2>1. \A t \in Sessions : purchase'[t] = "credited" <=> purchase[t] = "credited"
    BY <1>3 DEF ExpirePack, Shape, TypeOK, WellTyped
  <2>2. CreditedPairs' = CreditedPairs
    BY <1>1, <2>1 DEF CreditedPairs
  <2>3. balance' = balance
    BY <1>3 DEF ExpirePack
  <2> QED
    BY <1>2, <2>2, <2>3 DEF PacksStutter
<1>4. ASSUME CreditPack(w), purchase[s] # "pending" PROVE PacksStutter
  BY <1>1, <1>2, <1>4 DEF CreditPack, PacksStutter, CreditedPairs
<1>5. ASSUME CreditPack(w), purchase[s] = "pending" PROVE Packs!Next
  <2>1. s \in Sessions /\ s \in PaidPacks
    BY <1>5, CreditingIsPaid
  <2>2. /\ purchase' = [purchase EXCEPT ![s] = "credited"]
        /\ balance' = [balance EXCEPT ![session[s].contract] = @ + Units]
    BY <1>5 DEF CreditPack, ContractOf
  <2> HIDE DEF s
  <2>3. session[s].contract \in Contracts
    BY <2>1 DEF Shape, TypeOK, WellTyped
  <2>4. <<s, session[s].contract>> \in PaidPairs
    BY <2>1 DEF PaidPairs
  <2>5. <<s, session[s].contract>> \notin CreditedPairs
    BY <1>5 DEF CreditedPairs
  <2>6. {t \in Sessions : purchase'[t] = "credited"} = {t \in Sessions : purchase[t] = "credited"} \cup {s}
    BY <2>1, <2>2 DEF Shape, TypeOK, WellTyped
  <2>7. CreditedPairs' = CreditedPairs \cup {<<s, session[s].contract>>}
    BY <1>1, <2>6 DEF CreditedPairs
  <2>8. PICK p \in Sessions, c \in Contracts : p = s /\ c = session[s].contract
    BY <2>1, <2>3
  <2>9. Packs!Credit(p, c)
    BY <1>2, <2>2, <2>4, <2>5, <2>7, <2>8 DEF Packs!Credit, PaidPairs, CreditedPairs
  <2> QED
    BY <2>9, PacksMove
<1> QED
  BY <1>3, <1>4, <1>5

LEMMA StepIsPackStep == Shape /\ Truthful /\ [Next]_vars => Packs!Next \/ PacksStutter
<1> SUFFICES ASSUME Shape, Truthful, [Next]_vars PROVE Packs!Next \/ PacksStutter
  OBVIOUS
<1>t. WellTyped
  BY DEF Shape, TypeOK
<1>1. CASE UNCHANGED <<session, purchase, balance>>
  BY <1>1 DEF PacksStutter, PaidPairs, CreditedPairs, PaidPacks
<1>2. ASSUME NEW d \in Desks, SessionOpens(d) \/ UnheardOpens(d) PROVE PacksStutter
  <2>1. /\ NextSession \in Sessions /\ purchase' = purchase /\ balance' = balance
        /\ desk[d].contract \in Contracts
        /\ \E state \in {"open", "unheard"} :
             session' = [session EXCEPT ![NextSession] =
                           [state |-> state, kind |-> "product", contract |-> desk[d].contract]]
    BY <1>t, <1>2 DEF SessionOpens, UnheardOpens, OpensUnheard, rows, WellTyped
  <2> QED
    BY <2>1, OpeningStutters DEF PacksStutter
<1>3. ASSUME NEW c \in Contracts, PackOpens(c) PROVE PacksStutter
  <2>1. /\ NextSession \in Sessions /\ balance' = balance
        /\ purchase' = [purchase EXCEPT ![NextSession] = "pending"]
        /\ session' = [session EXCEPT ![NextSession] =
                         [state |-> "open", kind |-> "pack", contract |-> c]]
    BY <1>3 DEF PackOpens
  <2> QED
    BY <2>1, OpeningStutters DEF PacksStutter
<1>4. ASSUME NEW c \in Contracts, Spend(c) PROVE Packs!Next
  <2>1. Packs!Spend(c)
    BY <1>4 DEF Spend, Packs!Spend, PaidPacks
  <2> QED
    BY <2>1 DEF Packs!Next
<1> QED
  BY <1>t, <1>1, <1>2, <1>3, <1>4, SessionsChange, MovingIsPaying, HandlingIsCrediting

LEMMA InitIsPackInit == Init => Packs!Init
<1> SUFFICES ASSUME Init PROVE Packs!Init
  OBVIOUS
<1>1. /\ \A s \in Sessions : session[s].kind # "pack" /\ purchase[s] # "credited"
      /\ balance = [c \in Contracts |-> 0]
  BY DEF Init, Unopened
<1> QED
  BY <1>1 DEF Packs!Init, PaidPacks

(* However often the event of a paid pack is delivered, and wherever its   *)
(* handlers stop, the balance gets its units at most once, and none that   *)
(* nobody paid for: sessions, purchases and events implement MessageBalance*)
THEOREM PacksImplementBalance == Spec => PacksCreditedOnce
<1>1. Shape /\ Truthful /\ [Next]_vars
        => [Packs!Next]_<<{<<s, session[s].contract>> : s \in PaidPacks},
                          {<<s, session[s].contract>> : s \in {t \in Sessions : purchase[t] = "credited"}},
                          balance>>
  BY StepIsPackStep DEF PacksStutter, PaidPairs, CreditedPairs
<1> QED
  BY <1>1, InitIsPackInit, InitShape, ShapeStep, TruthfulInit, TruthfulStep,
     PTL DEF Spec, PacksCreditedOnce, Packs!Spec
-----------------------------------------------------------------------------
(* What a step does to one row of the ledger, and to one worker.           *)
LEMMA EntryChanges ==
  ASSUME Hook!WellTyped, Carries, Held, LedgerNext, NEW e \in Events
  PROVE  \/ entry'[e] = entry[e]
         \/ e \in owed /\ entry[e] # "processed" /\ entry'[e] = "pending"
         \/ \E w \in Workers :
              /\ Hook!Working(w) /\ worker[w].event = e
              /\ entry'[e] = "failed" \/ (Hook!At(w, "settle") /\ entry'[e] = "processed")
<1> DEFINE Goal == \/ entry'[e] = entry[e]
                   \/ e \in owed /\ entry[e] # "processed" /\ entry'[e] = "pending"
                   \/ \E w \in Workers :
                        /\ Hook!Working(w) /\ worker[w].event = e
                        /\ entry'[e] = "failed" \/ (Hook!At(w, "settle") /\ entry'[e] = "processed")
<1> SUFFICES Goal
  OBVIOUS
<1>1. CASE entry' = entry
  BY <1>1
<1>2. ASSUME NEW w \in Workers, NEW x \in Events, Hook!Deliver(w, x) PROVE Goal
  <2>1. /\ entry' = [entry EXCEPT ![x] = "pending"] /\ x \in owed
        /\ entry[x] # "processed"
    BY <1>2 DEF Hook!Deliver, Hook!Claimable
  <2> QED
    BY <2>1 DEF Hook!WellTyped
<1>3. ASSUME NEW w \in Workers, WorkerStep(w) PROVE Goal
  <2>1. CASE Hook!Close(w)
    <3>1. entry' = [entry EXCEPT ![worker[w].event] = "processed"] /\ Hook!At(w, "settle")
      BY <2>1 DEF Hook!Close
    <3>2. Hook!Working(w)
      BY <3>1 DEF Hook!Working
    <3> QED
      BY <3>1, <3>2 DEF Hook!WellTyped
  <2>2. CASE Hook!Reject(w)
    <3>1. entry' = [entry EXCEPT ![worker[w].event] = "failed"] /\ Hook!Working(w)
      BY <2>2 DEF Hook!Reject
    <3> QED
      BY <3>1 DEF Hook!WellTyped
  <2> QED
    BY <1>1, <1>3, <2>1, <2>2 DEF WorkerStep, Hook!Settle, Hook!SettleUnheard, Hook!Throws, Hook!Dies
<1> QED
  BY <1>1, <1>2, <1>3 DEF LedgerNext, QuietLedger, ledger, Hook!Reports, Hook!AnswerDuplicate, Hook!GrowsStale

LEMMA OwedOnlyByReports == QuietLedger => owed' \subseteq owed
BY DEF QuietLedger, ledger, Hook!AnswerDuplicate, Hook!GrowsStale, Hook!Deliver, WorkerStep, Hook!Settle,
       Hook!SettleUnheard, Hook!Close, Hook!Reject, Hook!Throws, Hook!Dies

LEMMA WorkerChanges ==
  ASSUME WellTyped, [Next]_vars, NEW w \in Workers
  PROVE  \/ worker'[w] = worker[w] /\ step'[w] = step[w]
         \/ worker'[w] = Hook!Idle /\ Hook!At(w, "settle") /\ step'[w] = step[w]
         \/ Stops(w) /\ worker'[w] = Hook!Idle /\ step'[w] = "start"
         \/ Hook!At(w, "idle") /\ worker'[w].at = "apply" /\ step'[w] = step[w]
         \/ Dispatch(w)
<1> DEFINE Goal == \/ worker'[w] = worker[w] /\ step'[w] = step[w]
                   \/ worker'[w] = Hook!Idle /\ Hook!At(w, "settle") /\ step'[w] = step[w]
                   \/ Stops(w) /\ worker'[w] = Hook!Idle /\ step'[w] = "start"
                   \/ Hook!At(w, "idle") /\ worker'[w].at = "apply" /\ step'[w] = step[w]
                   \/ Dispatch(w)
<1> SUFFICES Goal
  OBVIOUS
<1>t. worker \in [Workers -> [at : Hook!Stations, event : Events \cup {NoEvent}]] /\ Hook!WellTyped
  BY DEF WellTyped, Hook!WellTyped
<1>s. DOMAIN step = Workers
  BY DEF WellTyped
<1>0. CASE UNCHANGED <<worker, step>>
  BY <1>0
<1>1. ASSUME NEW d \in Desks, NEW c \in Contracts, Look(d, c) PROVE Goal
  BY <1>0, <1>1 DEF Look, ledger
<1>2. ASSUME NEW d \in Desks, Reserve(d) \/ SessionOpens(d) \/ SessionFails(d) \/ DeskDies(d) PROVE Goal
  BY <1>0, <1>2 DEF Reserve, SessionOpens, SessionFails, DeskDies, ledger
<1>3. ASSUME NEW c \in Contracts, PackOpens(c) \/ Spend(c) PROVE Goal
  BY <1>0, <1>3 DEF PackOpens, Spend, ledger
<1>4. ASSUME NEW s \in Sessions, Pays(s) \/ Abandons(s) \/ Ends(s) PROVE Goal
  BY <1>0, <1>4 DEF Pays, Abandons, Ends, Becomes, Hook!Reports
<1>5. ASSUME NEW e \in Events, Receives(e) \/ Ages(e) PROVE Goal
  <2>1. CASE Hook!AnswerDuplicate(e) \/ Hook!GrowsStale(e)
    BY <1>0, <1>5, <2>1 DEF Receives, Ages, Hook!AnswerDuplicate, Hook!GrowsStale
  <2>2. ASSUME NEW v \in Workers, Hook!Deliver(v, e) PROVE Goal
    <3>1. /\ worker'[v] = [at |-> "apply", event |-> e] /\ Hook!At(v, "idle")
          /\ \A u \in Workers \ {v} : worker'[u] = worker[u]
      BY <1>t, <2>2, DeliveryMoves DEF Hook!Deliver
    <3>2. step' = step
      BY <1>5 DEF Receives, Ages
    <3> QED
      BY <3>1, <3>2
  <2> QED
    BY <1>5, <2>1, <2>2 DEF Receives, Ages
<1>6. ASSUME NEW v \in Workers, v # w, worker' = [worker EXCEPT ![v] = worker'[v]],
             step' = step \/ step' = [step EXCEPT ![v] = step'[v]]
      PROVE  Goal
  BY <1>t, <1>s, <1>6
<1>7. ASSUME NEW v \in Workers, Closes(v) \/ ClosesUnheard(v) PROVE Goal
  <2>1. /\ worker' = [worker EXCEPT ![v] = Hook!Idle] /\ Hook!At(v, "settle") /\ step' = step
    BY <1>7 DEF Closes, ClosesUnheard, Hook!Settle, Hook!SettleUnheard, Hook!Close, Hook!Rests
  <2> QED
    BY <1>t, <1>6, <2>1
<1>8. ASSUME NEW v \in Workers, Stops(v) PROVE Goal
  <2>1. worker' = [worker EXCEPT ![v] = Hook!Idle] /\ step' = [step EXCEPT ![v] = "start"]
    BY <1>8 DEF Stops, Hook!Throws, Hook!Dies, Hook!Reject, Hook!Rests
  <2> QED
    BY <1>t, <1>s, <1>6, <1>8, <2>1
<1>9. ASSUME NEW v \in Workers, Dispatch(v) PROVE Goal
  <2>1. /\ worker' = worker \/ \E r : worker' = [worker EXCEPT ![v] = r]
        /\ step' = step \/ \E r : step' = [step EXCEPT ![v] = r]
    BY <1>9 DEF Dispatch, ReadForActivation, Activate, CreateProfile, ReadForExpiry, CancelPending,
                SyncSubscription, SyncRefused, Retire, CreditPack, ExpirePack, Proceeds, Applied, ledger,
                Hook!Goes, Hook!Reject, Hook!Rests
  <2>2. v # w => worker'[w] = worker[w] /\ step'[w] = step[w]
    BY <1>t, <1>s, <2>1
  <2> QED
    BY <1>9, <2>2
<1>10. CASE UNCHANGED vars
  BY <1>0, <1>10 DEF vars, ledger
<1> QED
  BY <1>1, <1>2, <1>3, <1>4, <1>5, <1>7, <1>8, <1>9, <1>10 DEF Next, Continue

(* What a handler makes of its worker.                                     *)
LEMMA DispatchMoves ==
  ASSUME WellTyped, NEW w \in Workers, Dispatch(w)
  PROVE  \/ worker' = worker /\ \/ ReadForActivation(w) /\ step'[w] = "activate"
                                \/ Activate(w) /\ step'[w] = "profile"
                                \/ ReadForExpiry(w) /\ step'[w] = "cancel"
                                \/ SyncSubscription(w) /\ step'[w] = "retire"
         \/ worker'[w] = Hook!Idle /\ step'[w] = "start"
         \/ /\ worker'[w] = [worker[w] EXCEPT !.at = "settle"] /\ step'[w] = "start"
            /\ \/ ReadForActivation(w) /\ contract[ContractOf(w)] # "pending"
               \/ CreateProfile(w) \/ ReadForExpiry(w) \/ CancelPending(w)
               \/ SyncSubscription(w) /\ worker[w].event[2] = "started"
               \/ Retire(w) \/ CreditPack(w) \/ ExpirePack(w)
<1>t. worker \in [Workers -> [at : Hook!Stations, event : Events \cup {NoEvent}]] /\ DOMAIN step = Workers
  BY DEF WellTyped, Hook!WellTyped
<1>1. ASSUME NEW s, Proceeds(w, s) PROVE worker' = worker /\ step'[w] = s
  BY <1>t, <1>1 DEF Proceeds, ledger
<1>2. ASSUME Applied(w) PROVE worker'[w] = [worker[w] EXCEPT !.at = "settle"] /\ step'[w] = "start"
  BY <1>t, <1>2 DEF Applied, Hook!Goes
<1>3. CASE ReadForActivation(w) \/ Activate(w)
  BY <1>1, <1>2, <1>3 DEF ReadForActivation, Activate
<1>4. CASE CreateProfile(w) \/ ReadForExpiry(w) \/ CancelPending(w)
  BY <1>1, <1>2, <1>4 DEF CreateProfile, ReadForExpiry, CancelPending
<1>5. CASE SyncSubscription(w)
  <2>1. worker[w].event[2] \in {"started", "lapsed"}
    BY <1>5 DEF SyncSubscription, Handles
  <2> QED
    BY <1>1, <1>2, <1>5, <2>1 DEF SyncSubscription
<1>6. CASE SyncRefused(w)
  BY <1>t, <1>6 DEF SyncRefused, Handles, Hook!Reject, Hook!Rests
<1>7. CASE Retire(w) \/ CreditPack(w) \/ ExpirePack(w)
  BY <1>2, <1>7 DEF Retire, CreditPack, ExpirePack
<1> QED
  BY <1>3, <1>4, <1>5, <1>6, <1>7 DEF Dispatch

-----------------------------------------------------------------------------
(* An event that has a row or is to be delivered was reported by Stripe.   *)
Known(s, k) == <<s, k>> \in owed \/ entry[<<s, k>>] # "none"

Reported ==
  \A s \in Sessions :
    /\ Known(s, "completed") => session[s].state \in {"paid", "ended"}
    /\ Known(s, "expired") => session[s].state = "expired"
    /\ Known(s, "lapsed") \/ Known(s, "deleted") => session[s].state = "ended"
    /\ session[s].state = "ended" => session[s].kind = "product"

(* Between two events a worker stands at the start of a handler.           *)
Fresh == \A w \in Workers : step[w] # "start" => Hook!At(w, "apply")

Runs(w, s, k) == Hook!Working(w) /\ worker[w].event = <<s, k>>

(* Nothing else can write to the contract of a session in `alone`: no      *)
(* checkout has reserved it, and its other sessions are over.              *)
Alone(s) ==
  /\ session[s].state # "none" /\ session[s].kind = "product"
  /\ \A d \in Desks : desk[d].at = "session" => desk[d].contract # session[s].contract
  /\ \A t \in SessionsOf(session[s].contract) \ {s} : session[t].kind = "product" => Over(t)

(* The completed session, or the end, has been handled.                    *)
Handled(s, k) ==
  entry[<<s, k>>] = "processed" \/ \E w \in Workers : Runs(w, s, k) /\ Hook!At(w, "settle")

Activated(s) ==
  Handled(s, "completed") \/ \E w \in Workers : Runs(w, s, "completed") /\ step[w] = "profile"

(* While such a session is paid its contract can only be turned on.        *)
TurnedOn(s) ==
  /\ session[s].state = "open" => contract[session[s].contract] = "pending"
  /\ session[s].state = "paid" =>
       /\ contract[session[s].contract] \in {"pending", "active"}
       /\ Activated(s) => contract[session[s].contract] = "active"
       /\ contract[session[s].contract] = "active" =>
            \/ session[s].contract \in profiles \/ s \in cut
            \/ \E w \in Workers : Runs(w, s, "completed") /\ step[w] = "profile"

(* And once its end is handled, the contract can only be turned on by a    *)
(* handler that had read it before.                                        *)
TurnedOff(s) ==
  Handled(s, "lapsed") \/ Handled(s, "deleted")
    => contract[session[s].contract] = "cancelled" \/ s \in crossed

Watched == \A s \in alone : Alone(s) /\ TurnedOn(s) /\ TurnedOff(s)

-----------------------------------------------------------------------------
LEMMA RunningIsPending ==
  ASSUME Held, NEW w \in Workers, NEW s \in Sessions, NEW k \in Kinds, Runs(w, s, k)
  PROVE  entry[<<s, k>>] = "pending" /\ Known(s, k)
BY DEF Runs, Held, Known

LEMMA HandledIsKnown ==
  ASSUME Held, NEW s \in Sessions, NEW k \in Kinds, Handled(s, k)
  PROVE  Known(s, k)
BY RunningIsPending DEF Handled, Known

LEMMA KnownBefore ==
  ASSUME Hook!WellTyped, Carries, Held, LedgerNext, NEW s \in Sessions, NEW k \in Kinds, Known(s, k)'
  PROVE  Known(s, k) \/ <<s, k>> \in owed' \ owed
<1> DEFINE e == <<s, k>>
<1>e. e \in Events
  BY EventsArePairs
<1>1. CASE e \in owed'
  BY <1>1 DEF Known
<1>2. CASE entry'[e] # "none"
  <2>1. entry'[e] = entry[e] \/ e \in owed
        \/ \E w \in Workers : Hook!Working(w) /\ worker[w].event = e
    BY <1>e, EntryChanges
  <2>2. (\E w \in Workers : Hook!Working(w) /\ worker[w].event = e) => entry[e] = "pending"
    BY DEF Held
  <2> QED
    BY <1>2, <2>1, <2>2 DEF Known
<1> QED
  BY <1>1, <1>2 DEF Known

(* What Stripe reports of a session when it moves on.                      *)
MovesTo(s, state, kinds) ==
  /\ session' = [session EXCEPT ![s].state = state]
  /\ Hook!Reports({s} \X kinds)
  /\ UNCHANGED <<contract, profiles, desk, step, alone, crossed, cut>>
  /\ \/ state = "paid" /\ session[s].state = "open" /\ kinds \subseteq {"completed", "started"}
     \/ state = "expired" /\ session[s].state \in {"open", "unheard"} /\ kinds = {"expired"}
     \/ /\ state = "ended" /\ session[s].state = "paid" /\ session[s].kind = "product"
        /\ kinds \subseteq {"lapsed", "deleted"}

LEMMA ReportsAreTrue ==
  ASSUME NEW s \in Sessions, MovesOn(s)
  PROVE  \E state \in {"paid", "expired", "ended"}, kinds \in SUBSET Kinds : MovesTo(s, state, kinds)
<1>1. ASSUME NEW state \in {"paid", "expired", "ended"}, NEW kinds \in SUBSET Kinds, Becomes(s, state, kinds)
      PROVE  /\ session' = [session EXCEPT ![s].state = state]
             /\ Hook!Reports({s} \X kinds)
             /\ UNCHANGED <<contract, profiles, desk, step, alone, crossed, cut>>
  BY <1>1 DEF Becomes, rows, history
<1>2. CASE Pays(s)
  <2> DEFINE kinds == IF IsProduct(s) THEN {"completed", "started"} ELSE {"completed"}
  <2>1. kinds \in SUBSET Kinds /\ kinds \subseteq {"completed", "started"}
    BY DEF Kinds
  <2>2. Becomes(s, "paid", kinds) /\ session[s].state = "open"
    BY <1>2 DEF Pays
  <2> HIDE DEF kinds
  <2>3. MovesTo(s, "paid", kinds)
    BY <1>1, <2>1, <2>2 DEF MovesTo
  <2> QED
    BY <2>1, <2>3
<1>3. CASE Abandons(s)
  <2>1. /\ Becomes(s, "expired", {"expired"}) /\ {"expired"} \in SUBSET Kinds
        /\ session[s].state \in {"open", "unheard"}
    BY <1>3 DEF Abandons, Kinds
  <2>2. MovesTo(s, "expired", {"expired"})
    BY <1>1, <2>1 DEF MovesTo
  <2> QED
    BY <2>1, <2>2
<1>4. CASE Ends(s)
  <2>1. PICK end \in {"lapsed", "deleted"} : Becomes(s, "ended", {end})
    BY <1>4 DEF Ends
  <2>2. {end} \in SUBSET Kinds /\ {end} \subseteq {"lapsed", "deleted"}
    BY DEF Kinds
  <2>3. session[s].state = "paid" /\ session[s].kind = "product"
    BY <1>4 DEF Ends, IsProduct
  <2>4. MovesTo(s, "ended", {end})
    BY <1>1, <2>1, <2>2, <2>3 DEF MovesTo
  <2> QED
    BY <2>2, <2>4
<1> QED
  BY <1>2, <1>3, <1>4 DEF MovesOn

(* A session keeps what it is for, and its state but when it moves on.     *)
LEMMA SessionKept ==
  ASSUME Shape, [Next]_vars, NEW s \in Sessions, session[s].state # "none"
  PROVE  /\ session'[s].kind = session[s].kind /\ session'[s].contract = session[s].contract
         /\ session'[s].state # "none"
         /\ session'[s].state = session[s].state \/ MovesOn(s)
<1>t. WellTyped
  BY DEF Shape, TypeOK
<1>1. ASSUME NextSession \in Sessions, NEW r, session' = [session EXCEPT ![NextSession] = r]
      PROVE  session'[s] = session[s]
  <2>1. NextSession # s
    BY <1>1, NextIsNew DEF Shape
  <2> QED
    BY <1>t, <1>1, <2>1 DEF WellTyped
<1>2. ASSUME NEW d \in Desks, SessionOpens(d) \/ UnheardOpens(d) PROVE session'[s] = session[s]
  BY <1>1, <1>2 DEF SessionOpens, UnheardOpens, OpensUnheard
<1>3. ASSUME NEW c \in Contracts, PackOpens(c) PROVE session'[s] = session[s]
  BY <1>1, <1>3 DEF PackOpens
<1>4. ASSUME NEW t \in Sessions, MovesOn(t)
      PROVE  \/ session'[s] = session[s]
             \/ /\ MovesOn(s) /\ session'[s].kind = session[s].kind /\ session'[s].contract = session[s].contract
                /\ session'[s].state # "none"
  BY <1>t, <1>4, MovesOnInState
<1>5. ASSUME NEW w \in Workers, CreditPack(w) \/ ExpirePack(w) PROVE session' = session
  BY <1>5 DEF CreditPack, ExpirePack
<1>6. ASSUME NEW c \in Contracts, Spend(c) PROVE session' = session
  BY <1>6 DEF Spend
<1> QED
  BY <1>t, <1>2, <1>3, <1>4, <1>5, <1>6, SessionsChange

LEMMA ReportedStep == Shape /\ Held /\ Reported /\ [Next]_vars => Reported'
<1> SUFFICES ASSUME Shape, Held, Reported, [Next]_vars, NEW s \in Sessions
             PROVE  /\ Known(s, "completed")' => session'[s].state \in {"paid", "ended"}
                    /\ Known(s, "expired")' => session'[s].state = "expired"
                    /\ Known(s, "lapsed")' \/ Known(s, "deleted")' => session'[s].state = "ended"
                    /\ session'[s].state = "ended" => session'[s].kind = "product"
  BY DEF Reported
<1>t. WellTyped /\ Hook!WellTyped /\ Carries /\ LedgerNext
  BY StepIsLedgerStep DEF Shape, TypeOK, WellTyped
<1>k. \A k \in Kinds : Known(s, k)' => Known(s, k) \/ <<s, k>> \in owed' \ owed
  BY <1>t, KnownBefore
<1>1. CASE MovesOn(s)
  <2>1. PICK state \in {"paid", "expired", "ended"}, kinds \in SUBSET Kinds : MovesTo(s, state, kinds)
    BY <1>1, ReportsAreTrue
  <2>2. session'[s].state = state /\ session'[s].kind = session[s].kind
    BY <1>t, <2>1 DEF MovesTo, WellTyped
  <2>3. \A k \in Kinds : Known(s, k)' => Known(s, k) \/ k \in kinds
    BY <1>k, <2>1 DEF MovesTo, Hook!Reports
  <2> QED
    BY <2>1, <2>2, <2>3 DEF MovesTo, Reported, Kinds
<1>2. CASE ~MovesOn(s)
  <2>1. \A k \in Kinds : <<s, k>> \notin owed' \ owed
    <3>1. CASE QuietLedger
      BY <3>1, OwedOnlyByReports
    <3>2. ASSUME NEW t \in Sessions, MovesOn(t) PROVE \A k \in Kinds : <<s, k>> \notin owed' \ owed
      <4>1. PICK kinds \in SUBSET Kinds : Hook!Reports({t} \X kinds)
        BY <3>2, MovesOnReports
      <4> QED
        BY <1>2, <3>2, <4>1 DEF Hook!Reports
    <3> QED
      BY <3>1, <3>2, OnlyStripeReports
  <2>2. \A k \in Kinds : Known(s, k)' => Known(s, k)
    BY <1>k, <2>1
  <2>3. CASE session[s].state # "none"
    BY <1>2, <2>2, <2>3, SessionKept DEF Reported, Kinds
  <2>4. CASE session[s].state = "none"
    <3>1. \A k \in {"completed", "expired", "lapsed", "deleted"} : ~Known(s, k)'
      BY <2>2, <2>4 DEF Reported, Kinds
    <3>2. session'[s].state # "ended"
      <4>1. ASSUME NextSession \in Sessions, NEW state \in {"open", "unheard"}, NEW kind, NEW c,
                   session' = [session EXCEPT ![NextSession] = [state |-> state, kind |-> kind, contract |-> c]]
            PROVE  session'[s].state # "ended"
        BY <1>t, <2>4, <4>1 DEF WellTyped
      <4>2. ASSUME NEW t \in Sessions, MovesOn(t) PROVE session'[s] = session[s]
        BY <1>t, <1>2, <4>2, MovesOnInState
      <4> QED
        BY <1>t, <2>4, <4>1, <4>2, SessionsChange
           DEF SessionOpens, UnheardOpens, OpensUnheard, PackOpens, CreditPack, ExpirePack, Spend
    <3> QED
      BY <3>1, <3>2
  <2> QED
    BY <2>3, <2>4
<1> QED
  BY <1>1, <1>2

LEMMA FreshStep == Shape /\ Fresh /\ [Next]_vars => Fresh'
<1> SUFFICES ASSUME Shape, Fresh, [Next]_vars, NEW w \in Workers, step'[w] # "start"
             PROVE  Hook!At(w, "apply")'
  BY DEF Fresh
<1>t. WellTyped
  BY DEF Shape, TypeOK
<1> USE DEF Hook!At
<1>1. CASE Dispatch(w)
  <2>1. worker[w].at = "apply"
    BY <1>1, DispatchIsAtWork
  <2> QED
    BY <1>t, <1>1, <2>1, DispatchMoves
<1> QED
  BY <1>t, <1>1, WorkerChanges DEF Fresh

-----------------------------------------------------------------------------
(* Nothing more comes of a session that is over.                           *)
LEMMA OverStays ==
  ASSUME Shape, Held, [Next]_vars, NEW s \in Sessions, Over(s)
  PROVE  Over(s)'
<1>t. WellTyped /\ Hook!WellTyped /\ Carries /\ LedgerNext
  BY StepIsLedgerStep DEF Shape, TypeOK, WellTyped
<1>1. ~MovesOn(s)
  BY MovesOnInState, <1>t DEF Over
<1>2. session'[s].state = session[s].state
  BY <1>1, SessionKept DEF Over
<1>3. ASSUME NEW k \in Kinds PROVE <<s, k>> \notin owed' \ owed
  <2>1. CASE QuietLedger
    BY <2>1, OwedOnlyByReports
  <2>2. ASSUME NEW t \in Sessions, MovesOn(t) PROVE <<s, k>> \notin owed' \ owed
    <3>1. PICK kinds \in SUBSET Kinds : Hook!Reports({t} \X kinds)
      BY <2>2, MovesOnReports
    <3> QED
      BY <1>1, <2>2, <3>1 DEF Hook!Reports
  <2> QED
    BY <2>1, <2>2, OnlyStripeReports
<1>4. ASSUME NEW k \in Kinds \ {"started"}
      PROVE  <<s, k>> \notin owed' /\ entry'[<<s, k>>] \in {"none", "processed"}
  <2>1. <<s, k>> \notin owed /\ entry[<<s, k>>] \in {"none", "processed"} /\ <<s, k>> \in Events
    BY EventsArePairs DEF Over
  <2>2. \A w \in Workers : ~(Hook!Working(w) /\ worker[w].event = <<s, k>>)
    BY <2>1 DEF Held
  <2> QED
    BY <1>t, <1>3, <2>1, <2>2, EntryChanges
<1> QED
  BY <1>2, <1>4 DEF Over

LEMMA DeskChanges ==
  ASSUME WellTyped, [Next]_vars, NEW d \in Desks
  PROVE  \/ desk'[d] = desk[d]
         \/ desk'[d].at \in {"idle", "reserve"}
         \/ /\ Reserve(d) /\ desk'[d].contract = desk[d].contract
            /\ alone' = alone \ SessionsOf(desk[d].contract)
<1> DEFINE Goal == \/ desk'[d] = desk[d]
                   \/ desk'[d].at \in {"idle", "reserve"}
                   \/ /\ Reserve(d) /\ desk'[d].contract = desk[d].contract
                      /\ alone' = alone \ SessionsOf(desk[d].contract)
<1> SUFFICES Goal
  OBVIOUS
<1>t. desk \in [Desks -> [at : {"idle", "reserve", "session"}, contract : Contracts,
                          before : {"none", "pending", "cancelled"}]]
  BY DEF WellTyped
<1>1. ASSUME NEW e \in Desks, NEW c \in Contracts, Look(e, c) PROVE Goal
  BY <1>t, <1>1 DEF Look
<1>2. ASSUME NEW e \in Desks, Reserve(e) PROVE Goal
  <2>1. \/ desk' = [desk EXCEPT ![e] = Idle]
        \/ desk' = [desk EXCEPT ![e].at = "session"] /\ alone' = alone \ SessionsOf(desk[e].contract)
    BY <1>2 DEF Reserve
  <2> QED
    BY <1>t, <1>2, <2>1 DEF Idle
<1>3. ASSUME NEW e \in Desks, SessionOpens(e) \/ SessionFails(e) \/ DeskDies(e) PROVE Goal
  BY <1>t, <1>3 DEF SessionOpens, SessionFails, DeskDies, Idle
<1>4. CASE desk' = desk
  BY <1>4
<1>5. ASSUME NEW s \in Sessions, Pays(s) \/ Abandons(s) \/ Ends(s) PROVE desk' = desk
  BY <1>5 DEF Pays, Abandons, Ends, Becomes
<1>6. ASSUME NEW c \in Contracts, PackOpens(c) \/ Spend(c) PROVE desk' = desk
  BY <1>6 DEF PackOpens, Spend
<1>7. ASSUME NEW w \in Workers, Dispatch(w) PROVE desk' = desk
  BY <1>7 DEF Dispatch, ReadForActivation, Activate, CreateProfile, ReadForExpiry, CancelPending,
              SyncSubscription, SyncRefused, Retire, CreditPack, ExpirePack
<1>8. ASSUME NEW w \in Workers, Stops(w) PROVE desk' = desk
  BY <1>8 DEF Stops
<1>9. CASE Bookkeeping
  BY <1>4, <1>9, BookkeepingKeeps
<1> QED
  BY <1>1, <1>2, <1>3, <1>4, <1>5, <1>6, <1>7, <1>8, <1>9 DEF Next, Continue, Bookkeeping

(* Who is newly alone has just been opened; what is remembered of sessions *)
(* and products set up only grows.                                         *)
LEMMA HistoryChanges ==
  ASSUME WellTyped, [Next]_vars
  PROVE  /\ \/ alone' \subseteq alone
            \/ \E d \in Desks : SessionOpens(d) /\ alone' = alone \cup {NextSession}
                                /\ Undisturbed(d, desk[d].contract)
         /\ crossed \subseteq crossed' /\ cut \subseteq cut' /\ profiles \subseteq profiles'
<1> DEFINE Goal == /\ \/ alone' \subseteq alone
                      \/ \E d \in Desks : SessionOpens(d) /\ alone' = alone \cup {NextSession}
                                          /\ Undisturbed(d, desk[d].contract)
                   /\ crossed \subseteq crossed' /\ cut \subseteq cut' /\ profiles \subseteq profiles'
<1> SUFFICES Goal
  OBVIOUS
<1>0. CASE UNCHANGED <<history, profiles>>
  BY <1>0 DEF history
<1>1. ASSUME NEW d \in Desks, NEW c \in Contracts, Look(d, c) PROVE Goal
  BY <1>0, <1>1 DEF Look, rows
<1>2. ASSUME NEW d \in Desks, Reserve(d) PROVE Goal
  BY <1>2 DEF Reserve
<1>3. ASSUME NEW d \in Desks, SessionOpens(d) PROVE Goal
  <2>1. crossed' = crossed /\ cut' = cut /\ profiles' = profiles
    BY <1>3 DEF SessionOpens, rows
  <2>2. \/ alone' = alone
        \/ alone' = alone \cup {NextSession} /\ Undisturbed(d, desk[d].contract)
    BY <1>3 DEF SessionOpens
  <2> QED
    BY <1>3, <2>1, <2>2
<1>4. ASSUME NEW d \in Desks, SessionFails(d) \/ DeskDies(d) PROVE Goal
  BY <1>0, <1>4 DEF SessionFails, DeskDies, rows
<1>5. ASSUME NEW c \in Contracts, PackOpens(c) \/ Spend(c) PROVE Goal
  BY <1>0, <1>5 DEF PackOpens, Spend
<1>6. ASSUME NEW s \in Sessions, Pays(s) \/ Abandons(s) \/ Ends(s) PROVE Goal
  BY <1>0, <1>6 DEF Pays, Abandons, Ends, Becomes, rows
<1>7. ASSUME NEW w \in Workers, Dispatch(w) PROVE Goal
  <2>1. CASE Activate(w)
    BY <2>1 DEF Activate
  <2>2. CASE CreateProfile(w)
    BY <2>2 DEF CreateProfile, history
  <2> QED
    BY <1>0, <1>7, <2>1, <2>2
       DEF Dispatch, ReadForActivation, ReadForExpiry, CancelPending, SyncSubscription, SyncRefused, Retire,
           CreditPack, ExpirePack, rows
<1>8. ASSUME NEW w \in Workers, Stops(w) PROVE Goal
  BY <1>8 DEF Stops, rows
<1>9. CASE Bookkeeping
  BY <1>0, <1>9, BookkeepingKeeps DEF history
<1> QED
  BY <1>1, <1>2, <1>3, <1>4, <1>5, <1>6, <1>7, <1>8, <1>9 DEF Next, Continue, Bookkeeping

(* The session of a contract that is new was opened by this step.          *)
LEMMA NewSession ==
  ASSUME Shape, [Next]_vars, NEW s \in Sessions, session[s].state = "none", session'[s].state # "none"
  PROVE  /\ NextSession \in Sessions /\ s = NextSession
         /\ \/ \E c \in Contracts : PackOpens(c) /\ session'[s].kind = "pack"
            \/ \E d \in Desks : /\ desk[d].at = "session"
                                /\ session'[s].kind = "product"
                                /\ session'[s].contract = desk[d].contract
<1>t. WellTyped
  BY DEF Shape, TypeOK
<1>1. ASSUME NEW r, NextSession \in Sessions, session' = [session EXCEPT ![NextSession] = r]
      PROVE  s = NextSession /\ session'[s] = r
  BY <1>t, <1>1 DEF WellTyped
<1>2. ASSUME NEW d \in Desks, SessionOpens(d) \/ UnheardOpens(d)
      PROVE  /\ NextSession \in Sessions /\ s = NextSession /\ desk[d].at = "session"
             /\ session'[s].kind = "product" /\ session'[s].contract = desk[d].contract
  BY <1>1, <1>2 DEF SessionOpens, UnheardOpens, OpensUnheard
<1>3. ASSUME NEW c \in Contracts, PackOpens(c)
      PROVE  NextSession \in Sessions /\ s = NextSession /\ session'[s].kind = "pack"
  BY <1>1, <1>3 DEF PackOpens
<1>4. ASSUME NEW t \in Sessions, MovesOn(t) PROVE FALSE
  BY <1>t, <1>4, MovesOnInState
<1>5. ASSUME NEW w \in Workers, CreditPack(w) \/ ExpirePack(w) PROVE session' = session
  BY <1>5 DEF CreditPack, ExpirePack
<1>6. ASSUME NEW c \in Contracts, Spend(c) PROVE session' = session
  BY <1>6 DEF Spend
<1> QED
  BY <1>t, <1>2, <1>3, <1>4, <1>5, <1>6, SessionsChange

LEMMA AloneStep ==
  ASSUME Shape, Held, [Next]_vars, NEW s \in alone', s \in alone => Alone(s)
  PROVE  Alone(s)'
<1>t. WellTyped /\ WellTyped'
  BY ShapeStep DEF Shape, TypeOK
<1>s. s \in Sessions /\ alone \subseteq Sessions
  BY <1>t DEF WellTyped
<1>1. CASE s \in alone
  <2> DEFINE c == session[s].contract
  <2>1. /\ session[s].state # "none" /\ session[s].kind = "product"
        /\ \A d \in Desks : desk[d].at = "session" => desk[d].contract # c
        /\ \A t \in SessionsOf(c) \ {s} : session[t].kind = "product" => Over(t)
    BY <1>1 DEF Alone
  <2>2. session'[s].state # "none" /\ session'[s].kind = "product" /\ session'[s].contract = c
    BY <1>s, <2>1, SessionKept
  <2>3. ASSUME NEW d \in Desks, desk'[d].at = "session" PROVE desk'[d].contract # c
    <3>1. CASE desk'[d] = desk[d]
      BY <2>1, <2>3, <3>1
    <3>2. CASE desk'[d].contract = desk[d].contract /\ alone' = alone \ SessionsOf(desk[d].contract)
      <4>1. s \notin SessionsOf(desk[d].contract)
        BY <3>2
      <4> QED
        BY <1>s, <2>1, <3>2, <4>1 DEF SessionsOf
    <3> QED
      BY <1>t, <2>3, <3>1, <3>2, DeskChanges
  <2>4. ASSUME NEW t \in SessionsOf(c)' \ {s}, session'[t].kind = "product" PROVE Over(t)'
    <3>1. t \in Sessions /\ session'[t].state # "none" /\ session'[t].contract = c
      BY <2>2, <2>4 DEF SessionsOf
    <3>2. CASE session[t].state = "none"
      <4>1. PICK d \in Desks : /\ desk[d].at = "session"
                               /\ session'[t].contract = desk[d].contract
        BY <2>4, <3>1, <3>2, NewSession
      <4> QED
        BY <2>1, <3>1, <4>1
    <3>3. CASE session[t].state # "none"
      <4>1. t \in SessionsOf(c) \ {s} /\ session[t].kind = "product"
        BY <2>4, <3>1, <3>3, SessionKept DEF SessionsOf
      <4> QED
        BY <2>1, <3>1, <4>1, OverStays
    <3> QED
      BY <3>2, <3>3
  <2> QED
    BY <2>2, <2>3, <2>4 DEF Alone
<1>2. CASE s \notin alone
  <2>1. PICK d \in Desks : SessionOpens(d) /\ s = NextSession /\ Undisturbed(d, desk[d].contract)
    BY <1>t, <1>2, HistoryChanges
  <2>c. PICK c \in Contracts : c = desk[d].contract
    BY <1>t DEF WellTyped
  <2>2. /\ session' = [session EXCEPT ![s] = [state |-> "open", kind |-> "product", contract |-> c]]
        /\ desk' = [desk EXCEPT ![d] = Idle]
    BY <2>1, <2>c DEF SessionOpens
  <2>3. session'[s] = [state |-> "open", kind |-> "product", contract |-> c]
    BY <1>t, <1>s, <2>2 DEF WellTyped
  <2>4. ASSUME NEW e \in Desks, desk'[e].at = "session" PROVE desk'[e].contract # c
    <3>1. e # d /\ desk'[e] = desk[e]
      BY <1>t, <2>2, <2>4 DEF WellTyped, Idle
    <3> QED
      BY <2>1, <2>c, <2>4, <3>1 DEF Undisturbed
  <2>5. ASSUME NEW t \in SessionsOf(c)' \ {s}, session'[t].kind = "product" PROVE Over(t)'
    <3>1. t \in Sessions /\ session'[t] = session[t]
      BY <1>t, <2>2, <2>5 DEF SessionsOf, WellTyped
    <3>2. t \in SessionsOf(c)
      BY <1>t, <2>2, <2>5, <3>1 DEF SessionsOf, WellTyped
    <3>3. IsProduct(t)
      BY <2>5, <3>1 DEF IsProduct
    <3> QED
      BY <2>1, <2>c, <3>1, <3>2, <3>3, OverStays DEF Undisturbed
  <2> QED
    BY <2>3, <2>4, <2>5 DEF Alone
<1> QED
  BY <1>1, <1>2

-----------------------------------------------------------------------------
(* The contract of a session in `alone` is written by its own handlers.    *)
LEMMA OwnHandler ==
  ASSUME Shape, Held, Reported, NEW s \in Sessions, Alone(s), NEW w \in Workers, Hook!At(w, "apply"),
         ContractOf(w) = session[s].contract,
         \/ worker[w].event[2] \in {"completed", "expired"} /\ session[SessionOf(w)].kind = "product"
         \/ worker[w].event[2] \in {"lapsed", "deleted"}
  PROVE  SessionOf(w) = s
<1> DEFINE t == SessionOf(w)
           k == worker[w].event[2]
<1>1. t \in Sessions /\ worker[w].event = <<t, k>>
  BY HandlersSession DEF Shape
<1>2. Hook!Working(w)
  BY DEF Hook!Working
<1>3. entry[<<t, k>>] = "pending"
  BY <1>1, <1>2 DEF Held
<1>4. Known(t, k)
  BY <1>3 DEF Known
<1> HIDE DEF t
<1>5. session[t].state # "none" /\ session[t].kind = "product" /\ k \in Kinds \ {"started"}
  BY <1>1, <1>4 DEF Reported, Kinds, t
<1>6. t \in SessionsOf(session[s].contract)
  BY <1>1, <1>5 DEF SessionsOf, ContractOf, t
<1>7. ~Over(t)
  BY <1>3, <1>5 DEF Over
<1> QED
  BY <1>5, <1>6, <1>7 DEF Alone, t

LEMMA ContractChanges ==
  ASSUME Shape, Held, Reported, [Next]_vars, NEW s \in alone, s \in alone', Alone(s)
  PROVE  \/ contract'[session[s].contract] = contract[session[s].contract]
         \/ \E w \in Workers : /\ SessionOf(w) = s /\ worker[w].event = <<s, worker[w].event[2]>>
                               /\ Activate(w) \/ CancelPending(w) \/ Retire(w)
<1> DEFINE c == session[s].contract
           Goal == \/ contract'[c] = contract[c]
                   \/ \E w \in Workers : /\ SessionOf(w) = s /\ worker[w].event = <<s, worker[w].event[2]>>
                                         /\ Activate(w) \/ CancelPending(w) \/ Retire(w)
<1> SUFFICES Goal
  OBVIOUS
<1>t. WellTyped /\ s \in Sessions /\ c \in Contracts
  BY DEF Shape, TypeOK, WellTyped
<1>0. CASE contract' = contract
  BY <1>0
<1>1. ASSUME NEW d \in Desks, NEW x \in Contracts, Look(d, x) PROVE contract' = contract
  BY <1>1 DEF Look, rows
<1>2. ASSUME NEW d \in Desks, Reserve(d) PROVE Goal
  <2>1. CASE contract' = contract
    BY <2>1
  <2>2. CASE /\ contract' = [contract EXCEPT ![desk[d].contract] = "pending"]
             /\ alone' = alone \ SessionsOf(desk[d].contract)
    <3>1. s \notin SessionsOf(desk[d].contract)
      BY <2>2
    <3>2. desk[d].contract # c
      BY <1>t, <3>1 DEF SessionsOf, Alone
    <3> QED
      BY <1>t, <2>2, <3>2 DEF WellTyped
  <2> QED
    BY <1>2, <2>1, <2>2 DEF Reserve
<1>3. ASSUME NEW d \in Desks, SessionFails(d) PROVE Goal
  <2>1. desk[d].contract # c
    BY <1>3 DEF SessionFails, Alone
  <2> QED
    BY <1>t, <1>3, <2>1 DEF SessionFails, WellTyped
<1>4. ASSUME NEW d \in Desks, SessionOpens(d) \/ DeskDies(d) PROVE contract' = contract
  BY <1>4 DEF SessionOpens, DeskDies, rows
<1>5. ASSUME NEW x \in Contracts, PackOpens(x) \/ Spend(x) PROVE contract' = contract
  BY <1>5 DEF PackOpens, Spend
<1>6. ASSUME NEW t \in Sessions, Pays(t) \/ Abandons(t) \/ Ends(t) PROVE contract' = contract
  BY <1>6 DEF Pays, Abandons, Ends, Becomes, rows
<1>7. ASSUME NEW w \in Workers, Activate(w) \/ CancelPending(w) \/ Retire(w) PROVE Goal
  <2>1. /\ Hook!At(w, "apply")
        /\ \/ worker[w].event[2] \in {"completed", "expired"} /\ session[SessionOf(w)].kind = "product"
           \/ worker[w].event[2] \in {"lapsed", "deleted"}
        /\ \E to : contract' = [contract EXCEPT ![ContractOf(w)] = to]
    BY <1>7 DEF Activate, CancelPending, Retire, HandlesProduct, Handles, IsProduct
  <2>2. CASE ContractOf(w) = c
    <3>1. SessionOf(w) = s
      BY <1>t, <2>1, <2>2, OwnHandler
    <3>2. worker[w].event = <<s, worker[w].event[2]>>
      BY <2>1, <3>1, HandlersSession DEF Shape
    <3> QED
      BY <1>7, <3>1, <3>2
  <2>3. CASE ContractOf(w) # c
    BY <1>t, <2>1, <2>3 DEF WellTyped
  <2> QED
    BY <2>2, <2>3
<1>8. ASSUME NEW w \in Workers, Dispatch(w), ~(Activate(w) \/ CancelPending(w) \/ Retire(w))
      PROVE  contract' = contract
  BY <1>8 DEF Dispatch, ReadForActivation, CreateProfile, ReadForExpiry, SyncSubscription, SyncRefused,
              CreditPack, ExpirePack, rows
<1>9. ASSUME NEW w \in Workers, Stops(w) PROVE contract' = contract
  BY <1>9 DEF Stops, rows
<1>10. CASE Bookkeeping
  BY <1>0, <1>10, BookkeepingKeeps
<1> QED
  BY <1>0, <1>1, <1>2, <1>3, <1>4, <1>5, <1>6, <1>7, <1>8, <1>9, <1>10 DEF Next, Continue, Bookkeeping

-----------------------------------------------------------------------------
(* An event becomes handled by the last step of its handler.               *)
LEMMA BecomesHandled ==
  ASSUME Shape, Held, [Next]_vars, NEW s \in Sessions, NEW k \in Kinds, Handled(s, k)', ~Handled(s, k)
  PROVE  \E w \in Workers :
           /\ SessionOf(w) = s /\ worker[w].event = <<s, k>> /\ Hook!Working(w)
           /\ \/ ReadForActivation(w) /\ contract[ContractOf(w)] # "pending"
              \/ CreateProfile(w) \/ ReadForExpiry(w) \/ CancelPending(w)
              \/ SyncSubscription(w) /\ k = "started"
              \/ Retire(w) \/ CreditPack(w) \/ ExpirePack(w)
<1>t. WellTyped /\ Hook!WellTyped /\ Carries /\ LedgerNext /\ <<s, k>> \in Events
  BY StepIsLedgerStep, EventsArePairs DEF Shape, TypeOK, WellTyped
<1>1. entry'[<<s, k>>] # "processed"
  <2>1. entry[<<s, k>>] # "processed"
    BY DEF Handled
  <2>2. ~\E w \in Workers : Hook!Working(w) /\ worker[w].event = <<s, k>> /\ Hook!At(w, "settle")
    BY DEF Handled, Runs
  <2> QED
    BY <1>t, <2>1, <2>2, EntryChanges
<1>2. PICK w \in Workers : Runs(w, s, k)' /\ Hook!At(w, "settle")'
  BY <1>1 DEF Handled
<1>3. worker'[w].event = <<s, k>> /\ worker'[w].at = "settle"
  BY <1>2 DEF Runs, Hook!At
<1>4. worker'[w] # worker[w]
  BY <1>3 DEF Handled, Runs, Hook!Working, Hook!At
<1>5. Dispatch(w)
  BY <1>t, <1>3, <1>4, WorkerChanges DEF Hook!Idle
<1>6. /\ worker'[w] = [worker[w] EXCEPT !.at = "settle"]
      /\ \/ ReadForActivation(w) /\ contract[ContractOf(w)] # "pending"
         \/ CreateProfile(w) \/ ReadForExpiry(w) \/ CancelPending(w)
         \/ SyncSubscription(w) /\ worker[w].event[2] = "started"
         \/ Retire(w) \/ CreditPack(w) \/ ExpirePack(w)
  BY <1>t, <1>3, <1>4, <1>5, DispatchMoves DEF Hook!Idle
<1>7. worker[w].event = <<s, k>>
  BY <1>t, <1>3, <1>6 DEF Hook!WellTyped
<1>8. Hook!Working(w)
  BY <1>5, DispatchIsAtWork DEF Hook!Working
<1> QED
  BY <1>6, <1>7, <1>8 DEF SessionOf

LEMMA ActivatedIsKnown ==
  ASSUME Held, NEW s \in Sessions, Activated(s)
  PROVE  Known(s, "completed")
BY HandledIsKnown, RunningIsPending DEF Activated, Kinds

(* A session is activated by the step that turns its contract on, or finds *)
(* it on.                                                                  *)
LEMMA BecomesActivated ==
  ASSUME Shape, Held, Fresh, [Next]_vars, NEW s \in Sessions, session[s].kind = "product",
         Activated(s)', ~Activated(s)
  PROVE  \E w \in Workers :
           /\ SessionOf(w) = s
           /\ \/ Activate(w)
              \/ ReadForActivation(w) /\ contract[session[s].contract] # "pending"
<1>t. WellTyped
  BY DEF Shape, TypeOK
<1>1. CASE Handled(s, "completed")'
  <2>1. ~Handled(s, "completed") /\ "completed" \in Kinds
    BY DEF Activated, Kinds
  <2>2. PICK w \in Workers :
           /\ SessionOf(w) = s /\ worker[w].event = <<s, "completed">> /\ Hook!Working(w)
           /\ \/ ReadForActivation(w) /\ contract[ContractOf(w)] # "pending"
              \/ CreateProfile(w) \/ ReadForExpiry(w) \/ CancelPending(w)
              \/ SyncSubscription(w) /\ "completed" = "started"
              \/ Retire(w) \/ CreditPack(w) \/ ExpirePack(w)
    BY <1>1, <2>1, BecomesHandled
  <2>3. ~(ReadForExpiry(w) \/ CancelPending(w) \/ Retire(w) \/ ExpirePack(w))
    BY <2>2 DEF ReadForExpiry, CancelPending, Retire, ExpirePack, HandlesProduct, HandlesPack, Handles
  <2>4. ~CreditPack(w)
    BY <2>2 DEF CreditPack, HandlesPack, IsProduct
  <2>5. ~CreateProfile(w)
    <3>1. CreateProfile(w) => step[w] = "profile"
      BY DEF CreateProfile, HandlesProduct, Handles
    <3> QED
      BY <2>2, <3>1 DEF Activated, Runs
  <2> QED
    BY <2>2, <2>3, <2>4, <2>5 DEF ContractOf
<1>2. ASSUME NEW w \in Workers, Runs(w, s, "completed")', step'[w] = "profile"
      PROVE  \E v \in Workers : SessionOf(v) = s /\ Activate(v)
  <2>1. Hook!Working(w)' /\ worker'[w].event = <<s, "completed">>
    BY <1>2 DEF Runs
  <2>2. ~(worker'[w] = worker[w] /\ step'[w] = step[w])
    BY <1>2, <2>1 DEF Activated, Runs, Hook!Working, Hook!At
  <2>3. worker'[w] # Hook!Idle
    BY <2>1 DEF Hook!Working, Hook!At, Hook!Idle
  <2>4. ~(Hook!At(w, "idle") /\ step'[w] = step[w])
    BY <1>2 DEF Fresh, Hook!At
  <2>5. Dispatch(w)
    BY <1>t, <2>2, <2>3, <2>4, WorkerChanges
  <2>6. worker' = worker /\ Activate(w)
    BY <1>t, <1>2, <2>5, DispatchMoves
  <2> QED
    BY <2>1, <2>6 DEF SessionOf
<1> QED
  BY <1>1, <1>2 DEF Activated

LEMMA OpenIsUnknown ==
  ASSUME Held, Reported, NEW s \in Sessions, session[s].state \in {"none", "open"}
  PROVE  ~Activated(s) /\ ~Handled(s, "lapsed") /\ ~Handled(s, "deleted")
BY ActivatedIsKnown, HandledIsKnown DEF Reported, Kinds

(* What the handlers of the session itself say about it.                   *)
LEMMA HandlerKnows ==
  ASSUME Shape, Held, Reported, NEW w \in Workers, NEW s \in Sessions, SessionOf(w) = s,
         worker[w].event = <<s, worker[w].event[2]>>
  PROVE  /\ Activate(w) => session[s].state \in {"paid", "ended"}
         /\ CancelPending(w) => session[s].state = "expired"
         /\ Retire(w) => session[s].state = "ended"
<1> DEFINE k == worker[w].event[2]
<1>1. ASSUME Hook!At(w, "apply"), k \in Kinds PROVE Known(s, k)
  BY <1>1, RunningIsPending DEF Runs, Hook!Working
<1> QED
  BY <1>1 DEF Activate, CancelPending, Retire, HandlesProduct, Handles, Kinds, Reported

LEMMA TurnedOnStep ==
  ASSUME Shape, Held, Reported, Fresh, [Next]_vars, NEW s \in alone, s \in alone', Alone(s), TurnedOn(s)
  PROVE  TurnedOn(s)'
<1> DEFINE c == session[s].contract
<1>t. WellTyped /\ s \in Sessions /\ c \in Contracts
  BY DEF Shape, TypeOK, WellTyped
<1>k. /\ session[s].state # "none" /\ session[s].kind = "product" /\ session'[s].contract = c
      /\ session'[s].state = session[s].state \/ MovesOn(s)
  BY <1>t, SessionKept DEF Alone
<1>g. cut \subseteq cut' /\ profiles \subseteq profiles'
  BY <1>t, HistoryChanges
<1>c. \/ contract'[c] = contract[c]
      \/ \E w \in Workers : /\ SessionOf(w) = s /\ worker[w].event = <<s, worker[w].event[2]>>
                            /\ Activate(w) \/ CancelPending(w) \/ Retire(w)
  BY ContractChanges
<1>1. ASSUME session'[s].state = "open" PROVE contract'[c] = "pending"
  <2>1. session[s].state = "open"
    BY <1>t, <1>k, <1>1, MovesOnInState
  <2>2. contract'[c] = contract[c]
    BY <1>t, <1>c, <2>1, HandlerKnows
  <2> QED
    BY <2>1, <2>2 DEF TurnedOn
<1>2. ASSUME session'[s].state = "paid"
      PROVE  /\ contract'[c] \in {"pending", "active"}
             /\ Activated(s)' => contract'[c] = "active"
             /\ contract'[c] = "active" =>
                  \/ c \in profiles' \/ s \in cut'
                  \/ \E w \in Workers : Runs(w, s, "completed")' /\ step'[w] = "profile"
  <2>1. CASE MovesOn(s)
    <3>1. PICK state \in {"paid", "expired", "ended"}, kinds \in SUBSET Kinds : MovesTo(s, state, kinds)
      BY <1>t, <2>1, ReportsAreTrue
    <3>2. session'[s].state = state
      BY <1>t, <3>1 DEF MovesTo, WellTyped
    <3>3. session[s].state = "open" /\ contract' = contract /\ step' = step
      BY <1>2, <3>1, <3>2 DEF MovesTo
    <3>4. worker' = worker /\ entry' = entry
      BY <3>1 DEF MovesTo, Hook!Reports
    <3>5. ~Activated(s)
      BY <1>t, <3>3, OpenIsUnknown
    <3>6. ~Activated(s)'
      BY <3>3, <3>4, <3>5 DEF Activated, Handled, Runs, Hook!Working, Hook!At
    <3> QED
      BY <3>3, <3>6 DEF TurnedOn
  <2>2. CASE ~MovesOn(s)
    <3>1. session[s].state = "paid"
      BY <1>2, <1>k, <2>2
    <3>2. /\ contract[c] \in {"pending", "active"}
          /\ Activated(s) => contract[c] = "active"
          /\ contract[c] = "active" =>
               \/ c \in profiles \/ s \in cut
               \/ \E w \in Workers : Runs(w, s, "completed") /\ step[w] = "profile"
      BY <3>1 DEF TurnedOn
    <3>3. ASSUME NEW w \in Workers, SessionOf(w) = s, Activate(w) PROVE contract'[c] = "active"
      BY <1>t, <3>3 DEF Activate, ContractOf, WellTyped
    <3>4. \/ contract'[c] = contract[c]
          \/ \E w \in Workers : /\ SessionOf(w) = s /\ worker[w].event = <<s, worker[w].event[2]>>
                                /\ Activate(w)
      BY <1>t, <1>c, <3>1, HandlerKnows
    <3>5. contract'[c] \in {"pending", "active"} /\ (contract[c] = "active" => contract'[c] = "active")
      BY <3>2, <3>3, <3>4
    <3>6. ASSUME Activated(s)' PROVE contract'[c] = "active"
      <4>1. CASE Activated(s)
        BY <3>2, <3>5, <4>1
      <4>2. CASE ~Activated(s)
        <5>1. PICK w \in Workers : SessionOf(w) = s /\ \/ Activate(w)
                                                       \/ contract[session[s].contract] # "pending"
          BY <1>t, <1>k, <3>6, <4>2, BecomesActivated
        <5> QED
          BY <3>2, <3>3, <3>5, <5>1
      <4> QED
        BY <4>1, <4>2
    <3>7. ASSUME contract'[c] = "active"
          PROVE  \/ c \in profiles' \/ s \in cut'
                 \/ \E w \in Workers : Runs(w, s, "completed")' /\ step'[w] = "profile"
      <4>1. CASE contract[c] = "active" /\ (c \in profiles \/ s \in cut)
        BY <1>g, <4>1
      <4>2. ASSUME NEW w \in Workers, Runs(w, s, "completed"), step[w] = "profile"
            PROVE  \/ c \in profiles' \/ s \in cut'
                   \/ Runs(w, s, "completed")' /\ step'[w] = "profile"
        <5>1. Hook!At(w, "apply") /\ SessionOf(w) = s /\ worker[w].event = <<s, "completed">>
          BY <4>2 DEF Fresh, Runs, SessionOf
        <5>2. CASE worker'[w] = worker[w] /\ step'[w] = step[w]
          BY <4>2, <5>2 DEF Runs, Hook!Working, Hook!At
        <5>3. CASE Stops(w)
          BY <4>2, <5>1, <5>3 DEF Stops
        <5>4. CASE Dispatch(w)
          <6>1. CreateProfile(w)
            BY <4>2, <5>1, <5>4
               DEF Dispatch, ReadForActivation, Activate, ReadForExpiry, CancelPending, SyncSubscription,
                   SyncRefused, Retire, CreditPack, ExpirePack, HandlesProduct, HandlesPack, Handles
          <6> QED
            BY <5>1, <6>1 DEF CreateProfile, ContractOf
        <5> QED
          BY <1>t, <5>1, <5>2, <5>3, <5>4, WorkerChanges DEF Hook!At
      <4>3. ASSUME NEW w \in Workers, SessionOf(w) = s, worker[w].event = <<s, worker[w].event[2]>>, Activate(w)
            PROVE  Runs(w, s, "completed")' /\ step'[w] = "profile"
        <5>1. Hook!At(w, "apply") /\ worker[w].event[2] = "completed"
          BY <4>3 DEF Activate, HandlesProduct, Handles
        <5>2. worker' = worker /\ step'[w] = "profile"
          BY <1>t, <4>3 DEF Activate, Proceeds, ledger, WellTyped
        <5> QED
          BY <4>3, <5>1, <5>2 DEF Runs, Hook!Working, Hook!At
      <4> QED
        BY <3>2, <3>4, <3>7, <4>1, <4>2, <4>3
    <3> QED
      BY <3>5, <3>6, <3>7
  <2> QED
    BY <2>1, <2>2
<1>3. session'[s].contract = session[s].contract
  BY <1>k
<1> HIDE DEF c
<1> QED
  BY <1>1, <1>2, <1>3 DEF TurnedOn, c

LEMMA TurnedOffStep ==
  ASSUME Shape, Held, Reported, [Next]_vars, NEW s \in alone, s \in alone', Alone(s), TurnedOff(s)
  PROVE  TurnedOff(s)'
<1> DEFINE c == session[s].contract
<1>t. WellTyped /\ s \in Sessions /\ c \in Contracts
  BY DEF Shape, TypeOK, WellTyped
<1>k. session'[s].contract = session[s].contract
  BY <1>t, SessionKept DEF Alone
<1> SUFFICES ASSUME NEW k \in {"lapsed", "deleted"}, Handled(s, k)'
             PROVE  contract'[c] = "cancelled" \/ s \in crossed'
  BY <1>k DEF TurnedOff
<1>g. crossed \subseteq crossed'
  BY <1>t, HistoryChanges
<1>1. CASE Handled(s, k)
  <2>1. contract[c] = "cancelled" \/ s \in crossed
    BY <1>1 DEF TurnedOff
  <2>2. ASSUME NEW w \in Workers, SessionOf(w) = s, Activate(w), contract[c] = "cancelled" PROVE s \in crossed'
    BY <2>2 DEF Activate, ContractOf
  <2>3. ASSUME NEW w \in Workers, SessionOf(w) = s, CancelPending(w) \/ Retire(w) PROVE contract'[c] = "cancelled"
    BY <1>t, <2>3 DEF CancelPending, Retire, ContractOf, WellTyped
  <2> QED
    BY <1>g, <2>1, <2>2, <2>3, ContractChanges
<1>2. CASE ~Handled(s, k)
  <2>1. PICK w \in Workers :
           /\ SessionOf(w) = s /\ worker[w].event = <<s, k>> /\ Hook!Working(w)
           /\ \/ ReadForActivation(w) /\ contract[ContractOf(w)] # "pending"
              \/ CreateProfile(w) \/ ReadForExpiry(w) \/ CancelPending(w)
              \/ SyncSubscription(w) /\ k = "started"
              \/ Retire(w) \/ CreditPack(w) \/ ExpirePack(w)
    BY <1>t, <1>2, BecomesHandled DEF Kinds
  <2>2. Retire(w)
    BY <2>1 DEF ReadForActivation, CreateProfile, ReadForExpiry, CancelPending, CreditPack, ExpirePack,
                HandlesProduct, HandlesPack, Handles
  <2> QED
    BY <1>t, <2>1, <2>2 DEF Retire, ContractOf, WellTyped
<1> QED
  BY <1>1, <1>2

LEMMA WatchedStep ==
  Shape /\ Held /\ Reported /\ Fresh /\ Watched /\ [Next]_vars => Watched'
<1> SUFFICES ASSUME Shape, Held, Reported, Fresh, Watched, [Next]_vars, NEW s \in alone'
             PROVE  Alone(s)' /\ TurnedOn(s)' /\ TurnedOff(s)'
  BY DEF Watched
<1>t. WellTyped /\ WellTyped'
  BY ShapeStep DEF Shape, TypeOK
<1>s. s \in Sessions
  BY <1>t DEF WellTyped
<1>1. Alone(s)'
  BY AloneStep DEF Watched
<1>2. CASE s \in alone
  BY <1>1, <1>2, TurnedOnStep, TurnedOffStep DEF Watched
<1>3. CASE s \notin alone
  <2>1. PICK d \in Desks : SessionOpens(d) /\ s = NextSession /\ Undisturbed(d, desk[d].contract)
    BY <1>t, <1>3, HistoryChanges
  <2>2. /\ session' = [session EXCEPT ![s] = [state |-> "open", kind |-> "product",
                                              contract |-> desk[d].contract]]
        /\ contract' = contract /\ step' = step /\ entry' = entry /\ worker' = worker
    BY <2>1 DEF SessionOpens, rows, ledger
  <2>3. session'[s] = [state |-> "open", kind |-> "product", contract |-> desk[d].contract]
    BY <1>t, <1>s, <2>2 DEF WellTyped
  <2>4. contract[desk[d].contract] = "pending"
    BY <2>1 DEF Undisturbed
  <2>5. session[s].state = "none"
    BY <1>s, <2>1, NextIsNew DEF Shape
  <2>6. ~Handled(s, "lapsed") /\ ~Handled(s, "deleted")
    BY <1>s, <2>5, OpenIsUnknown
  <2>7. ~Handled(s, "lapsed")' /\ ~Handled(s, "deleted")'
    BY <2>2, <2>6 DEF Handled, Runs, Hook!Working, Hook!At
  <2> QED
    BY <1>1, <2>2, <2>3, <2>4, <2>7 DEF TurnedOn, TurnedOff
<1> QED
  BY <1>2, <1>3

LEMMA WatchedInit == Init => Held /\ Hook!OneWorkerPerEvent /\ Reported /\ Fresh /\ Watched
<1> SUFFICES ASSUME Init PROVE Held /\ Hook!OneWorkerPerEvent /\ Reported /\ Fresh /\ Watched
  OBVIOUS
<1> PICK bought \in {{}, {First}}, tried \in {{}, {First}} :
      /\ bought \cap tried = {}
      /\ contract = [c \in Contracts |-> CASE c \in bought -> "active"
                                           [] c \in tried -> "cancelled"
                                           [] OTHER -> "none"]
      /\ profiles = bought
      /\ mirror = [c \in Contracts |-> IF c \in bought THEN Earlier ELSE NoSession]
      /\ purchase = [s \in Sessions |-> "none"]
      /\ balance = [c \in Contracts |-> 0]
      /\ session = [s \in Sessions |->
                      IF s = Earlier /\ bought \cup tried # {}
                        THEN [state |-> IF bought # {} THEN "paid" ELSE "unheard",
                              kind |-> "product", contract |-> First]
                        ELSE Unopened]
      /\ desk = [d \in Desks |-> Idle]
      /\ step = [w \in Workers |-> "start"]
      /\ alone = {Earlier : c \in bought} /\ crossed = {} /\ cut = {}
      /\ Hook!InitWith({Earlier : c \in bought} \X {"completed", "started"})
  BY DEF Init
<1>e. /\ entry = [e \in Events |-> IF e \in {Earlier : c \in bought} \X {"completed", "started"}
                                     THEN "processed" ELSE "none"]
      /\ owed = {} /\ worker = [w \in Workers |-> Hook!Idle]
  BY DEF Hook!InitWith
<1>w. \A w \in Workers : worker[w].at = "idle"
  BY <1>e DEF Hook!Idle
<1>1. Held /\ Hook!OneWorkerPerEvent /\ Fresh
  BY <1>w DEF Held, Hook!OneWorkerPerEvent, Fresh, Hook!Working, Hook!At
<1>2. ASSUME NEW s \in Sessions, NEW k \in Kinds
      PROVE  entry[<<s, k>>] # "none" => s = Earlier /\ bought # {} /\ k \in {"completed", "started"}
  BY <1>e, EventsArePairs
<1>3. ASSUME NEW s \in Sessions, NEW k \in Kinds
      PROVE  Known(s, k) => session[s].state = "paid" /\ k \in {"completed", "started"}
  BY <1>e, <1>2 DEF Known
<1>4. \A s \in Sessions : session[s].state \in {"paid", "unheard", "none"}
  BY DEF Unopened
<1>5. Reported
  BY <1>3, <1>4 DEF Reported, Kinds
<1>6. ASSUME NEW s \in alone PROVE Alone(s) /\ TurnedOn(s) /\ TurnedOff(s)
  <2>1. s = Earlier /\ bought = {First} /\ s \in Sessions
    BY Constants
  <2>2. session[s] = [state |-> "paid", kind |-> "product", contract |-> First]
    BY <2>1
  <2>3. \A t \in Sessions \ {s} : session[t].state = "none"
    BY <2>1 DEF Unopened
  <2>4. Alone(s)
    BY <2>2, <2>3 DEF Alone, SessionsOf, Idle
  <2>5. contract[First] = "active" /\ First \in profiles
    BY <2>1, Constants
  <2>6. TurnedOn(s)
    BY <2>2, <2>5 DEF TurnedOn
  <2>7. ~Handled(s, "lapsed") /\ ~Handled(s, "deleted")
    BY <1>1, <1>3, <2>1, HandledIsKnown DEF Kinds
  <2> QED
    BY <2>4, <2>6, <2>7 DEF TurnedOff
<1>7. Watched
  BY <1>6 DEF Watched
<1> QED
  BY <1>1, <1>5, <1>7

LEMMA SafeStep ==
  Shape /\ Held /\ Hook!OneWorkerPerEvent /\ Reported /\ Fresh /\ Watched /\ [Next]_vars
    => Held' /\ Hook!OneWorkerPerEvent' /\ Reported' /\ Fresh' /\ Watched'
<1> SUFFICES ASSUME Shape, Held, Hook!OneWorkerPerEvent, Reported, Fresh, Watched, [Next]_vars
             PROVE  Held' /\ Hook!OneWorkerPerEvent' /\ Reported' /\ Fresh' /\ Watched'
  OBVIOUS
<1>1. Held' /\ Hook!OneWorkerPerEvent'
  BY HeldStep, StepIsLedgerStep DEF Shape, TypeOK, WellTyped
<1> QED
  BY <1>1, ReportedStep, FreshStep, WatchedStep

(* Who paid through the only checkout of his contract has his product from *)
(* when the event is handled till his subscription ends, whatever else is  *)
(* repeated, late or interrupted; set up too, if no handler was cut short. *)
THEOREM PayingTurnsOn == Spec => []PaidTurnsOn
<1>1. Shape /\ Held /\ Watched => PaidTurnsOn
  <2> SUFFICES ASSUME Shape, Held, Watched, NEW s \in alone, session[s].state = "paid",
                      entry[<<s, "completed">>] = "processed"
               PROVE  /\ contract[session[s].contract] = "active"
                      /\ session[s].contract \in profiles \/ s \in cut
    BY DEF PaidTurnsOn
  <2>1. Activated(s) /\ TurnedOn(s)
    BY DEF Activated, Handled, Watched
  <2>2. \A w \in Workers : ~Runs(w, s, "completed")
    BY DEF Held, Runs
  <2> QED
    BY <2>1, <2>2 DEF TurnedOn
<1> QED
  BY <1>1, WatchedInit, SafeStep, InitShape, ShapeStep, PTL DEF Spec

(* Who has stopped paying loses the product when the event is handled, and *)
(* no late delivery of an earlier one gives it back, unless its handler had*)
(* looked before.                                                          *)
THEOREM EndingTurnsOff == Spec => []EndedTurnsOff
<1>1. Watched => EndedTurnsOff
  BY DEF Watched, TurnedOff, Handled, EndedTurnsOff
<1> QED
  BY <1>1, WatchedInit, SafeStep, InitShape, ShapeStep, PTL DEF Spec

-----------------------------------------------------------------------------
(* An event closed as processed is closed for good.                        *)
ProcessedIsFinal ==
  [][\A e \in Events : entry[e] = "processed" => entry'[e] = "processed"]_vars

(* claimForRetry never takes a processed event up again, and no handler    *)
(* that throws or dies late marks it as failed: it was its only handler.   *)
THEOREM ProcessedStays == Spec => ProcessedIsFinal
<1>1. Shape /\ Held /\ [Next]_vars =>
        [\A e \in Events : entry[e] = "processed" => entry'[e] = "processed"]_vars
  <2> SUFFICES ASSUME Shape, Held, [Next]_vars, NEW e \in Events, entry[e] = "processed"
               PROVE  entry'[e] = "processed"
    OBVIOUS
  <2>1. Hook!WellTyped /\ Carries /\ LedgerNext
    BY StepIsLedgerStep DEF Shape, TypeOK, WellTyped
  <2>2. \A w \in Workers : Hook!Working(w) => worker[w].event # e
    BY DEF Held
  <2> QED
    BY <2>1, <2>2, EntryChanges
<1> QED
  BY <1>1, WatchedInit, SafeStep, InitShape, ShapeStep, PTL DEF Spec, ProcessedIsFinal

-----------------------------------------------------------------------------
(* A paid pack whose event is processed has been credited.                 *)
ProcessedPackIsCredited ==
  \A s \in Sessions :
    session[s].kind = "pack" /\ entry[<<s, "completed">>] = "processed" => purchase[s] = "credited"

(* Nothing but an expired session expires a purchase, and the handler of a *)
(* completed one has credited it when it is done.                          *)
Delivered(s) ==
  session[s].kind = "pack" =>
    /\ purchase[s] = "expired" => session[s].state = "expired"
    /\ Handled(s, "completed") => purchase[s] = "credited"

PacksDelivered == \A s \in Sessions : Delivered(s)

(* A purchase is decided once, by a handler of its own session.            *)
LEMMA PurchaseChanges ==
  ASSUME Shape, [Next]_vars, NEW s \in Sessions, session[s].state # "none"
  PROVE  \/ purchase'[s] = purchase[s]
         \/ \E w \in Workers :
              /\ SessionOf(w) = s /\ session' = session /\ purchase[s] = "pending"
              /\ \/ CreditPack(w) /\ purchase'[s] = "credited"
                 \/ ExpirePack(w) /\ purchase'[s] = "expired"
<1>t. WellTyped
  BY DEF Shape, TypeOK
<1>1. ASSUME NEW c \in Contracts, PackOpens(c) PROVE purchase'[s] = purchase[s]
  <2>1. NextSession # s
    BY <1>1, NextIsNew DEF PackOpens, Shape
  <2> QED
    BY <1>t, <1>1, <2>1 DEF PackOpens, WellTyped
<1>2. ASSUME NEW d \in Desks, SessionOpens(d) \/ UnheardOpens(d) PROVE purchase' = purchase
  BY <1>2 DEF SessionOpens, UnheardOpens, rows
<1>3. ASSUME NEW t \in Sessions, MovesOn(t) PROVE purchase' = purchase
  BY <1>t, <1>3, MovesOnInState
<1>4. ASSUME NEW c \in Contracts, Spend(c) PROVE purchase' = purchase
  BY <1>4 DEF Spend
<1>5. ASSUME NEW w \in Workers, CreditPack(w)
      PROVE  \/ purchase'[s] = purchase[s]
             \/ /\ SessionOf(w) = s /\ session' = session /\ purchase[s] = "pending"
                /\ purchase'[s] = "credited"
  BY <1>t, <1>5 DEF CreditPack, WellTyped
<1>6. ASSUME NEW w \in Workers, ExpirePack(w)
      PROVE  \/ purchase'[s] = purchase[s]
             \/ /\ SessionOf(w) = s /\ session' = session /\ purchase[s] = "pending"
                /\ purchase'[s] = "expired"
  BY <1>t, <1>6 DEF ExpirePack, WellTyped
<1> QED
  BY <1>t, <1>1, <1>2, <1>3, <1>4, <1>5, <1>6, SessionsChange

LEMMA OpeningIsUndelivered ==
  ASSUME Shape, Held', Reported', [Next]_vars, NEW s \in Sessions, session[s].state = "none"
  PROVE  Delivered(s)'
<1>t. WellTyped
  BY DEF Shape, TypeOK
<1>1. session[s].kind = "none" /\ purchase[s] = "none"
  BY DEF Shape, TypeOK, PurchasesHaveSessions, UnopenedIsBlank
<1>2. ASSUME NEW r, NextSession \in Sessions, r.state = "open",
             session' = [session EXCEPT ![NextSession] = r]
      PROVE  session'[s].kind = "pack" => session'[s].state = "open"
  BY <1>t, <1>1, <1>2 DEF WellTyped
<1>3. session'[s].kind = "pack" => session'[s].state = "open"
  <2>1. ASSUME NEW d \in Desks, SessionOpens(d) \/ UnheardOpens(d)
        PROVE  session'[s].kind = "pack" => session'[s].state = "open"
    BY <1>t, <1>1, <1>2, <2>1 DEF SessionOpens, UnheardOpens, OpensUnheard, WellTyped
  <2>2. ASSUME NEW c \in Contracts, PackOpens(c) PROVE session'[s].kind = "pack" => session'[s].state = "open"
    BY <1>2, <2>2 DEF PackOpens
  <2>3. ASSUME NEW t \in Sessions, MovesOn(t) PROVE session'[s].kind = "none"
    BY <1>t, <1>1, <2>3, MovesOnInState
  <2>4. ASSUME NEW w \in Workers, CreditPack(w) \/ ExpirePack(w) PROVE session' = session
    BY <2>4 DEF CreditPack, ExpirePack
  <2>5. ASSUME NEW c \in Contracts, Spend(c) PROVE session' = session
    BY <2>5 DEF Spend
  <2> QED
    BY <1>t, <1>1, <2>1, <2>2, <2>3, <2>4, <2>5, SessionsChange
<1>4. purchase'[s] # "expired"
  <2>1. ASSUME NEW c \in Contracts, PackOpens(c) PROVE purchase'[s] # "expired"
    BY <1>t, <1>1, <2>1 DEF PackOpens, WellTyped
  <2>2. ASSUME NEW d \in Desks, SessionOpens(d) \/ UnheardOpens(d) PROVE purchase' = purchase
    BY <2>2 DEF SessionOpens, UnheardOpens, rows
  <2>3. ASSUME NEW t \in Sessions, MovesOn(t) PROVE purchase' = purchase
    BY <1>t, <2>3, MovesOnInState
  <2>4. ASSUME NEW w \in Workers, CreditPack(w) \/ ExpirePack(w) PROVE purchase'[s] # "expired"
    BY <1>t, <1>1, <2>4 DEF CreditPack, ExpirePack, WellTyped
  <2>5. ASSUME NEW c \in Contracts, Spend(c) PROVE purchase' = purchase
    BY <2>5 DEF Spend
  <2> QED
    BY <1>t, <1>1, <2>1, <2>2, <2>3, <2>4, <2>5, SessionsChange
<1>5. session'[s].kind = "pack" => ~Handled(s, "completed")'
  <2>1. Handled(s, "completed")' => Known(s, "completed")'
    BY DEF Handled, Runs, Held, Known
  <2> QED
    BY <1>3, <2>1 DEF Reported
<1> QED
  BY <1>4, <1>5 DEF Delivered

LEMMA DeliveredStep ==
  ASSUME Shape, Held, Reported, PacksDelivered, [Next]_vars,
         NEW s \in Sessions, session[s].state # "none"
  PROVE  Delivered(s)'
<1> SUFFICES ASSUME session'[s].kind = "pack"
             PROVE  /\ purchase'[s] = "expired" => session'[s].state = "expired"
                    /\ Handled(s, "completed")' => purchase'[s] = "credited"
  BY DEF Delivered
<1>t. WellTyped
  BY DEF Shape, TypeOK
<1>p. /\ session[s].kind = "pack" /\ purchase[s] # "none"
      /\ purchase[s] = "expired" => session[s].state = "expired"
      /\ Handled(s, "completed") => purchase[s] = "credited"
      /\ session'[s].state = session[s].state \/ MovesOn(s)
  BY SessionKept DEF Shape, TypeOK, PurchasesHaveSessions, PacksDelivered, Delivered
<1>1. ASSUME purchase'[s] = "expired" PROVE session'[s].state = "expired"
  <2>1. CASE purchase[s] = "expired"
    BY <1>t, <1>p, <2>1, MovesOnInState
  <2>2. CASE purchase[s] # "expired"
    <3>1. PICK w \in Workers : SessionOf(w) = s /\ session' = session /\ ExpirePack(w)
      BY <1>1, <2>2, PurchaseChanges
    <3>2. Hook!Working(w) /\ worker[w].event[2] = "expired" /\ worker[w].at # "idle"
      BY <3>1 DEF ExpirePack, HandlesPack, Handles, Hook!Working, Hook!At
    <3>3. worker[w].event = <<s, "expired">>
      BY <3>1, <3>2, EventsArePairs DEF Shape, Carries, SessionOf
    <3>4. Known(s, "expired")
      BY <3>2, <3>3 DEF Held, Known
    <3> QED
      BY <3>1, <3>4 DEF Reported
  <2> QED
    BY <2>1, <2>2
<1>2. ASSUME Handled(s, "completed")' PROVE purchase'[s] = "credited"
  <2>1. CASE Handled(s, "completed")
    BY <1>p, <2>1, PurchaseChanges
  <2>2. CASE ~Handled(s, "completed")
    <3>1. PICK w \in Workers :
            /\ SessionOf(w) = s /\ worker[w].event = <<s, "completed">> /\ Hook!Working(w)
            /\ \/ ReadForActivation(w) /\ contract[ContractOf(w)] # "pending"
               \/ CreateProfile(w) \/ ReadForExpiry(w) \/ CancelPending(w)
               \/ Retire(w) \/ CreditPack(w) \/ ExpirePack(w)
      BY <1>2, <2>2, BecomesHandled DEF Kinds
    <3>2. CreditPack(w)
      BY <1>p, <3>1
         DEF ReadForActivation, CreateProfile, ReadForExpiry, CancelPending, Retire, ExpirePack,
             HandlesProduct, HandlesPack, Handles, IsProduct
    <3>3. Known(s, "completed")
      BY <3>1 DEF Held, Known
    <3>4. purchase[s] \in {"pending", "credited"}
      BY <1>t, <1>p, <3>3 DEF Reported, WellTyped
    <3> QED
      BY <1>t, <3>1, <3>2, <3>4 DEF CreditPack, WellTyped
  <2> QED
    BY <2>1, <2>2
<1> QED
  BY <1>1, <1>2

(* creditUsagePackFromCheckout: with PacksImplementBalance, a paid pack is *)
(* credited exactly once by the time its event is processed - whichever of *)
(* its deliveries threw, died or was answered as a duplicate.              *)
THEOREM PaidPacksAreDelivered == Spec => []ProcessedPackIsCredited
<1>1. Init => PacksDelivered
  BY DEF Init, Unopened, PacksDelivered, Delivered
<1>2. PacksDelivered => ProcessedPackIsCredited
  BY DEF PacksDelivered, Delivered, Handled, ProcessedPackIsCredited
<1>3. Shape /\ Held /\ Hook!OneWorkerPerEvent /\ Reported /\ Fresh /\ Watched /\ PacksDelivered
        /\ [Next]_vars => PacksDelivered'
  <2> SUFFICES ASSUME Shape, Held, Reported, PacksDelivered, [Next]_vars, Held', Reported'
               PROVE  PacksDelivered'
    BY SafeStep
  <2> QED
    BY OpeningIsUndelivered, DeliveredStep DEF PacksDelivered
<1> QED
  BY <1>1, <1>2, <1>3, WatchedInit, SafeStep, InitShape, ShapeStep, PTL DEF Spec

-----------------------------------------------------------------------------
(* A contract never has more messages left from packs than were paid for.  *)
BalancePaidFor ==
  \A c \in Contracts :
    balance[c] <= Units * Cardinality({s \in PaidPacks : session[s].contract = c})

(* The same of the abstract packs, by the purchases credited to a contract.*)
CreditedTo(c) == {s \in Sessions : <<s, c>> \in CreditedPairs}

Bought ==
  /\ CreditedPairs \subseteq PaidPairs
  /\ \A c \in Contracts : balance[c] <= Units * Cardinality(CreditedTo(c))

LEMMA OneMoreUnit ==
  ASSUME NEW n \in Nat, NEW b \in Nat, b <= Units * n
  PROVE  b + Units <= Units * (n + 1)
BY Constants

LEMMA CreditedAreFinite ==
  ASSUME NEW c
  PROVE  IsFiniteSet(CreditedTo(c)) /\ Cardinality(CreditedTo(c)) \in Nat
<1>1. IsFiniteSet(Sessions)
  BY Constants, FS_Interval DEF Sessions, Earlier
<1>2. CreditedTo(c) \subseteq Sessions
  BY DEF CreditedTo
<1> QED
  BY <1>1, <1>2, FS_Subset, FS_CardinalityType

LEMMA BoughtStep == Shape /\ Truthful /\ Bought /\ [Next]_vars => Bought'
<1> SUFFICES ASSUME Shape, Truthful, Bought, [Next]_vars PROVE Bought'
  OBVIOUS
<1>t. balance \in [Contracts -> Nat] /\ Units \in Nat
  BY Constants DEF Shape, TypeOK, WellTyped
<1>n. \A c \in Contracts : Cardinality(CreditedTo(c)) \in Nat /\ IsFiniteSet(CreditedTo(c))
  BY CreditedAreFinite
<1>1. CASE PacksStutter
  BY <1>1 DEF PacksStutter, Bought, CreditedTo
<1>2. ASSUME NEW p \in Sessions, NEW a \in Contracts, Packs!Pay(p, a) PROVE Bought'
  <2>1. PaidPairs \subseteq PaidPairs' /\ CreditedPairs' = CreditedPairs /\ balance' = balance
    BY <1>2 DEF Packs!Pay, PaidPairs, CreditedPairs
  <2> QED
    BY <2>1 DEF Bought, CreditedTo
<1>3. ASSUME NEW p \in Sessions, NEW a \in Contracts, Packs!Credit(p, a) PROVE Bought'
  <2>1. /\ <<p, a>> \in PaidPairs /\ <<p, a>> \notin CreditedPairs
        /\ CreditedPairs' = CreditedPairs \cup {<<p, a>>} /\ PaidPairs' = PaidPairs
        /\ balance' = [balance EXCEPT ![a] = @ + Units]
    BY <1>3 DEF Packs!Credit, PaidPairs, CreditedPairs
  <2>2. CreditedTo(a)' = CreditedTo(a) \cup {p} /\ p \notin CreditedTo(a)
    BY <2>1 DEF CreditedTo
  <2>3. \A c \in Contracts \ {a} : CreditedTo(c)' = CreditedTo(c) /\ balance'[c] = balance[c]
    BY <1>t, <2>1 DEF CreditedTo
  <2>4. Cardinality(CreditedTo(a)') = Cardinality(CreditedTo(a)) + 1
    BY <1>n, <2>2, FS_AddElement
  <2>5. balance'[a] <= Units * Cardinality(CreditedTo(a)')
    <3>1. balance'[a] = balance[a] + Units /\ balance[a] \in Nat
      BY <1>t, <2>1
    <3>2. balance[a] <= Units * Cardinality(CreditedTo(a))
      BY DEF Bought
    <3> QED
      BY <1>n, <2>4, <3>1, <3>2, OneMoreUnit
  <2>6. CreditedPairs' \subseteq PaidPairs'
    BY <2>1 DEF Bought
  <2> QED
    BY <2>3, <2>5, <2>6 DEF Bought
<1>4. ASSUME NEW a \in Contracts, Packs!Spend(a) PROVE Bought'
  <2>1. /\ balance' = [balance EXCEPT ![a] = @ - 1]
        /\ CreditedPairs' = CreditedPairs /\ PaidPairs' = PaidPairs
    BY <1>4 DEF Packs!Spend, PaidPairs, CreditedPairs
  <2>2. \A c \in Contracts : balance'[c] <= balance[c] /\ balance[c] \in Nat /\ balance'[c] \in Int
    BY <1>t, <2>1
  <2>3. \A c \in Contracts : CreditedTo(c)' = CreditedTo(c)
    BY <2>1 DEF CreditedTo
  <2>4. \A c \in Contracts : Units * Cardinality(CreditedTo(c)) \in Nat
    BY <1>t, <1>n
  <2>5. ASSUME NEW c \in Contracts PROVE balance'[c] <= Units * Cardinality(CreditedTo(c)')
    <3> DEFINE most == Units * Cardinality(CreditedTo(c))
    <3>1. balance[c] <= most /\ most \in Nat
      BY <2>4 DEF Bought
    <3>2. Units * Cardinality(CreditedTo(c)') = most
      BY <2>3
    <3> HIDE DEF most
    <3> QED
      BY <2>2, <3>1, <3>2
  <2> QED
    BY <2>1, <2>5 DEF Bought
<1> QED
  BY <1>1, <1>2, <1>3, <1>4, StepIsPackStep DEF Packs!Next

(* Through repeated, late and interrupted deliveries no balance outgrows   *)
(* what was paid for it (creditUsagePackFromCheckout, consumeMessage-      *)
(* Allowance).                                                             *)
THEOREM BalanceIsPaidFor == Spec => []BalancePaidFor
<1>1. Init => Bought
  <2> SUFFICES ASSUME Init PROVE Bought
    OBVIOUS
  <2>1. CreditedPairs = {} /\ balance = [c \in Contracts |-> 0]
    BY DEF Init, CreditedPairs
  <2>2. \A c \in Contracts : CreditedTo(c) = {}
    BY <2>1 DEF CreditedTo
  <2>3. Cardinality({}) = 0 /\ Units * 0 = 0
    BY FS_EmptySet, Constants
  <2> QED
    BY <2>1, <2>2, <2>3 DEF Bought
<1>2. Shape /\ Bought => BalancePaidFor
  <2> SUFFICES ASSUME Shape, Bought, NEW c \in Contracts
               PROVE  balance[c] <= Units * Cardinality({s \in PaidPacks : session[s].contract = c})
    BY DEF BalancePaidFor
  <2> DEFINE Mine == {s \in PaidPacks : session[s].contract = c}
  <2>1. CreditedTo(c) \subseteq Mine
    BY DEF Bought, CreditedTo, PaidPairs
  <2>2. IsFiniteSet(Mine)
    <3>1. IsFiniteSet(Sessions)
      BY Constants, FS_Interval DEF Sessions, Earlier
    <3> QED
      BY <3>1, FS_Subset DEF PaidPacks
  <2> HIDE DEF Mine
  <2>3. /\ Cardinality(CreditedTo(c)) <= Cardinality(Mine)
        /\ Cardinality(CreditedTo(c)) \in Nat /\ Cardinality(Mine) \in Nat
    BY <2>1, <2>2, FS_Subset, FS_CardinalityType, CreditedAreFinite
  <2>4. Units * Cardinality(CreditedTo(c)) <= Units * Cardinality(Mine)
    BY <2>3, Constants
  <2>5. balance[c] <= Units * Cardinality(CreditedTo(c)) /\ balance[c] \in Nat
    BY DEF Bought, Shape, TypeOK, WellTyped
  <2>6. Units * Cardinality(CreditedTo(c)) \in Nat /\ Units * Cardinality(Mine) \in Nat
    BY <2>3, Constants
  <2>7. balance[c] <= Units * Cardinality(Mine)
    BY <2>4, <2>5, <2>6
  <2> QED
    BY <2>7 DEF Mine
<1> QED
  BY <1>1, <1>2, BoughtStep, InitShape, ShapeStep, TruthfulInit, TruthfulStep, PTL DEF Spec
=============================================================================
