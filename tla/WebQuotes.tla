------------------------------ MODULE WebQuotes ------------------------------
(***************************************************************************)
(* A web project is sold by quote.  The operator writes and sends it, the  *)
(* client accepts it, Stripe invoices the whole amount or a deposit and    *)
(* the balance, and the project is switched on by the event of the last    *)
(* payment.  Invoices, payments and the events live at Stripe.             *)
(*                                                                         *)
(* A request of the client or of an operator is a process `desk`: it reads *)
(* the quote, checks its status, talks to Stripe and writes, and its write *)
(* does not look again.  The handler of an event is a process `hook`.      *)
(* Stripe delivers invoice.paid again until it is answered 200, which may  *)
(* be before a handler has run to its end: StripeWebhook is about how, and *)
(* such an event is `lost` here.  The other invoice events only copy into  *)
(* the Invoice rows what a request has copied before.                      *)
(*                                                                         *)
(* One project.  Descriptions, currencies, mails and audit rows are left   *)
(* out, and so are operators' rights.                                      *)
(***************************************************************************)
EXTENDS Integers, FiniteSets

CONSTANTS Amounts, Deposits,
          InvoiceCount,   \* bound: invoices, numbered as they are created
          Clients, Operators, Hooks,
          MaxTurns        \* bound: edits, resets of a cancelled quote, keys that run
                          \* out, handlers that stop, events given up, together

NoDeposit == 0
NoInvoice == 0
Desks == Clients \cup Operators
Invoices == 1 .. InvoiceCount
Roles == {"full", "deposit", "final"}

ASSUME AmountsAreNat == Amounts \subseteq Nat /\ Amounts # {}
ASSUME DepositsArePositive == Deposits \subseteq Nat \ {0}
ASSUME BoundsAreNat == {InvoiceCount, MaxTurns} \subseteq Nat

VARIABLES quote,     \* the WebQuote: status, amount and deposit
          product,   \* status of the project's ClientProduct
          mirror,    \* invoice -> status of its Invoice row
          marked,    \* invoices noted as paid outside Stripe
          invoice,   \* invoice -> its state, role and amount at Stripe
          byHand,    \* invoices paid outside Stripe
          kept,      \* role -> the invoice Stripe answers with for its key
          owed,      \* invoices whose invoice.paid is to be delivered
          lost,      \* and those whose event will not be delivered any more
          desk, hook,
          crossed,   \* a write met a quote other than the one it was read for
          dropped,   \* deposits whose event found the quote not invoiced
          turns

rows == <<quote, product, mirror, marked>>
stripe == <<invoice, byHand, kept, owed, lost>>
vars == <<rows, stripe, desk, hook, crossed, dropped, turns>>

Statuses == {"none", "draft", "sent", "accepted", "invoiced", "invoiced_deposit",
             "deposit_paid", "invoiced_final", "paid", "cancelled"}
Invoiced == {"invoiced", "invoiced_deposit", "invoiced_final"}
Terms == {[amount |-> a, deposit |-> d] : a \in Amounts, d \in Deposits \cup {NoDeposit}}

(* Slip: a deposit of everything.                                          *)
SoundAtMost(t) == t.deposit # NoDeposit => t.deposit <= t.amount

(* The check of the bodies: a deposit is less than the amount.  Without a  *)
(* deposit the amount may be zero.                                         *)
Sound(t) == t.deposit # NoDeposit => t.deposit < t.amount

TermsOf(q) == [amount |-> q.amount, deposit |-> q.deposit]

SomeTerms == CHOOSE t \in Terms : Sound(t)
NoQuote == [status |-> "none", amount |-> SomeTerms.amount, deposit |-> SomeTerms.deposit]
Free == [op |-> "none", at |-> "idle", terms |-> SomeTerms, invoice |-> NoInvoice, late |-> FALSE]
Off == [at |-> "idle", invoice |-> NoInvoice]
Unissued == [state |-> "none", role |-> "full", amount |-> 0]

Issued == {i \in Invoices : invoice[i].state # "none"}
InState(state) == {i \in Issued : invoice[i].state = state}
NextInvoice == Cardinality(Issued) + 1

Init ==
  /\ quote = NoQuote
  /\ product = "quote_pending"
  /\ mirror = [i \in Invoices |-> "none"]
  /\ marked = {} /\ byHand = {} /\ owed = {} /\ lost = {}
  /\ invoice = [i \in Invoices |-> Unissued]
  /\ kept = [r \in Roles |-> NoInvoice]
  /\ desk = [d \in Desks |-> Free]
  /\ hook = [h \in Hooks |-> Off]
  /\ crossed = FALSE /\ dropped = {}
  /\ turns = 0

-----------------------------------------------------------------------------
(* canEditWebQuote, canSendWebQuote, canCancelWebQuote, canVoidInvoice and *)
(* the checks of the other routes.                                         *)
Allowed(op) ==
  CASE op \in {"edit", "send"}   -> {"draft", "sent"}
    [] op = "cancel"             -> {"draft", "sent", "accepted"}
    [] op = "reset"              -> {"cancelled"}
    [] op = "invoice"            -> {"accepted"}
    [] op = "final"              -> {"deposit_paid"}
    [] op \in {"void", "pay"}    -> Invoiced

(* Slip: the payment is noted down once Stripe has taken it.               *)
FirstPaysFirst(op) ==
  CASE op \in {"edit", "send", "cancel", "reset"} -> "write"
    [] op \in {"invoice", "final"} -> "create"
    [] op = "void" -> "void"
    [] op = "pay" -> "pay"

First(op) ==
  CASE op \in {"edit", "send", "cancel", "reset"} -> "write"
    [] op \in {"invoice", "final"} -> "create"
    [] op = "void" -> "void"
    [] op = "pay" -> "mark"

(* The newest Invoice row.                                                 *)
Newest(i) == mirror[i] # "none" /\ \A j \in Invoices : mirror[j] # "none" => j <= i

Turns == turns < MaxTurns /\ turns' = turns + 1
Moves(d, at) == desk' = [desk EXCEPT ![d].at = at]
Leaves(d) == desk' = [desk EXCEPT ![d] = Free]
SameTerms == TermsOf(quote)

(* The quote is written; who has read it before is late from now on.       *)
Rewrites(q, freed) ==
  /\ quote' = q
  /\ desk' = [d \in Desks |->
               IF d \in freed THEN Free
               ELSE IF desk[d].at # "idle" /\ q # quote THEN [desk[d] EXCEPT !.late = TRUE]
               ELSE desk[d]]

(* The draft is created.                                                   *)
Draft(t) ==
  /\ product = "quote_pending" /\ quote.status = "none"
  /\ Sound(t)
  /\ quote' = [status |-> "draft", amount |-> t.amount, deposit |-> t.deposit]
  /\ UNCHANGED <<product, mirror, marked, stripe, desk, hook, crossed, dropped, turns>>

(* A request reads the quote and what else it needs, and passes its checks.*)
Begin(d, op, t, i) ==
  /\ desk[d].at = "idle"
  /\ quote.status \in Allowed(op)
  /\ desk' = [desk EXCEPT ![d] = [op |-> op, at |-> First(op), terms |-> t,
                                  invoice |-> i, late |-> FALSE]]
  /\ UNCHANGED <<rows, stripe, hook, crossed, dropped>>

Plain(d, op) ==
  /\ Begin(d, op, IF op \in {"invoice", "final"} THEN SameTerms ELSE SomeTerms, NoInvoice)
  /\ UNCHANGED turns

Edit(d, t) ==
  /\ Turns
  /\ Sound(t) /\ t # SameTerms
  /\ Begin(d, "edit", t, NoInvoice)

Reset(d) ==
  /\ Turns
  /\ Begin(d, "reset", SomeTerms, NoInvoice)

OnInvoice(d, op, i) ==
  /\ Newest(i) /\ mirror[i] # "paid"
  /\ Begin(d, op, SomeTerms, i) /\ UNCHANGED turns

(* The client's click: read and conditional update come to one step.  The  *)
(* invoice is then generated from a reading of its own.                    *)
Accept(d) ==
  /\ desk[d].at = "idle"
  /\ quote.status = "sent"
  /\ quote' = [quote EXCEPT !.status = "accepted"]
  /\ desk' = [e \in Desks |->
               IF e = d THEN [Free EXCEPT !.op = "invoice", !.at = "look"]
               ELSE IF desk[e].at # "idle" THEN [desk[e] EXCEPT !.late = TRUE] ELSE desk[e]]
  /\ UNCHANGED <<product, mirror, marked, stripe, hook, crossed, dropped, turns>>

Look(d) ==
  /\ desk[d].at = "look"
  /\ IF quote.status = "accepted"
       THEN desk' = [desk EXCEPT ![d].at = "create", ![d].terms = SameTerms, ![d].late = FALSE]
       ELSE Leaves(d)
  /\ UNCHANGED <<rows, stripe, hook, crossed, dropped, turns>>

-----------------------------------------------------------------------------
(* resolveDepositPlan and what is invoiced on it.                          *)
RoleOf(op, t) ==
  IF op = "final" THEN "final" ELSE IF t.deposit # NoDeposit THEN "deposit" ELSE "full"

(* Slip: the balance is taken for as much as the deposit.                  *)
DueHalves(role, t) == IF role = "full" THEN t.amount ELSE t.deposit

Due(role, t) ==
  CASE role = "full"    -> t.amount
    [] role = "deposit" -> t.deposit
    [] role = "final"   -> t.amount - t.deposit

RoleAt(d) == RoleOf(desk[d].op, desk[d].terms)
DueAt(d) == Due(RoleAt(d), desk[d].terms)

(* An invoice for nothing is paid as soon as it is finalised.              *)
StateAtFirst(amount) == IF amount = 0 THEN "paid" ELSE "open"

(* createWebQuoteInvoice.  For a key it has seen Stripe repeats its first  *)
(* answer, whatever has become of the invoice since.                       *)
CreateInvoice(d) ==
  LET key == kept[RoleAt(d)]
      new == IF key = NoInvoice THEN NextInvoice ELSE key
  IN /\ desk[d].at = "create"
     /\ new \in Invoices
     /\ key # NoInvoice => invoice[key].amount = DueAt(d)
     /\ IF key = NoInvoice
          THEN /\ invoice' = [invoice EXCEPT ![new] =
                                [state |-> StateAtFirst(DueAt(d)), role |-> RoleAt(d),
                                 amount |-> DueAt(d)]]
               /\ kept' = [kept EXCEPT ![RoleAt(d)] = new]
               /\ owed' = IF DueAt(d) = 0 THEN owed \cup {new} ELSE owed
          ELSE UNCHANGED <<invoice, kept, owed>>
     /\ desk' = [desk EXCEPT ![d].at = "sync", ![d].invoice = new]
     /\ crossed' = (crossed \/ desk[d].late)
     /\ UNCHANGED <<rows, byHand, lost, hook, dropped, turns>>

(* syncInvoiceFromStripe with Stripe's answer.                             *)
SyncAnswer(d) ==
  /\ desk[d].at \in {"sync", "syncvoid"}
  /\ mirror' = [mirror EXCEPT ![desk[d].invoice] =
                  IF desk[d].at = "sync" THEN StateAtFirst(invoice[desk[d].invoice].amount)
                  ELSE "void"]
  /\ Moves(d, "write")
  /\ UNCHANGED <<quote, product, marked, stripe, hook, crossed, dropped, turns>>

(* voidWebQuoteInvoice                                                     *)
VoidInvoice(d) ==
  LET i == desk[d].invoice
  IN /\ desk[d].at = "void"
     /\ invoice[i].state = "open"
     /\ invoice' = [invoice EXCEPT ![i].state = "void"]
     /\ Moves(d, "syncvoid")
     /\ UNCHANGED <<rows, byHand, kept, owed, lost, hook, crossed, dropped, turns>>

(* markInvoicePaidManually: the payment is noted down, then Stripe told.   *)
Mark(d) ==
  /\ desk[d].at = "mark"
  /\ marked' = marked \cup {desk[d].invoice}
  /\ Moves(d, "pay")
  /\ UNCHANGED <<quote, product, mirror, stripe, hook, crossed, dropped, turns>>

PayByHand(d) ==
  LET i == desk[d].invoice
  IN /\ desk[d].at = "pay"
     /\ invoice[i].state = "open"
     /\ invoice' = [invoice EXCEPT ![i].state = "paid"]
     /\ byHand' = byHand \cup {i}
     /\ owed' = owed \cup {i}
     /\ Leaves(d)
     /\ UNCHANGED <<rows, kept, lost, hook, crossed, dropped, turns>>

StatusAfter(d) ==
  CASE desk[d].op = "send"                -> "sent"
    [] desk[d].op \in {"cancel", "void"}  -> "cancelled"
    [] desk[d].op = "reset"               -> "draft"
    [] desk[d].op = "edit"                -> quote.status
    [] desk[d].op = "final"               -> "invoiced_final"
    [] desk[d].op = "invoice"             ->
         IF RoleAt(d) = "deposit" THEN "invoiced_deposit" ELSE "invoiced"

(* The update names only the row's id.  An edit writes both terms, the one *)
(* that was not sent as it was read.                                       *)
Write(d) ==
  /\ desk[d].at = "write"
  /\ Rewrites(IF desk[d].op = "edit"
                THEN [status |-> quote.status, amount |-> desk[d].terms.amount,
                      deposit |-> desk[d].terms.deposit]
                ELSE [quote EXCEPT !.status = StatusAfter(d)],
              {d})
  /\ crossed' = \/ crossed \/ desk[d].late
                \/ StatusAfter(d) = "cancelled" /\ InState("open") \cup InState("paid") # {}
  /\ UNCHANGED <<product, mirror, marked, stripe, hook, dropped, turns>>

(* Stripe refuses or cannot be reached, a write fails, the process ends:   *)
(* what was done before stays done.                                        *)
GivesUp(d) ==
  /\ desk[d].at # "idle"
  /\ Leaves(d)
  /\ UNCHANGED <<rows, stripe, hook, crossed, dropped, turns>>

-----------------------------------------------------------------------------
(* At Stripe: the client pays, and a key is forgotten after 24 hours.      *)
Pays(i) ==
  /\ invoice[i].state = "open"
  /\ invoice' = [invoice EXCEPT ![i].state = "paid"]
  /\ owed' = owed \cup {i}
  /\ UNCHANGED <<rows, byHand, kept, lost, desk, hook, crossed, dropped, turns>>

KeyExpires(r) ==
  /\ Turns /\ kept[r] # NoInvoice
  /\ kept' = [kept EXCEPT ![r] = NoInvoice]
  /\ UNCHANGED <<rows, invoice, byHand, owed, lost, desk, hook, crossed, dropped>>

-----------------------------------------------------------------------------
(* dispatch of invoice.paid: the invoice is mirrored, then                 *)
(* activateClientProductFromWebQuotePayment reads and writes.              *)
Deliver(h, i) ==
  /\ hook[h].at = "idle" /\ i \in owed
  /\ \A g \in Hooks : hook[g].invoice # i
  /\ hook' = [hook EXCEPT ![h] = [at |-> "sync", invoice |-> i]]
  /\ UNCHANGED <<rows, stripe, desk, crossed, dropped, turns>>

Done(h) ==
  /\ owed' = owed \ {hook[h].invoice}
  /\ hook' = [hook EXCEPT ![h] = Off]

SyncPaid(h) ==
  /\ hook[h].at = "sync"
  /\ mirror' = [mirror EXCEPT ![hook[h].invoice] = "paid"]
  /\ hook' = [hook EXCEPT ![h].at = "read"]
  /\ UNCHANGED <<quote, product, marked, stripe, desk, crossed, dropped, turns>>

IsDeposit(i) == invoice[i].role = "deposit"

(* Slip: only an invoice for the whole is waited for.                      *)
AwaitedFullOnly(i) ==
  /\ product = "quote_pending"
  /\ IF IsDeposit(i) THEN quote.status = "invoiced" ELSE quote.status # "paid"

(* Slip: a payment counts once its invoice is written down.                *)
AwaitedInvoiced(i) ==
  /\ product = "quote_pending"
  /\ quote.status \in IF IsDeposit(i) THEN {"invoiced_deposit"} ELSE {"invoiced", "invoiced_final"}

Awaited(i) ==
  /\ product = "quote_pending"
  /\ IF IsDeposit(i) THEN quote.status = "invoiced_deposit" ELSE quote.status # "paid"

ReadForPayment(h) ==
  LET i == hook[h].invoice
  IN /\ hook[h].at = "read"
     /\ IF Awaited(i)
          THEN hook' = [hook EXCEPT ![h].at = "apply"] /\ UNCHANGED owed
          ELSE Done(h)
     /\ dropped' = IF IsDeposit(i) /\ ~(product = "quote_pending" /\ quote.status = "invoiced_deposit")
                     THEN dropped \cup {i} ELSE dropped
     /\ UNCHANGED <<rows, invoice, byHand, kept, lost, desk, crossed, turns>>

(* Slip: any payment is taken for the last one.                            *)
ApplyPaymentAsLast(h) ==
  /\ hook[h].at = "apply"
  /\ Rewrites([quote EXCEPT !.status = "paid"], {})
  /\ product' = "active"
  /\ Done(h)
  /\ UNCHANGED <<mirror, marked, invoice, byHand, kept, lost, crossed, dropped, turns>>

ApplyPayment(h) ==
  /\ hook[h].at = "apply"
  /\ IF IsDeposit(hook[h].invoice)
       THEN Rewrites([quote EXCEPT !.status = "deposit_paid"], {}) /\ UNCHANGED product
       ELSE Rewrites([quote EXCEPT !.status = "paid"], {}) /\ product' = "active"
  /\ Done(h)
  /\ UNCHANGED <<mirror, marked, invoice, byHand, kept, lost, crossed, dropped, turns>>

Loses(i) == owed' = owed \ {i} /\ lost' = lost \cup {i}

(* The handler throws or its process dies.  The next delivery finds the    *)
(* event's row failed, or pending for ten minutes, and handles it again;   *)
(* but one that comes earlier, and finds it pending, is answered 200 and   *)
(* is the last.                                                            *)
Stops(h) ==
  /\ Turns /\ hook[h].at # "idle"
  /\ hook' = [hook EXCEPT ![h] = Off]
  /\ UNCHANGED <<owed, lost>> \/ Loses(hook[h].invoice)
  /\ UNCHANGED <<rows, invoice, byHand, kept, desk, crossed, dropped>>

(* Stripe has disabled the endpoint, which kept failing on other events.   *)
Undelivered(i) ==
  /\ Turns /\ i \in owed
  /\ \A h \in Hooks : hook[h].invoice # i
  /\ Loses(i)
  /\ UNCHANGED <<rows, invoice, byHand, kept, desk, hook, crossed, dropped>>

-----------------------------------------------------------------------------
Handle(h) == SyncPaid(h) \/ ReadForPayment(h) \/ ApplyPayment(h)

Request(d) ==
  \/ \E op \in {"send", "cancel", "invoice", "final"} : Plain(d, op)
  \/ \E op \in {"void", "pay"}, i \in Invoices : OnInvoice(d, op, i)
  \/ \E t \in Terms : Edit(d, t)
  \/ Reset(d)

Proceed(d) ==
  \/ Look(d) \/ CreateInvoice(d) \/ SyncAnswer(d) \/ VoidInvoice(d)
  \/ Mark(d) \/ PayByHand(d) \/ Write(d) \/ GivesUp(d)

Receives(i) == \E h \in Hooks : Deliver(h, i)

Next ==
  \/ \E t \in Terms : Draft(t)
  \/ \E d \in Clients : Accept(d)
  \/ \E d \in Operators : Request(d)
  \/ \E d \in Desks : Proceed(d)
  \/ \E i \in Invoices : Pays(i) \/ Receives(i) \/ Undelivered(i)
  \/ \E r \in Roles : KeyExpires(r)
  \/ \E h \in Hooks : Handle(h) \/ Stops(h)

(* Stripe delivers what it has not given up, and handlers run on.          *)
Fairness ==
  /\ \A h \in Hooks : WF_vars(Handle(h))
  /\ WF_vars(\E i \in Invoices : Receives(i))

Spec == Init /\ [][Next]_vars
FairSpec == Spec /\ Fairness

-----------------------------------------------------------------------------
WellTyped ==
  /\ quote \in [status : Statuses, amount : Amounts, deposit : Deposits \cup {NoDeposit}]
  /\ product \in {"quote_pending", "active"}
  /\ mirror \in [Invoices -> {"none", "open", "paid", "void"}]
  /\ marked \subseteq Invoices /\ byHand \subseteq Invoices /\ dropped \subseteq Invoices
  /\ invoice \in [Invoices -> [state : {"none", "open", "paid", "void"}, role : Roles, amount : Nat]]
  /\ kept \in [Roles -> Invoices \cup {NoInvoice}]
  /\ owed \subseteq Invoices /\ lost \subseteq Invoices
  /\ desk \in [Desks -> [op : {"none", "edit", "send", "cancel", "reset", "invoice", "final", "void", "pay"},
                         at : {"idle", "look", "create", "sync", "void", "syncvoid", "mark", "pay", "write"},
                         terms : Terms, invoice : Invoices \cup {NoInvoice}, late : BOOLEAN]]
  /\ hook \in [Hooks -> [at : {"idle", "sync", "read", "apply"}, invoice : Invoices \cup {NoInvoice}]]
  /\ crossed \in BOOLEAN
  /\ turns \in 0 .. MaxTurns

(* Rows and processes are well formed, and a deposit leaves a balance to   *)
(* invoice.                                                                *)
TypeOK == WellTyped /\ (quote.deposit # NoDeposit => quote.deposit < quote.amount)

PaidRoles == {invoice[i].role : i \in InState("paid")}

(* The project is on only if Stripe has the money: the full invoice, or    *)
(* the deposit and the balance.  Through stale writes, repeated events and *)
(* forgotten keys a deposit alone never switches it on.                    *)
ActivatedByPayment ==
  product = "active" => "full" \in PaidRoles \/ {"deposit", "final"} \subseteq PaidRoles

(* And it is what the quote says, in one invoice or in two, through edits  *)
(* before and after it was sent, cancelling and starting over, and keys    *)
(* that still answer with an earlier invoice - as long as no request wrote *)
(* over a quote other than the one it had read (an edit may: the code does *)
(* not keep its word there), and the quote was never cancelled with an     *)
(* invoice for it open or paid.                                            *)
PaidInFull ==
  product = "active" /\ ~crossed =>
    \/ \E i \in InState("paid") : invoice[i].role = "full" /\ invoice[i].amount = quote.amount
    \/ \E i, j \in InState("paid") :
         /\ invoice[i].role = "deposit" /\ invoice[j].role = "final"
         /\ invoice[i].amount + invoice[j].amount = quote.amount

(* A payment outside Stripe never shows as paid without the note of how:   *)
(* the event may overtake the request that caused it.                      *)
HandPaymentsMarked == \A i \in byHand : mirror[i] = "paid" => i \in marked

(* A paid full or final invoice switches the project on, however the quote *)
(* was written over meanwhile, unless its event is lost.                   *)
PaymentActivates ==
  \A i \in Invoices :
    invoice[i].state = "paid" /\ ~IsDeposit(i) ~> product = "active" \/ i \in lost

(* A paid deposit is counted, unless its event found the quote not yet, or *)
(* no longer, waiting for it, or is lost.                                  *)
DepositIsCounted ==
  \A i \in Invoices :
    i \in owed /\ IsDeposit(i) ~> quote.status = "deposit_paid" \/ i \in dropped \cup lost
=============================================================================
