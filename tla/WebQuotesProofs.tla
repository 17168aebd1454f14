-------------------------- MODULE WebQuotesProofs --------------------------
(***************************************************************************)
(* Proofs about WebQuotes, for any terms and any number of invoices,       *)
(* clients, operators and event handlers.                                  *)
(*                                                                         *)
(* The inductive invariant adds to TypeOK that a process at work has the   *)
(* invoice it works on, and that the terms it carries are sound ones.      *)
(***************************************************************************)
EXTENDS WebQuotes, FiniteSetTheorems, TLAPS

Ops == {"none", "edit", "send", "cancel", "reset", "invoice", "final", "void", "pay"}
DeskStations == {"idle", "look", "create", "sync", "void", "syncvoid", "mark", "pay", "write"}

(* Where in which request a process may be.                                *)
Fits(r) ==
  /\ r.at = "look" => r.op = "invoice"
  /\ r.at \in {"create", "sync"} => r.op \in {"invoice", "final"}
  /\ r.at \in {"void", "syncvoid"} => r.op = "void"
  /\ r.at \in {"mark", "pay"} => r.op = "pay"
  /\ r.at = "write" => r.op \notin {"none", "pay"}

(* The record of a request.                                                *)
RequestOK(r) ==
  /\ r \in [op : Ops, at : DeskStations, terms : Terms, invoice : Invoices \cup {NoInvoice}, late : BOOLEAN]
  /\ r.at \in {"sync", "void", "syncvoid", "mark", "pay"} => r.invoice \in Invoices
  /\ Sound(r.terms) /\ Fits(r)

DesksOK == desk \in [Desks -> {desk[d] : d \in Desks}] /\ \A d \in Desks : RequestOK(desk[d])

HooksOK ==
  /\ hook \in [Hooks -> [at : {"idle", "sync", "read", "apply"}, invoice : Invoices \cup {NoInvoice}]]
  /\ \A h \in Hooks : hook[h].at # "idle" => hook[h].invoice \in Invoices

QuoteOK ==
  /\ quote \in [status : Statuses, amount : Amounts, deposit : Deposits \cup {NoDeposit}]
  /\ quote.deposit # NoDeposit => quote.deposit < quote.amount

RowsOK ==
  /\ product \in {"quote_pending", "active"}
  /\ mirror \in [Invoices -> {"none", "open", "paid", "void"}]
  /\ marked \subseteq Invoices /\ dropped \subseteq Invoices
  /\ crossed \in BOOLEAN
  /\ turns \in 0 .. MaxTurns

StripeOK ==
  /\ invoice \in [Invoices -> [state : {"none", "open", "paid", "void"}, role : Roles, amount : Nat]]
  /\ kept \in [Roles -> Invoices \cup {NoInvoice}]
  /\ byHand \subseteq Invoices /\ owed \subseteq Invoices /\ lost \subseteq Invoices

Shape == DesksOK /\ HooksOK /\ QuoteOK /\ RowsOK /\ StripeOK

-----------------------------------------------------------------------------
(* The terms that stand for none are sound.                                *)
LEMMA TermsAreRecords == Terms = [amount : Amounts, deposit : Deposits \cup {NoDeposit}]
<1>1. ASSUME NEW t \in Terms PROVE t \in [amount : Amounts, deposit : Deposits \cup {NoDeposit}]
  BY DEF Terms
<1>2. ASSUME NEW t \in [amount : Amounts, deposit : Deposits \cup {NoDeposit}] PROVE t \in Terms
  <2>1. t = [amount |-> t.amount, deposit |-> t.deposit]
    OBVIOUS
  <2> QED
    BY <2>1 DEF Terms
<1> QED
  BY <1>1, <1>2

LEMMA Constants ==
  /\ Amounts \subseteq Nat /\ Deposits \cup {NoDeposit} \subseteq Nat
  /\ InvoiceCount \in Nat /\ MaxTurns \in Nat
  /\ SomeTerms \in Terms /\ Sound(SomeTerms)
  /\ NoInvoice \notin Invoices
<1>1. Amounts \subseteq Nat /\ Deposits \cup {NoDeposit} \subseteq Nat /\ InvoiceCount \in Nat /\ MaxTurns \in Nat
  BY AmountsAreNat, DepositsArePositive, BoundsAreNat DEF NoDeposit
<1>2. PICK a \in Amounts : a \in Nat
  BY AmountsAreNat
<1>3. [amount |-> a, deposit |-> NoDeposit] \in Terms
  BY DEF Terms
<1>4. Sound([amount |-> a, deposit |-> NoDeposit])
  BY DEF Sound
<1>5. \E t \in Terms : Sound(t)
  BY <1>3, <1>4
<1>6. SomeTerms \in Terms /\ Sound(SomeTerms)
  BY <1>5 DEF SomeTerms
<1>7. NoInvoice \notin Invoices
  BY <1>1 DEF NoInvoice, Invoices
<1> QED
  BY <1>1, <1>6, <1>7

LEMMA IdleIsOK == RequestOK(Free) /\ RequestOK([Free EXCEPT !.op = "invoice", !.at = "look"])
BY Constants DEF RequestOK, Fits, Free, Ops, DeskStations

LEMMA InitShape == Init => Shape
<1> SUFFICES ASSUME Init PROVE Shape
  OBVIOUS
<1> USE Constants
<1>1. QuoteOK
  BY TermsAreRecords DEF Init, NoQuote, Statuses, QuoteOK, Sound
<1>2. DesksOK
  BY IdleIsOK DEF Init, DesksOK
<1>3. HooksOK
  BY DEF Init, HooksOK, Off
<1>4. RowsOK
  <2>1. turns \in 0 .. MaxTurns
    <3>1. turns = 0
      BY DEF Init
    <3> QED
      BY <3>1
  <2>3. crossed \in BOOLEAN
    BY Zenon DEF Init
  <2>2. marked = {} /\ dropped = {} /\ product = "quote_pending" /\ mirror = [i \in Invoices |-> "none"]
    BY DEF Init
  <2> QED
    BY <2>1, <2>2, <2>3 DEF RowsOK
<1>5. StripeOK
  BY DEF Init, StripeOK, Unissued, Roles
<1> QED
  BY <1>1, <1>2, <1>3, <1>4, <1>5 DEF Shape

LEMMA ShapeIsTyped == Shape => TypeOK
<1> SUFFICES ASSUME Shape PROVE TypeOK
  OBVIOUS
<1>1. desk \in [Desks -> [op : Ops, at : DeskStations, terms : Terms,
                          invoice : Invoices \cup {NoInvoice}, late : BOOLEAN]]
  BY DEF Shape, DesksOK, RequestOK
<1> QED
  BY <1>1 DEF Shape, HooksOK, QuoteOK, RowsOK, StripeOK, TypeOK, WellTyped, Ops, DeskStations

-----------------------------------------------------------------------------
(* One request moves.                                                      *)
LEMMA DeskMoves ==
  ASSUME DesksOK, NEW d \in Desks, NEW r, RequestOK(r), desk' = [desk EXCEPT ![d] = r]
  PROVE  DesksOK'
BY DEF DesksOK, RequestOK

LEMMA SoundTerms == QuoteOK => TermsOf(quote) \in Terms /\ Sound(TermsOf(quote))
BY TermsAreRecords DEF QuoteOK, TermsOf, Sound

LEMMA BeginsOK ==
  ASSUME DesksOK, NEW d \in Desks, NEW op \in Ops \ {"none"}, NEW t \in Terms, Sound(t),
         NEW i \in Invoices \cup {NoInvoice}, op \in {"void", "pay"} => i \in Invoices, Begin(d, op, t, i)
  PROVE  DesksOK'
<1> DEFINE r == [op |-> op, at |-> First(op), terms |-> t, invoice |-> i, late |-> FALSE]
<1>1. desk' = [desk EXCEPT ![d] = r]
  BY DEF Begin
<1>2. /\ First(op) \in DeskStations
      /\ First(op) \in {"sync", "void", "syncvoid", "mark", "pay"} => op \in {"void", "pay"}
  BY DEF First, Ops, DeskStations
<1>3. RequestOK(r)
  BY <1>2 DEF RequestOK, Fits, First, Ops
<1> QED
  BY <1>1, <1>3, DeskMoves

LEMMA RewritesOK ==
  ASSUME DesksOK, NEW q, NEW freed, Rewrites(q, freed)
  PROVE  /\ DesksOK'
         /\ \A d \in Desks : \/ desk'[d] = Free
                             \/ /\ desk'[d].at = desk[d].at /\ desk'[d].op = desk[d].op
                                /\ desk'[d].invoice = desk[d].invoice
<1> SUFFICES ASSUME NEW d \in Desks
             PROVE  /\ RequestOK(desk'[d])
                    /\ \/ desk'[d] = Free
                       \/ /\ desk'[d].at = desk[d].at /\ desk'[d].op = desk[d].op
                          /\ desk'[d].invoice = desk[d].invoice
  BY DEF Rewrites, DesksOK
<1>1. RequestOK(desk[d])
  BY DEF DesksOK
<1>2. desk'[d] = Free \/ desk'[d] = [desk[d] EXCEPT !.late = TRUE] \/ desk'[d] = desk[d]
  BY DEF Rewrites
<1>3. CASE desk'[d] = Free
  BY <1>3, IdleIsOK
<1>4. CASE desk'[d] = desk[d]
  BY <1>1, <1>4
<1>5. CASE desk'[d] = [desk[d] EXCEPT !.late = TRUE]
  <2>1. /\ desk'[d].at = desk[d].at /\ desk'[d].op = desk[d].op
        /\ desk'[d].invoice = desk[d].invoice /\ desk'[d].terms = desk[d].terms
    BY <1>1, <1>5 DEF RequestOK
  <2>2. desk'[d] \in [op : Ops, at : DeskStations, terms : Terms, invoice : Invoices \cup {NoInvoice},
                      late : BOOLEAN]
    BY <1>1, <1>5 DEF RequestOK
  <2> QED
    BY <1>1, <2>1, <2>2 DEF RequestOK, Fits
<1> QED
  BY <1>2, <1>3, <1>4, <1>5

(* What becomes of the requests.                                           *)
LEMMA DesksStep == Shape /\ [Next]_vars => DesksOK'
<1> SUFFICES ASSUME Shape, [Next]_vars PROVE DesksOK'
  OBVIOUS
<1>t. DesksOK /\ QuoteOK /\ HooksOK /\ StripeOK
  BY DEF Shape
<1>0. CASE UNCHANGED desk
  BY <1>t, <1>0 DEF DesksOK
<1>1. ASSUME NEW d \in Clients, Accept(d) PROVE DesksOK'
  <2> SUFFICES ASSUME NEW e \in Desks PROVE RequestOK(desk'[e])
    BY <1>1 DEF Accept, DesksOK
  <2>1. RequestOK(desk[e])
    BY <1>t DEF DesksOK
  <2>2. \/ desk'[e] = [Free EXCEPT !.op = "invoice", !.at = "look"]
        \/ desk'[e] = [desk[e] EXCEPT !.late = TRUE]
        \/ desk'[e] = desk[e]
    BY <1>1 DEF Accept
  <2> QED
    BY <2>1, <2>2, IdleIsOK DEF RequestOK, Fits
<1>2. ASSUME NEW d \in Operators, Request(d) PROVE DesksOK'
  <2> USE DEF Ops
  <2>d. d \in Desks
    BY DEF Desks
  <2>1. ASSUME NEW op \in {"send", "cancel", "invoice", "final"}, Plain(d, op) PROVE DesksOK'
    <3>1. CASE op \in {"invoice", "final"}
      <4>1. Begin(d, op, TermsOf(quote), NoInvoice)
        BY <2>1, <3>1 DEF Plain, SameTerms
      <4> QED
        BY <1>t, <2>d, <4>1, SoundTerms, BeginsOK
    <3>2. CASE op \notin {"invoice", "final"}
      <4>1. Begin(d, op, SomeTerms, NoInvoice)
        BY <2>1, <3>2 DEF Plain
      <4> QED
        BY <1>t, <2>d, <4>1, Constants, BeginsOK
    <3> QED
      BY <3>1, <3>2
  <2>2. ASSUME NEW op \in {"void", "pay"}, NEW i \in Invoices, OnInvoice(d, op, i) PROVE DesksOK'
    <3>1. Begin(d, op, SomeTerms, i)
      BY <2>2 DEF OnInvoice
    <3> QED
      BY <1>t, <2>d, <3>1, Constants, BeginsOK
  <2>3. ASSUME NEW t \in Terms, Edit(d, t) PROVE DesksOK'
    <3>1. Begin(d, "edit", t, NoInvoice) /\ Sound(t)
      BY <2>3 DEF Edit
    <3> QED
      BY <1>t, <2>d, <3>1, BeginsOK
  <2>4. ASSUME Reset(d) PROVE DesksOK'
    <3>1. Begin(d, "reset", SomeTerms, NoInvoice)
      BY <2>4 DEF Reset
    <3> QED
      BY <1>t, <2>d, <3>1, Constants, BeginsOK
  <2> QED
    BY <1>2, <2>1, <2>2, <2>3, <2>4 DEF Request
<1>3. ASSUME NEW d \in Desks, Proceed(d) PROVE DesksOK'
  <2>t. RequestOK(desk[d])
    BY <1>t DEF DesksOK
  <2> USE DEF DeskStations
  <2>1. CASE Look(d)
    <3>1. \/ desk' = [desk EXCEPT ![d] = Free]
          \/ desk' = [desk EXCEPT ![d] = [desk[d] EXCEPT !.at = "create", !.terms = TermsOf(quote), !.late = FALSE]]
      BY <2>1 DEF Look, Leaves, SameTerms
    <3>2. RequestOK([desk[d] EXCEPT !.at = "create", !.terms = TermsOf(quote), !.late = FALSE])
      BY <1>t, <2>1, <2>t, SoundTerms DEF RequestOK, Fits, Look
    <3> QED
      BY <1>t, <3>1, <3>2, IdleIsOK, DeskMoves
  <2>2. CASE CreateInvoice(d)
    <3>1. PICK i \in Invoices : desk' = [desk EXCEPT ![d] = [desk[d] EXCEPT !.at = "sync", !.invoice = i]]
      BY <2>2 DEF CreateInvoice
    <3>2. RequestOK([desk[d] EXCEPT !.at = "sync", !.invoice = i])
      BY <2>2, <2>t DEF RequestOK, Fits, CreateInvoice
    <3> QED
      BY <1>t, <3>1, <3>2, DeskMoves
  <2>3. ASSUME NEW at \in {"write", "syncvoid", "pay"}, Moves(d, at),
               at = "write" => desk[d].at \in {"sync", "syncvoid"},
               at = "syncvoid" => desk[d].at = "void",
               at = "pay" => desk[d].at = "mark"
        PROVE  DesksOK'
    <3>1. desk' = [desk EXCEPT ![d] = [desk[d] EXCEPT !.at = at]]
      BY <2>3 DEF Moves
    <3>2. RequestOK([desk[d] EXCEPT !.at = at])
      BY <2>t, <2>3 DEF RequestOK, Fits
    <3> QED
      BY <1>t, <3>1, <3>2, DeskMoves
  <2>4. ASSUME Leaves(d) PROVE DesksOK'
    BY <1>t, <2>4, IdleIsOK, DeskMoves DEF Leaves
  <2>5. CASE Write(d)
    <3>1. PICK q : Rewrites(q, {d})
      BY <2>5 DEF Write
    <3> QED
      BY <1>t, <3>1, RewritesOK
  <2> QED
    BY <1>3, <2>1, <2>2, <2>3, <2>4, <2>5
       DEF Proceed, SyncAnswer, VoidInvoice, Mark, PayByHand, GivesUp
<1>4. ASSUME NEW h \in Hooks, ApplyPayment(h) PROVE DesksOK'
  <2>1. PICK q : Rewrites(q, {})
    BY <1>4 DEF ApplyPayment
  <2> QED
    BY <1>t, <2>1, RewritesOK
<1>5. ASSUME \/ \E t \in Terms : Draft(t)
             \/ \E i \in Invoices : Pays(i) \/ Receives(i) \/ Undelivered(i)
             \/ \E r \in Roles : KeyExpires(r)
             \/ \E h \in Hooks : SyncPaid(h) \/ ReadForPayment(h) \/ Stops(h)
             \/ UNCHANGED vars
      PROVE  UNCHANGED desk
  BY <1>5 DEF Draft, Pays, Receives, Deliver, Undelivered, KeyExpires, SyncPaid, ReadForPayment, Stops, vars
<1> QED
  BY <1>0, <1>1, <1>2, <1>3, <1>4, <1>5 DEF Next, Handle

LEMMA HooksStep == Shape /\ [Next]_vars => HooksOK'
<1> SUFFICES ASSUME Shape, [Next]_vars PROVE HooksOK'
  OBVIOUS
<1>t. HooksOK
  BY DEF Shape
<1>0. CASE UNCHANGED hook
  BY <1>t, <1>0 DEF HooksOK
<1>1. ASSUME NEW h \in Hooks, NEW i \in Invoices, Deliver(h, i) PROVE HooksOK'
  BY <1>t, <1>1 DEF HooksOK, Deliver
<1>2. ASSUME NEW h \in Hooks, Handle(h) \/ Stops(h) PROVE HooksOK'
  <2>1. \/ hook' = [hook EXCEPT ![h] = Off]
        \/ hook[h].at = "sync" /\ hook' = [hook EXCEPT ![h].at = "read"]
        \/ hook[h].at = "read" /\ hook' = [hook EXCEPT ![h].at = "apply"]
    BY <1>2 DEF Handle, SyncPaid, ReadForPayment, ApplyPayment, Stops, Done
  <2> QED
    BY <1>t, <2>1 DEF HooksOK, Off
<1>3. ASSUME NEW d \in Desks, Proceed(d) PROVE UNCHANGED hook
  BY <1>3 DEF Proceed, Look, CreateInvoice, SyncAnswer, VoidInvoice, Mark, PayByHand, Write, GivesUp
<1>4. ASSUME NEW d \in Operators, Request(d) PROVE UNCHANGED hook
  BY <1>4 DEF Request, Plain, OnInvoice, Edit, Reset, Begin
<1>5. ASSUME \/ \E t \in Terms : Draft(t)
             \/ \E d \in Clients : Accept(d)
             \/ \E i \in Invoices : Pays(i) \/ Undelivered(i)
             \/ \E r \in Roles : KeyExpires(r)
             \/ UNCHANGED vars
      PROVE  UNCHANGED hook
  BY <1>5 DEF Draft, Accept, Pays, Undelivered, KeyExpires, vars
<1> QED
  BY <1>0, <1>1, <1>2, <1>3, <1>4, <1>5 DEF Next, Receives

(* Who writes the quote.                                                   *)
LEMMA QuoteChanges ==
  [Next]_vars => \/ UNCHANGED <<quote, product>>
                 \/ \E t \in Terms : Draft(t)
                 \/ \E d \in Clients : Accept(d)
                 \/ \E d \in Desks : Write(d)
                 \/ \E h \in Hooks : ApplyPayment(h)
<1> DEFINE Goal == \/ UNCHANGED <<quote, product>>
                   \/ \E t \in Terms : Draft(t)
                   \/ \E d \in Clients : Accept(d)
                   \/ \E d \in Desks : Write(d)
                   \/ \E h \in Hooks : ApplyPayment(h)
<1> SUFFICES ASSUME [Next]_vars PROVE Goal
  OBVIOUS
<1> USE DEF rows
<1>1. ASSUME NEW d \in Desks, Proceed(d) PROVE Goal
  BY <1>1 DEF Proceed, Look, CreateInvoice, SyncAnswer, VoidInvoice, Mark, PayByHand, GivesUp
<1>2. ASSUME NEW d \in Operators, Request(d) PROVE Goal
  BY <1>2 DEF Request, Plain, OnInvoice, Edit, Reset, Begin
<1>3. ASSUME NEW h \in Hooks, Handle(h) \/ Stops(h) PROVE Goal
  BY <1>3 DEF Handle, SyncPaid, ReadForPayment, Stops
<1>4. ASSUME \/ \E i \in Invoices : Pays(i) \/ Receives(i) \/ Undelivered(i)
             \/ \E r \in Roles : KeyExpires(r)
             \/ UNCHANGED vars
      PROVE  Goal
  BY <1>4 DEF Pays, Receives, Deliver, Undelivered, KeyExpires, vars
<1> QED
  BY <1>1, <1>2, <1>3, <1>4 DEF Next

LEMMA QuoteStep == Shape /\ [Next]_vars => QuoteOK'
<1> SUFFICES ASSUME Shape, [Next]_vars PROVE QuoteOK'
  OBVIOUS
<1>t. QuoteOK /\ DesksOK
  BY DEF Shape
<1> USE DEF Statuses
<1>0. CASE UNCHANGED <<quote, product>>
  BY <1>t, <1>0 DEF QuoteOK
<1>1. ASSUME NEW t \in Terms, Draft(t) PROVE QuoteOK'
  BY <1>1, TermsAreRecords DEF Draft, QuoteOK, Sound
<1>2. ASSUME NEW status \in Statuses, quote' = [quote EXCEPT !.status = status] PROVE QuoteOK'
  BY <1>t, <1>2 DEF QuoteOK
<1>3. ASSUME NEW d \in Clients, Accept(d) PROVE QuoteOK'
  BY <1>2, <1>3 DEF Accept
<1>4. ASSUME NEW d \in Desks, Write(d) PROVE QuoteOK'
  <2>t. RequestOK(desk[d])
    BY <1>t DEF DesksOK
  <2>1. CASE desk[d].op = "edit"
    <3>1. quote' = [status |-> quote.status, amount |-> desk[d].terms.amount,
                    deposit |-> desk[d].terms.deposit]
      BY <1>4, <2>1 DEF Write, Rewrites
    <3>2. desk[d].terms \in [amount : Amounts, deposit : Deposits \cup {NoDeposit}] /\ Sound(desk[d].terms)
      BY <2>t, TermsAreRecords DEF RequestOK
    <3> QED
      BY <1>t, <3>1, <3>2 DEF QuoteOK, Sound
  <2>2. CASE desk[d].op \in {"send", "cancel", "void", "reset", "invoice", "final"}
    <3>1. quote' = [quote EXCEPT !.status = StatusAfter(d)]
      BY <1>4, <2>2 DEF Write, Rewrites
    <3>2. StatusAfter(d) \in Statuses
      BY <2>2 DEF StatusAfter
    <3> QED
      BY <1>2, <3>1, <3>2
  <2> QED
    BY <1>4, <2>t, <2>1, <2>2 DEF Write, RequestOK, Fits, Ops
<1>5. ASSUME NEW h \in Hooks, ApplyPayment(h) PROVE QuoteOK'
  BY <1>2, <1>5 DEF ApplyPayment, Rewrites
<1> QED
  BY <1>0, <1>1, <1>3, <1>4, <1>5, QuoteChanges

(* Who writes to the other rows.                                           *)
LEMMA RowsStep == Shape /\ [Next]_vars => RowsOK'
<1> SUFFICES ASSUME Shape, [Next]_vars PROVE RowsOK'
  OBVIOUS
<1>t. RowsOK /\ HooksOK /\ DesksOK
  BY DEF Shape
<1>m. MaxTurns \in Nat
  BY Constants
<1> USE DEF rows
<1>0. CASE UNCHANGED <<product, mirror, marked, dropped, turns>> /\ crossed' \in BOOLEAN
  BY <1>t, <1>0 DEF RowsOK
<1>1. ASSUME Turns, UNCHANGED <<product, mirror, marked, dropped, crossed>> PROVE RowsOK'
  BY <1>t, <1>m, <1>1 DEF RowsOK, Turns
<1>2. ASSUME NEW d \in Desks, Proceed(d) PROVE RowsOK'
  <2>1. CASE SyncAnswer(d)
    <3>1. desk[d].invoice \in Invoices
      BY <1>t, <2>1 DEF SyncAnswer, DesksOK, RequestOK
    <3>2. mirror' \in [Invoices -> {"none", "open", "paid", "void"}]
      BY <1>t, <2>1, <3>1 DEF SyncAnswer, StateAtFirst, RowsOK
    <3> QED
      BY <1>t, <2>1, <3>2 DEF SyncAnswer, RowsOK
  <2>2. CASE Mark(d)
    <3>1. desk[d].invoice \in Invoices
      BY <1>t, <2>2 DEF Mark, DesksOK, RequestOK
    <3> QED
      BY <1>t, <2>2, <3>1 DEF Mark, RowsOK
  <2>3. CASE CreateInvoice(d) \/ Write(d)
    <3>1. crossed' \in BOOLEAN
      BY <2>3, Zenon DEF CreateInvoice, Write
    <3> QED
      BY <1>0, <2>3, <3>1 DEF CreateInvoice, Write
  <2>4. CASE Look(d) \/ VoidInvoice(d) \/ PayByHand(d) \/ GivesUp(d)
    BY <1>t, <2>4 DEF Look, VoidInvoice, PayByHand, GivesUp, RowsOK
  <2> QED
    BY <1>2, <2>1, <2>2, <2>3, <2>4 DEF Proceed
<1>3. ASSUME NEW d \in Operators, Request(d) PROVE RowsOK'
  <2>1. UNCHANGED <<product, mirror, marked, dropped, crossed>> /\ (UNCHANGED turns \/ Turns)
    BY <1>3 DEF Request, Plain, OnInvoice, Edit, Reset, Begin
  <2> QED
    BY <1>1, <1>t, <2>1 DEF RowsOK
<1>4. ASSUME NEW h \in Hooks, Handle(h) \/ Stops(h) PROVE RowsOK'
  <2>1. CASE SyncPaid(h)
    <3>1. hook[h].invoice \in Invoices
      BY <1>t, <2>1 DEF SyncPaid, HooksOK
    <3>2. mirror' \in [Invoices -> {"none", "open", "paid", "void"}]
      BY <1>t, <2>1, <3>1 DEF SyncPaid, RowsOK
    <3> QED
      BY <1>t, <2>1, <3>2 DEF SyncPaid, RowsOK
  <2>2. CASE ReadForPayment(h)
    <3>1. hook[h].invoice \in Invoices
      BY <1>t, <2>2 DEF ReadForPayment, HooksOK
    <3> QED
      BY <1>t, <2>2, <3>1 DEF ReadForPayment, RowsOK
  <2>3. CASE ApplyPayment(h)
    BY <1>t, <2>3 DEF ApplyPayment, RowsOK
  <2>4. CASE Stops(h)
    BY <1>1, <2>4 DEF Stops
  <2> QED
    BY <1>4, <2>1, <2>2, <2>3, <2>4 DEF Handle
<1>5. ASSUME NEW r \in Roles, KeyExpires(r) PROVE RowsOK'
  BY <1>1, <1>5 DEF KeyExpires
<1>6. ASSUME \/ \E t \in Terms : Draft(t)
             \/ \E d \in Clients : Accept(d)
             \/ \E i \in Invoices : Pays(i) \/ Receives(i)
             \/ UNCHANGED vars
      PROVE  UNCHANGED <<product, mirror, marked, dropped, turns, crossed>>
  BY <1>6 DEF Draft, Accept, Pays, Receives, Deliver, vars
<1>7. UNCHANGED <<product, mirror, marked, dropped, turns, crossed>> => RowsOK'
  BY <1>t DEF RowsOK
<1>8. ASSUME NEW i \in Invoices, Undelivered(i) PROVE RowsOK'
  BY <1>1, <1>8 DEF Undelivered
<1> QED
  BY <1>2, <1>3, <1>4, <1>5, <1>6, <1>7, <1>8 DEF Next

-----------------------------------------------------------------------------
(* The invoice a request asks for.                                         *)
NewInvoice(d) == [state |-> StateAtFirst(DueAt(d)), role |-> RoleAt(d), amount |-> DueAt(d)]

(* What a request invoices is an amount.                                   *)
LEMMA DueIsAnAmount ==
  ASSUME DesksOK, NEW d \in Desks, desk[d].at = "create"
  PROVE  RoleAt(d) \in Roles /\ DueAt(d) \in Nat /\ (RoleAt(d) = "final" => desk[d].op = "final")
<1>1. desk[d].terms \in [amount : Amounts, deposit : Deposits \cup {NoDeposit}] /\ Sound(desk[d].terms)
  BY TermsAreRecords DEF DesksOK, RequestOK
<1>2. desk[d].terms.amount \in Nat /\ desk[d].terms.deposit \in Nat
      /\ desk[d].terms.deposit <= desk[d].terms.amount
  <2>1. desk[d].terms.amount \in Nat /\ desk[d].terms.deposit \in Nat
    BY <1>1, Constants
  <2>2. CASE desk[d].terms.deposit = NoDeposit
    BY <2>1, <2>2 DEF NoDeposit
  <2>3. CASE desk[d].terms.deposit # NoDeposit
    BY <1>1, <2>1, <2>3 DEF Sound
  <2> QED
    BY <2>1, <2>2, <2>3
<1>3. RoleAt(d) \in Roles /\ (RoleAt(d) = "final" => desk[d].op = "final")
  BY DEF RoleAt, RoleOf, Roles
<1>4. DueAt(d) \in Nat
  <2>1. CASE RoleAt(d) = "full"
    BY <1>2, <2>1 DEF DueAt, Due
  <2>2. CASE RoleAt(d) = "deposit"
    BY <1>2, <2>2 DEF DueAt, Due
  <2>3. CASE RoleAt(d) = "final"
    BY <1>2, <2>3 DEF DueAt, Due
  <2> QED
    BY <1>3, <2>1, <2>2, <2>3 DEF Roles
<1> QED
  BY <1>3, <1>4

(* Who changes what Stripe holds.                                          *)
LEMMA StripeChanges ==
  [Next]_vars => \/ UNCHANGED stripe
                 \/ \E d \in Desks : CreateInvoice(d) \/ VoidInvoice(d) \/ PayByHand(d)
                 \/ \E i \in Invoices : Pays(i)
                 \/ UNCHANGED <<invoice, byHand>> /\ owed' \subseteq owed
                     /\ (kept' = kept \/ \E r \in Roles : kept' = [kept EXCEPT ![r] = NoInvoice])
<1> DEFINE Goal == \/ UNCHANGED stripe
                   \/ \E d \in Desks : CreateInvoice(d) \/ VoidInvoice(d) \/ PayByHand(d)
                   \/ \E i \in Invoices : Pays(i)
                   \/ UNCHANGED <<invoice, byHand>> /\ owed' \subseteq owed
                       /\ (kept' = kept \/ \E r \in Roles : kept' = [kept EXCEPT ![r] = NoInvoice])
<1> SUFFICES ASSUME [Next]_vars PROVE Goal
  OBVIOUS
<1> USE DEF stripe
<1>1. ASSUME NEW d \in Desks, Proceed(d) PROVE Goal
  BY <1>1 DEF Proceed, Look, SyncAnswer, Mark, Write, GivesUp
<1>2. ASSUME NEW d \in Operators, Request(d) PROVE Goal
  BY <1>2 DEF Request, Plain, OnInvoice, Edit, Reset, Begin
<1>3. ASSUME NEW h \in Hooks, Handle(h) \/ Stops(h) PROVE Goal
  BY <1>3 DEF Handle, SyncPaid, ReadForPayment, ApplyPayment, Stops, Done, Loses
<1>4. ASSUME \/ \E t \in Terms : Draft(t)
             \/ \E d \in Clients : Accept(d)
             \/ \E i \in Invoices : Receives(i)
             \/ UNCHANGED vars
      PROVE  UNCHANGED stripe
  BY <1>4 DEF Draft, Accept, Receives, Deliver, vars
<1>5. ASSUME NEW r \in Roles, KeyExpires(r) PROVE Goal
  BY <1>5 DEF KeyExpires
<1>6. ASSUME NEW i \in Invoices, Undelivered(i) PROVE Goal
  BY <1>6 DEF Undelivered, Loses
<1> QED
  BY <1>1, <1>2, <1>3, <1>4, <1>5, <1>6 DEF Next

(* An event is lost of an invoice.                                         *)
LEMMA LostStep == Shape /\ [Next]_vars => lost' \subseteq Invoices
<1> SUFFICES ASSUME Shape, [Next]_vars PROVE lost' \subseteq Invoices
  OBVIOUS
<1>t. lost \subseteq Invoices /\ HooksOK
  BY DEF Shape, StripeOK
<1> USE DEF stripe
<1>1. ASSUME NEW h \in Hooks, Stops(h) PROVE lost' \subseteq Invoices
  BY <1>t, <1>1 DEF Stops, Loses, HooksOK
<1>2. ASSUME NEW i \in Invoices, Undelivered(i) PROVE lost' \subseteq Invoices
  BY <1>t, <1>2 DEF Undelivered, Loses
<1>3. ASSUME NEW d \in Desks, Proceed(d) PROVE UNCHANGED lost
  BY <1>3 DEF Proceed, Look, CreateInvoice, SyncAnswer, VoidInvoice, Mark, PayByHand, Write, GivesUp
<1>4. ASSUME NEW d \in Operators, Request(d) PROVE UNCHANGED lost
  BY <1>4 DEF Request, Plain, OnInvoice, Edit, Reset, Begin
<1>5. ASSUME NEW h \in Hooks, Handle(h) PROVE UNCHANGED lost
  BY <1>5 DEF Handle, SyncPaid, ReadForPayment, ApplyPayment
<1>6. ASSUME \/ \E t \in Terms : Draft(t)
             \/ \E d \in Clients : Accept(d)
             \/ \E i \in Invoices : Pays(i) \/ Receives(i)
             \/ \E r \in Roles : KeyExpires(r)
             \/ UNCHANGED vars
      PROVE  UNCHANGED lost
  BY <1>6 DEF Draft, Accept, Pays, Receives, Deliver, KeyExpires, vars
<1> QED
  BY <1>t, <1>1, <1>2, <1>3, <1>4, <1>5, <1>6 DEF Next

LEMMA StripeStep == Shape /\ [Next]_vars => StripeOK'
<1> SUFFICES ASSUME Shape, [Next]_vars PROVE StripeOK'
  OBVIOUS
<1>t. StripeOK /\ DesksOK
  BY DEF Shape
<1>l. lost' \subseteq Invoices
  BY LostStep
<1>1. CASE UNCHANGED stripe
  BY <1>t, <1>1 DEF stripe, StripeOK
<1>2. ASSUME NEW d \in Desks, CreateInvoice(d) PROVE StripeOK'
  <2>1. RoleAt(d) \in Roles /\ DueAt(d) \in Nat
    BY <1>t, <1>2, DueIsAnAmount DEF CreateInvoice
  <2>2. \/ UNCHANGED <<invoice, kept>>
        \/ \E new \in Invoices :
             /\ invoice' = [invoice EXCEPT ![new] = NewInvoice(d)]
             /\ kept' = [kept EXCEPT ![RoleAt(d)] = new]
    BY <1>2 DEF CreateInvoice, NewInvoice
  <2>3. UNCHANGED byHand /\ owed' \subseteq Invoices
    BY <1>t, <1>2 DEF CreateInvoice, StripeOK
  <2>4. NewInvoice(d) \in [state : {"none", "open", "paid", "void"}, role : Roles, amount : Nat]
    BY <2>1 DEF NewInvoice, StateAtFirst
  <2> QED
    BY <1>t, <1>l, <2>1, <2>2, <2>3, <2>4 DEF StripeOK
<1>3. ASSUME NEW d \in Desks, VoidInvoice(d) \/ PayByHand(d) PROVE StripeOK'
  <2>1. desk[d].invoice \in Invoices
    BY <1>t, <1>3 DEF VoidInvoice, PayByHand, DesksOK, RequestOK
  <2> QED
    BY <1>t, <1>l, <1>3, <2>1 DEF StripeOK, VoidInvoice, PayByHand
<1>4. ASSUME NEW i \in Invoices, Pays(i) PROVE StripeOK'
  BY <1>t, <1>l, <1>4 DEF StripeOK, Pays
<1>5. CASE UNCHANGED <<invoice, byHand>> /\ owed' \subseteq owed
           /\ (kept' = kept \/ \E r \in Roles : kept' = [kept EXCEPT ![r] = NoInvoice])
  BY <1>t, <1>l, <1>5 DEF StripeOK
<1> QED
  BY <1>1, <1>2, <1>3, <1>4, <1>5, StripeChanges

LEMMA ShapeStep == Shape /\ [Next]_vars => Shape'
BY DesksStep, HooksStep, QuoteStep, RowsStep, StripeStep DEF Shape

(* Through stale writes of any number of requests the rows stay well       *)
(* formed, and a deposit leaves a balance to invoice.                      *)
THEOREM TypeCorrect == Spec => []TypeOK
BY InitShape, ShapeStep, ShapeIsTyped, PTL DEF Spec

-----------------------------------------------------------------------------
(* What a step makes of a request.                                         *)
LEMMA DeskChanges ==
  ASSUME Shape, [Next]_vars, NEW e \in Desks
  PROVE  \/ desk'[e] = Free
         \/ desk'[e].at = desk[e].at /\ desk'[e].op = desk[e].op /\ desk'[e].invoice = desk[e].invoice
         \/ /\ desk'[e].op \in Ops \ {"none"} /\ quote.status \in Allowed(desk'[e].op)
            /\ desk'[e].at = First(desk'[e].op)
         \/ desk'[e].op = "invoice" /\ desk'[e].at = "look"
         \/ desk'[e].op = desk[e].op /\ desk'[e].at # "pay"
         \/ Mark(e) /\ desk'[e].op = desk[e].op /\ desk'[e].invoice = desk[e].invoice
<1> DEFINE Goal == \/ desk'[e] = Free
                   \/ /\ desk'[e].at = desk[e].at /\ desk'[e].op = desk[e].op
                      /\ desk'[e].invoice = desk[e].invoice
                   \/ /\ desk'[e].op \in Ops \ {"none"} /\ quote.status \in Allowed(desk'[e].op)
                      /\ desk'[e].at = First(desk'[e].op)
                   \/ desk'[e].op = "invoice" /\ desk'[e].at = "look"
                   \/ desk'[e].op = desk[e].op /\ desk'[e].at # "pay"
                   \/ Mark(e) /\ desk'[e].op = desk[e].op /\ desk'[e].invoice = desk[e].invoice
<1> SUFFICES Goal
  OBVIOUS
<1>t. DesksOK /\ RequestOK(desk[e])
  BY DEF Shape, DesksOK
<1>0. CASE UNCHANGED desk
  BY <1>0
<1>1. ASSUME NEW q, NEW freed, Rewrites(q, freed) PROVE Goal
  BY <1>t, <1>1, RewritesOK
<1>2. ASSUME NEW d \in Desks, NEW r, desk' = [desk EXCEPT ![d] = r], d # e PROVE Goal
  <2>1. desk'[e] = desk[e]
    BY <1>t, <1>2 DEF DesksOK
  <2> QED
    BY <2>1
<1>3. ASSUME NEW d \in Clients, Accept(d) PROVE Goal
  <2>1. \/ desk'[e] = [Free EXCEPT !.op = "invoice", !.at = "look"]
        \/ desk'[e] = [desk[e] EXCEPT !.late = TRUE]
        \/ desk'[e] = desk[e]
    BY <1>3 DEF Accept
  <2> QED
    BY <1>t, <2>1 DEF Free, RequestOK
<1>4. ASSUME NEW d \in Operators, NEW op \in Ops \ {"none"}, NEW t, NEW i, Begin(d, op, t, i) PROVE Goal
  <2>1. d \in Desks
    BY DEF Desks
  <2>2. CASE d # e
    BY <1>2, <1>4, <2>1, <2>2 DEF Begin
  <2>3. CASE d = e
    <3>1. desk'[e] = [op |-> op, at |-> First(op), terms |-> t, invoice |-> i, late |-> FALSE]
      BY <1>t, <1>4, <2>3 DEF Begin, DesksOK
    <3>2. quote.status \in Allowed(op)
      BY <1>4 DEF Begin
    <3>3. desk'[e].op = op /\ desk'[e].at = First(op)
      BY <3>1
    <3> QED
      BY <3>2, <3>3
  <2> QED
    BY <2>2, <2>3
<1>5. ASSUME NEW d \in Operators, Request(d) PROVE Goal
  <2>1. PICK op \in Ops \ {"none"} : \E t, i : Begin(d, op, t, i)
    BY <1>5 DEF Request, Plain, OnInvoice, Edit, Reset, Ops
  <2> QED
    BY <1>4, <2>1
<1>6. ASSUME NEW d \in Desks, Proceed(d) PROVE Goal
  <2>1. CASE Write(d)
    <3>1. PICK q : Rewrites(q, {d})
      BY <2>1 DEF Write
    <3> QED
      BY <1>1, <3>1
  <2>2. CASE d # e /\ ~Write(d)
    <3>1. \E r : desk' = [desk EXCEPT ![d] = r]
      BY <1>6, <2>2 DEF Proceed, Look, CreateInvoice, SyncAnswer, VoidInvoice, Mark, PayByHand, GivesUp,
                         Moves, Leaves
    <3> QED
      BY <1>2, <2>2, <3>1
  <2>3. CASE d = e /\ Mark(d)
    BY <1>t, <2>3 DEF Mark, Moves, RequestOK, DesksOK
  <2>4. CASE d = e /\ ~Write(d) /\ ~Mark(d)
    <3>1. \/ desk' = [desk EXCEPT ![e] = Free]
          \/ \E at \in {"write", "syncvoid"} : desk' = [desk EXCEPT ![e].at = at]
          \/ \E t : desk' = [desk EXCEPT ![e].at = "create", ![e].terms = t, ![e].late = FALSE]
          \/ \E i : desk' = [desk EXCEPT ![e].at = "sync", ![e].invoice = i]
      BY <1>6, <2>4 DEF Proceed, Look, CreateInvoice, SyncAnswer, VoidInvoice, PayByHand, GivesUp,
                         Moves, Leaves
    <3>2. ASSUME NEW r, desk' = [desk EXCEPT ![e] = r] PROVE desk'[e] = r
      BY <1>t, <3>2 DEF DesksOK
    <3>3. CASE desk' = [desk EXCEPT ![e] = Free]
      BY <3>2, <3>3
    <3>4. ASSUME NEW at \in {"write", "syncvoid"}, desk' = [desk EXCEPT ![e].at = at] PROVE Goal
      <4>1. desk'[e] = [desk[e] EXCEPT !.at = at]
        BY <3>2, <3>4
      <4> QED
        BY <1>t, <4>1 DEF RequestOK
    <3>5. ASSUME NEW x, desk' = [desk EXCEPT ![e].at = "create", ![e].terms = x, ![e].late = FALSE] PROVE Goal
      <4>1. desk'[e] = [desk[e] EXCEPT !.at = "create", !.terms = x, !.late = FALSE]
        BY <1>t, <3>5 DEF DesksOK
      <4> QED
        BY <1>t, <4>1 DEF RequestOK
    <3>6. ASSUME NEW i, desk' = [desk EXCEPT ![e].at = "sync", ![e].invoice = i] PROVE Goal
      <4>1. desk'[e] = [desk[e] EXCEPT !.at = "sync", !.invoice = i]
        BY <1>t, <3>6 DEF DesksOK
      <4> QED
        BY <1>t, <4>1 DEF RequestOK
    <3> QED
      BY <3>1, <3>3, <3>4, <3>5, <3>6
  <2> QED
    BY <2>1, <2>2, <2>3, <2>4
<1>7. ASSUME NEW h \in Hooks, ApplyPayment(h) PROVE Goal
  <2>1. PICK q : Rewrites(q, {})
    BY <1>7 DEF ApplyPayment
  <2> QED
    BY <1>1, <2>1
<1>8. ASSUME \/ \E t \in Terms : Draft(t)
             \/ \E i \in Invoices : Pays(i) \/ Receives(i) \/ Undelivered(i)
             \/ \E r \in Roles : KeyExpires(r)
             \/ \E h \in Hooks : SyncPaid(h) \/ ReadForPayment(h) \/ Stops(h)
             \/ UNCHANGED vars
      PROVE  UNCHANGED desk
  BY <1>8 DEF Draft, Pays, Receives, Deliver, Undelivered, KeyExpires, SyncPaid, ReadForPayment, Stops, vars
<1> QED
  BY <1>0, <1>3, <1>5, <1>6, <1>7, <1>8 DEF Next, Handle

-----------------------------------------------------------------------------
(* The note of a payment outside Stripe comes before it, and stays.        *)
Noted ==
  /\ byHand \subseteq marked
  /\ \A d \in Desks : desk[d].at = "pay" => desk[d].invoice \in marked

LEMMA MarkedStays == [Next]_vars => marked \subseteq marked'
<1> SUFFICES ASSUME [Next]_vars PROVE marked \subseteq marked'
  OBVIOUS
<1> USE DEF rows
<1>1. ASSUME NEW d \in Desks, Proceed(d) PROVE marked \subseteq marked'
  BY <1>1 DEF Proceed, Look, CreateInvoice, SyncAnswer, VoidInvoice, Mark, PayByHand, Write, GivesUp
<1>2. ASSUME NEW d \in Operators, Request(d) PROVE marked \subseteq marked'
  BY <1>2 DEF Request, Plain, OnInvoice, Edit, Reset, Begin
<1>3. ASSUME NEW h \in Hooks, Handle(h) \/ Stops(h) PROVE marked \subseteq marked'
  BY <1>3 DEF Handle, SyncPaid, ReadForPayment, ApplyPayment, Stops
<1>4. ASSUME \/ \E t \in Terms : Draft(t)
             \/ \E d \in Clients : Accept(d)
             \/ \E i \in Invoices : Pays(i) \/ Receives(i) \/ Undelivered(i)
             \/ \E r \in Roles : KeyExpires(r)
             \/ UNCHANGED vars
      PROVE  UNCHANGED marked
  BY <1>4 DEF Draft, Accept, Pays, Receives, Deliver, Undelivered, KeyExpires, vars
<1> QED
  BY <1>1, <1>2, <1>3, <1>4 DEF Next

LEMMA NotedStep == Shape /\ Noted /\ [Next]_vars => Noted'
<1> SUFFICES ASSUME Shape, Noted, [Next]_vars PROVE Noted'
  OBVIOUS
<1>1. marked \subseteq marked'
  BY MarkedStays
<1>2. byHand' \subseteq marked
  <2>1. ASSUME NEW d \in Desks, PayByHand(d) PROVE byHand' \subseteq marked
    BY <2>1 DEF PayByHand, Noted
  <2>2. ASSUME \/ \E d \in Desks : CreateInvoice(d) \/ VoidInvoice(d)
               \/ \E i \in Invoices : Pays(i)
               \/ UNCHANGED stripe
        PROVE  UNCHANGED byHand
    BY <2>2 DEF CreateInvoice, VoidInvoice, Pays, stripe
  <2> QED
    BY <2>1, <2>2, StripeChanges DEF Noted
<1>3. ASSUME NEW d \in Desks, desk'[d].at = "pay" PROVE desk'[d].invoice \in marked'
  <2>1. CASE desk'[d].at = desk[d].at /\ desk'[d].invoice = desk[d].invoice
    BY <1>1, <1>3, <2>1 DEF Noted
  <2>2. CASE Mark(d) /\ desk'[d].invoice = desk[d].invoice
    BY <2>2 DEF Mark
  <2>3. desk'[d] # Free
    BY <1>3 DEF Free
  <2>4. \A op \in Ops \ {"none"} : First(op) # "pay"
    BY DEF Ops, First
  <2> QED
    BY <1>3, <2>1, <2>2, <2>3, <2>4, DeskChanges
<1> QED
  BY <1>1, <1>2, <1>3 DEF Noted

(* However the event of a payment outside Stripe and the request that made *)
(* it overlap, and wherever the request stops: a payment that shows as paid*)
(* has the note of how.                                                    *)
THEOREM HandPaymentsAreMarked == Spec => []HandPaymentsMarked
<1>1. Init => Noted
  BY DEF Init, Noted, Free
<1>2. Noted => HandPaymentsMarked
  BY DEF Noted, HandPaymentsMarked
<1> QED
  BY <1>1, <1>2, NotedStep, InitShape, ShapeStep, PTL DEF Spec

-----------------------------------------------------------------------------
(* Invoices are numbered without gaps, so a new one overwrites none.       *)
Numbered == \E n \in Nat : Issued = 1 .. n

LEMMA NextIsNew ==
  ASSUME Numbered
  PROVE  /\ NextInvoice \in Nat /\ NextInvoice \notin Issued
         /\ Issued \cup {NextInvoice} = 1 .. NextInvoice
<1>1. PICK n \in Nat : Issued = 1 .. n
  BY DEF Numbered
<1>2. Cardinality(1 .. n) = n
  BY <1>1, FS_Interval
<1> QED
  BY <1>1, <1>2 DEF NextInvoice

(* An invoice changes in state only, and a paid one not at all.            *)
LEMMA InvoicesMove ==
  ASSUME Shape, Numbered, [Next]_vars
  PROVE  \/ invoice' = invoice
         \/ \E i \in Invoices, state \in {"paid", "void"} :
              invoice[i].state = "open" /\ invoice' = [invoice EXCEPT ![i].state = state]
         \/ \E d \in Desks :
              /\ desk[d].at = "create" /\ NextInvoice \in Invoices
              /\ invoice' = [invoice EXCEPT ![NextInvoice] = NewInvoice(d)]
<1> DEFINE Goal == \/ invoice' = invoice
                   \/ \E i \in Invoices, state \in {"paid", "void"} :
                        invoice[i].state = "open" /\ invoice' = [invoice EXCEPT ![i].state = state]
                   \/ \E d \in Desks :
                        /\ desk[d].at = "create" /\ NextInvoice \in Invoices
                        /\ invoice' = [invoice EXCEPT ![NextInvoice] = NewInvoice(d)]
<1>1. ASSUME NEW d \in Desks, CreateInvoice(d) PROVE Goal
  BY <1>1 DEF CreateInvoice, NewInvoice
<1>2. ASSUME NEW d \in Desks, VoidInvoice(d) \/ PayByHand(d) PROVE Goal
  <2>1. desk[d].invoice \in Invoices
    BY <1>2 DEF VoidInvoice, PayByHand, Shape, DesksOK, RequestOK
  <2> QED
    BY <1>2, <2>1 DEF VoidInvoice, PayByHand
<1>3. ASSUME NEW i \in Invoices, Pays(i) PROVE Goal
  BY <1>3 DEF Pays
<1>4. UNCHANGED stripe => Goal
  BY DEF stripe
<1> QED
  BY <1>1, <1>2, <1>3, <1>4, StripeChanges

LEMMA PaidStays ==
  ASSUME Shape, Numbered, [Next]_vars
  PROVE  /\ Numbered'
         /\ \A i \in InState("paid") : invoice'[i] = invoice[i]
         /\ PaidRoles \subseteq PaidRoles'
<1>t. StripeOK
  BY DEF Shape
<1>1. CASE invoice' = invoice
  BY <1>1 DEF Numbered, Issued, InState, PaidRoles
<1>2. ASSUME NEW i \in Invoices, NEW state \in {"paid", "void"}, invoice[i].state = "open",
             invoice' = [invoice EXCEPT ![i].state = state]
      PROVE  Numbered' /\ \A j \in InState("paid") : invoice'[j] = invoice[j]
  <2>1. Issued' = Issued
    BY <1>t, <1>2 DEF Issued, StripeOK
  <2> QED
    BY <1>2, <2>1 DEF Numbered, InState, Issued
<1>3. ASSUME NEW r, r.state # "none", NextInvoice \in Invoices, invoice' = [invoice EXCEPT ![NextInvoice] = r]
      PROVE  Numbered' /\ \A j \in InState("paid") : invoice'[j] = invoice[j]
  <2>1. /\ NextInvoice \in Nat /\ NextInvoice \notin Issued
        /\ Issued \cup {NextInvoice} = 1 .. NextInvoice
    BY NextIsNew
  <2>2. Issued' = Issued \cup {NextInvoice}
    BY <1>t, <1>3 DEF Issued, StripeOK
  <2>3. Numbered'
    BY <2>1, <2>2 DEF Numbered
  <2> QED
    BY <1>3, <2>1, <2>3 DEF InState, Issued
<1>4. Numbered' /\ \A i \in InState("paid") : invoice'[i] = invoice[i]
  <2>1. ASSUME NEW d \in Desks, NextInvoice \in Invoices,
               invoice' = [invoice EXCEPT ![NextInvoice] = NewInvoice(d)]
        PROVE  Numbered' /\ \A i \in InState("paid") : invoice'[i] = invoice[i]
    <3>1. NewInvoice(d).state # "none"
      BY DEF NewInvoice, StateAtFirst
    <3> QED
      BY <1>3, <2>1, <3>1
  <2>2. invoice' = invoice => Numbered' /\ \A i \in InState("paid") : invoice'[i] = invoice[i]
    BY DEF Numbered, Issued
  <2> QED
    BY <1>2, <2>1, <2>2, InvoicesMove
<1>5. PaidRoles \subseteq PaidRoles'
  BY <1>4 DEF PaidRoles, InState, Issued
<1> QED
  BY <1>4, <1>5

-----------------------------------------------------------------------------
(* What Stripe announces as paid is.                                       *)
Announced ==
  /\ owed \subseteq InState("paid")
  /\ \A h \in Hooks : hook[h].at # "idle" => hook[h].invoice \in InState("paid")

(* Whatever counts on the deposit has it.                                  *)
HasDeposit == "deposit" \in PaidRoles

Backed ==
  /\ quote.status \in {"deposit_paid", "invoiced_final"} => HasDeposit
  /\ \A d \in Desks : desk[d].op = "final" => HasDeposit
  /\ \A i \in Issued : invoice[i].role = "final" => HasDeposit
  /\ ActivatedByPayment

LEMMA AnnouncedStep == Shape /\ Numbered /\ Announced /\ [Next]_vars => Announced'
<1> SUFFICES ASSUME Shape, Numbered, Announced, [Next]_vars PROVE Announced'
  OBVIOUS
<1>t. StripeOK /\ HooksOK
  BY DEF Shape
<1>1. InState("paid") \subseteq InState("paid")'
  BY PaidStays DEF InState, Issued
<1>2. owed' \subseteq InState("paid")'
  <2>1. ASSUME NEW d \in Desks, PayByHand(d) PROVE owed' \subseteq InState("paid")'
    <3>1. desk[d].invoice \in Invoices
      BY <2>1 DEF PayByHand, Shape, DesksOK, RequestOK
    <3>2. owed' = owed \cup {desk[d].invoice} /\ invoice'[desk[d].invoice].state = "paid"
      BY <1>t, <2>1, <3>1 DEF PayByHand, StripeOK
    <3> QED
      BY <1>1, <3>1, <3>2 DEF Announced, InState, Issued
  <2>2. ASSUME NEW i \in Invoices, Pays(i) PROVE owed' \subseteq InState("paid")'
    <3>1. owed' = owed \cup {i} /\ invoice'[i].state = "paid"
      BY <1>t, <2>2 DEF Pays, StripeOK
    <3> QED
      BY <1>1, <3>1 DEF Announced, InState, Issued
  <2>3. ASSUME NEW d \in Desks, CreateInvoice(d) PROVE owed' \subseteq InState("paid")'
    <3>1. CASE owed' = owed
      BY <1>1, <3>1 DEF Announced
    <3>2. CASE owed' # owed
      <4>1. /\ NextInvoice \in Invoices /\ owed' = owed \cup {NextInvoice} /\ DueAt(d) = 0
            /\ invoice' = [invoice EXCEPT ![NextInvoice] = NewInvoice(d)]
        BY <2>3, <3>2 DEF CreateInvoice, NewInvoice
      <4>2. invoice'[NextInvoice].state = "paid"
        BY <1>t, <4>1 DEF StripeOK, NewInvoice, StateAtFirst
      <4> QED
        BY <1>1, <4>1, <4>2 DEF Announced, InState, Issued
    <3> QED
      BY <3>1, <3>2
  <2>4. ASSUME \/ \E d \in Desks : VoidInvoice(d)
               \/ UNCHANGED stripe
        PROVE  owed' = owed
    BY <2>4 DEF VoidInvoice, stripe
  <2> QED
    BY <1>1, <2>1, <2>2, <2>3, <2>4, StripeChanges DEF Announced
<1>3. ASSUME NEW h \in Hooks, hook'[h].at # "idle" PROVE hook'[h].invoice \in InState("paid")
  <2>1. CASE hook'[h].invoice = hook[h].invoice /\ hook[h].at # "idle"
    BY <2>1 DEF Announced
  <2>2. ASSUME NEW g \in Hooks, NEW i \in Invoices, Deliver(g, i)
        PROVE  hook'[h].invoice \in InState("paid")
    <3>1. i \in owed /\ hook' = [hook EXCEPT ![g] = [at |-> "sync", invoice |-> i]]
      BY <2>2 DEF Deliver
    <3>2. CASE g = h
      BY <1>t, <3>1, <3>2 DEF HooksOK, Announced
    <3>3. CASE g # h
      BY <1>t, <1>3, <3>1, <3>3, <2>1 DEF HooksOK
    <3> QED
      BY <3>2, <3>3
  <2>3. ASSUME NEW g \in Hooks, Handle(g) \/ Stops(g) PROVE hook'[h].invoice \in InState("paid")
    <3>1. \/ hook' = [hook EXCEPT ![g] = Off]
          \/ hook[g].at \in {"sync", "read"} /\ \E at \in {"read", "apply"} : hook' = [hook EXCEPT ![g].at = at]
      BY <2>3 DEF Handle, SyncPaid, ReadForPayment, ApplyPayment, Stops, Done
    <3>2. hook'[h].invoice = hook[h].invoice /\ hook[h].at # "idle"
      BY <1>t, <1>3, <3>1 DEF HooksOK, Off
    <3> QED
      BY <2>1, <3>2
  <2>4. UNCHANGED hook => hook'[h].invoice \in InState("paid")
    BY <1>3, <2>1
  <2>5. ASSUME NEW d \in Desks, Proceed(d) PROVE UNCHANGED hook
    BY <2>5 DEF Proceed, Look, CreateInvoice, SyncAnswer, VoidInvoice, Mark, PayByHand, Write, GivesUp
  <2>6. ASSUME NEW d \in Operators, Request(d) PROVE UNCHANGED hook
    BY <2>6 DEF Request, Plain, OnInvoice, Edit, Reset, Begin
  <2>7. ASSUME \/ \E t \in Terms : Draft(t)
               \/ \E d \in Clients : Accept(d)
               \/ \E i \in Invoices : Pays(i) \/ Undelivered(i)
               \/ \E r \in Roles : KeyExpires(r)
               \/ UNCHANGED vars
        PROVE  UNCHANGED hook
    BY <2>7 DEF Draft, Accept, Pays, Undelivered, KeyExpires, vars
  <2> QED
    BY <2>2, <2>3, <2>4, <2>5, <2>6, <2>7 DEF Next, Receives
<1> QED
  BY <1>1, <1>2, <1>3 DEF Announced

(* A payment that is applied was announced, hence made.                    *)
LEMMA AppliedIsPaid ==
  ASSUME Shape, Announced, NEW h \in Hooks, ApplyPayment(h)
  PROVE  \/ invoice[hook[h].invoice].role = "deposit" /\ HasDeposit
            /\ quote' = [quote EXCEPT !.status = "deposit_paid"] /\ product' = product
         \/ /\ invoice[hook[h].invoice].role \in {"full", "final"}
            /\ invoice[hook[h].invoice].role \in PaidRoles /\ hook[h].invoice \in Issued
            /\ quote' = [quote EXCEPT !.status = "paid"]
<1> DEFINE i == hook[h].invoice
<1>1. i \in InState("paid")
  BY DEF ApplyPayment, Announced
<1>2. i \in Issued /\ invoice[i].role \in PaidRoles /\ invoice[i].role \in Roles
  BY <1>1 DEF PaidRoles, InState, Issued, Shape, StripeOK
<1> QED
  BY <1>2 DEF ApplyPayment, IsDeposit, HasDeposit, Rewrites, Roles

LEMMA BackedStep == Shape /\ Numbered /\ Announced /\ Backed /\ [Next]_vars => Backed'
<1> SUFFICES ASSUME Shape, Numbered, Announced, Backed, [Next]_vars PROVE Backed'
  OBVIOUS
<1>t. DesksOK /\ QuoteOK /\ StripeOK
  BY DEF Shape
<1>1. PaidRoles \subseteq PaidRoles' /\ (HasDeposit => HasDeposit')
  BY PaidStays DEF HasDeposit
<1>2. quote'.status \in {"deposit_paid", "invoiced_final"} => HasDeposit'
  <2>1. ASSUME NEW d \in Desks, Write(d), quote'.status \in {"deposit_paid", "invoiced_final"}
        PROVE  HasDeposit
    <3>1. CASE desk[d].op = "edit"
      BY <2>1, <3>1 DEF Write, Rewrites, Backed
    <3>2. CASE desk[d].op = "final"
      BY <3>2 DEF Backed
    <3>3. CASE desk[d].op \in {"send", "cancel", "void", "reset", "invoice"}
      <4>1. quote' = [quote EXCEPT !.status = StatusAfter(d)]
        BY <2>1, <3>3 DEF Write, Rewrites
      <4>2. StatusAfter(d) \notin {"deposit_paid", "invoiced_final"}
        BY <3>3 DEF StatusAfter
      <4> QED
        BY <1>t, <2>1, <4>1, <4>2 DEF QuoteOK
    <3>4. desk[d].op \notin {"none", "pay"} /\ desk[d].op \in Ops
      BY <1>t, <2>1 DEF Write, DesksOK, RequestOK, Fits
    <3> QED
      BY <3>1, <3>2, <3>3, <3>4 DEF Ops
  <2>2. ASSUME NEW h \in Hooks, ApplyPayment(h), quote'.status \in {"deposit_paid", "invoiced_final"}
        PROVE  HasDeposit
    BY <1>t, <2>2, AppliedIsPaid DEF QuoteOK
  <2>3. ASSUME NEW d \in Clients, Accept(d) PROVE quote'.status = "accepted"
    BY <1>t, <2>3 DEF Accept, QuoteOK
  <2>4. ASSUME NEW t \in Terms, Draft(t) PROVE quote'.status = "draft"
    BY <2>4 DEF Draft
  <2> QED
    BY <1>1, <2>1, <2>2, <2>3, <2>4, QuoteChanges DEF Backed
<1>3. ASSUME NEW d \in Desks, desk'[d].op = "final" PROVE HasDeposit'
  <2>1. CASE desk[d].op = "final"
    BY <1>1, <2>1 DEF Backed
  <2>2. CASE quote.status \in Allowed("final")
    BY <1>1, <2>2 DEF Backed, Allowed
  <2>3. desk'[d] # Free
    BY <1>3 DEF Free
  <2> QED
    BY <1>3, <2>1, <2>2, <2>3, DeskChanges
<1>4. ASSUME NEW i \in Issued', invoice'[i].role = "final" PROVE HasDeposit'
  <2>1. CASE i \in Issued /\ invoice[i].role = "final"
    BY <1>1, <2>1 DEF Backed
  <2>2. CASE invoice' = invoice
    BY <1>4, <2>1, <2>2 DEF Issued
  <2>3. ASSUME NEW j \in Invoices, NEW state, invoice[j].state = "open",
               invoice' = [invoice EXCEPT ![j].state = state]
        PROVE  HasDeposit'
    BY <1>t, <1>4, <2>1, <2>3 DEF Issued, StripeOK
  <2>4. ASSUME NEW d \in Desks, desk[d].at = "create", NextInvoice \in Invoices,
               invoice' = [invoice EXCEPT ![NextInvoice] = NewInvoice(d)]
        PROVE  HasDeposit'
    <3>1. CASE i = NextInvoice
      <4>1. RoleAt(d) = "final"
        BY <1>t, <1>4, <2>4, <3>1 DEF StripeOK, NewInvoice
      <4>2. desk[d].op = "final"
        BY <1>t, <2>4, <4>1, DueIsAnAmount
      <4> QED
        BY <1>1, <4>2 DEF Backed
    <3>2. CASE i # NextInvoice
      BY <1>t, <1>4, <2>1, <2>4, <3>2 DEF Issued, StripeOK
    <3> QED
      BY <3>1, <3>2
  <2> QED
    BY <2>2, <2>3, <2>4, InvoicesMove
<1>5. ActivatedByPayment'
  <2>1. ASSUME product = "active" PROVE ActivatedByPayment'
    BY <1>1, <2>1 DEF Backed, ActivatedByPayment
  <2>2. ASSUME NEW h \in Hooks, ApplyPayment(h), product # "active" PROVE ActivatedByPayment'
    <3>1. CASE invoice[hook[h].invoice].role = "deposit"
      BY <2>2, <3>1, AppliedIsPaid DEF ActivatedByPayment
    <3>2. CASE invoice[hook[h].invoice].role = "full"
      BY <1>1, <2>2, <3>2, AppliedIsPaid DEF ActivatedByPayment
    <3>3. CASE invoice[hook[h].invoice].role = "final"
      BY <1>1, <2>2, <3>3, AppliedIsPaid DEF ActivatedByPayment, Backed, HasDeposit
    <3> QED
      BY <2>2, <3>1, <3>2, <3>3, AppliedIsPaid
  <2>3. ASSUME \/ \E t \in Terms : Draft(t)
               \/ \E d \in Clients : Accept(d)
               \/ \E d \in Desks : Write(d)
        PROVE  product' = product
    BY <2>3 DEF Draft, Accept, Write
  <2>4. CASE product' = product /\ product # "active"
    BY <2>4 DEF ActivatedByPayment
  <2> QED
    BY <2>1, <2>2, <2>3, <2>4, QuoteChanges
<1> QED
  BY <1>2, <1>3, <1>4, <1>5 DEF Backed

(* Through stale writes, repeated events, voided and replayed invoices, and*)
(* any number of requests and handlers, the project is switched on only    *)
(* when Stripe has the full amount's invoice or both halves' paid.         *)
THEOREM ActivationIsPaid == Spec => []ActivatedByPayment
<1>1. Init => Numbered /\ Announced /\ Backed
  <2> SUFFICES ASSUME Init PROVE Numbered /\ Announced /\ Backed
    OBVIOUS
  <2>1. Issued = {} /\ 0 \in Nat /\ 1 .. 0 = {}
    BY DEF Init, Issued, Unissued
  <2>2. Numbered
    BY <2>1 DEF Numbered
  <2>3. Announced
    BY DEF Init, Announced, Off
  <2>4. Backed
    BY <2>1 DEF Init, Backed, NoQuote, Free, ActivatedByPayment
  <2> QED
    BY <2>2, <2>3, <2>4
<1>2. Shape /\ Numbered /\ [Next]_vars => Numbered'
  BY PaidStays
<1>3. Backed => ActivatedByPayment
  BY DEF Backed
<1> QED
  BY <1>1, <1>2, <1>3, AnnouncedStep, BackedStep, InitShape, ShapeStep, PTL DEF Spec

-----------------------------------------------------------------------------
(* What can still be paid, or is.                                          *)
Live == InState("open") \cup InState("paid")

(* A request beyond its reading that no write has overtaken.               *)
Abreast(d) == desk[d].at \notin {"idle", "look"} /\ ~desk[d].late

(* Such a request still sees the quote it read.                            *)
InStep ==
  /\ \A d \in Desks : Abreast(d) =>
       /\ quote.status \in Allowed(desk[d].op)
       /\ desk[d].op \in {"invoice", "final"} => desk[d].terms = TermsOf(quote)
  /\ quote.status = "none" => \A d \in Desks : desk[d].at = "idle"

(* Statuses at which there may be invoices.                                *)
Sold == {"accepted", "deposit_paid", "paid"} \cup Invoiced

(* Every invoice that counts is for what the quote says now.               *)
Agreed ==
  ~crossed => \A i \in Live :
    quote.status \in Sold /\ invoice[i].amount = Due(invoice[i].role, TermsOf(quote))

LEMMA CrossedStays == [Next]_vars /\ crossed => crossed'
<1> SUFFICES ASSUME [Next]_vars, crossed PROVE crossed'
  OBVIOUS
<1>1. ASSUME NEW d \in Desks, Proceed(d) PROVE crossed'
  BY <1>1 DEF Proceed, Look, CreateInvoice, SyncAnswer, VoidInvoice, Mark, PayByHand, Write, GivesUp
<1>2. ASSUME NEW d \in Operators, Request(d) PROVE crossed'
  BY <1>2 DEF Request, Plain, OnInvoice, Edit, Reset, Begin
<1>3. ASSUME NEW h \in Hooks, Handle(h) \/ Stops(h) PROVE crossed'
  BY <1>3 DEF Handle, SyncPaid, ReadForPayment, ApplyPayment, Stops
<1>4. ASSUME \/ \E t \in Terms : Draft(t)
             \/ \E d \in Clients : Accept(d)
             \/ \E i \in Invoices : Pays(i) \/ Receives(i) \/ Undelivered(i)
             \/ \E r \in Roles : KeyExpires(r)
             \/ UNCHANGED vars
      PROVE  crossed'
  BY <1>4 DEF Draft, Accept, Pays, Receives, Deliver, Undelivered, KeyExpires, vars
<1> QED
  BY <1>1, <1>2, <1>3, <1>4 DEF Next

(* Whoever writes another quote leaves nobody abreast of it.               *)
LEMMA ChangeOvertakes ==
  ASSUME Shape, InStep, [Next]_vars, quote' # quote, NEW e \in Desks
  PROVE  ~Abreast(e)'
<1>1. ASSUME NEW freed, Rewrites(quote', freed) PROVE ~Abreast(e)'
  BY <1>1 DEF Rewrites, Abreast, Free, Shape, DesksOK, RequestOK
<1>2. ASSUME NEW t \in Terms, Draft(t) PROVE ~Abreast(e)'
  BY <1>2 DEF Draft, InStep, Abreast
<1>3. ASSUME NEW d \in Clients, Accept(d) PROVE ~Abreast(e)'
  BY <1>3 DEF Accept, Abreast, Free, Shape, DesksOK, RequestOK
<1>4. ASSUME NEW d \in Desks, Write(d) PROVE ~Abreast(e)'
  <2>1. PICK q : Rewrites(q, {d})
    BY <1>4 DEF Write
  <2> QED
    BY <1>1, <2>1 DEF Rewrites
<1>5. ASSUME NEW h \in Hooks, ApplyPayment(h) PROVE ~Abreast(e)'
  <2>1. PICK q : Rewrites(q, {})
    BY <1>5 DEF ApplyPayment
  <2>2. q = quote'
    BY <2>1 DEF Rewrites
  <2>3. Rewrites(quote', {})
    BY <2>1, <2>2
  <2> QED
    BY <1>1, <2>3
<1> QED
  BY <1>2, <1>3, <1>4, <1>5, QuoteChanges

(* A request keeps what it has read, or has just read it.                  *)
LEMMA RequestKeeps ==
  ASSUME Shape, [Next]_vars, NEW e \in Desks, Abreast(e)'
  PROVE  \/ Abreast(e) /\ desk'[e].op = desk[e].op /\ desk'[e].terms = desk[e].terms
         \/ /\ quote.status \in Allowed(desk'[e].op)
            /\ desk'[e].op \in {"invoice", "final"} => desk'[e].terms = TermsOf(quote)
<1> DEFINE Same == Abreast(e) /\ desk'[e].op = desk[e].op /\ desk'[e].terms = desk[e].terms
           Read == /\ quote.status \in Allowed(desk'[e].op)
                   /\ desk'[e].op \in {"invoice", "final"} => desk'[e].terms = TermsOf(quote)
<1> SUFFICES Same \/ Read
  OBVIOUS
<1>t. DesksOK /\ RequestOK(desk[e])
  BY DEF Shape, DesksOK
<1>0. desk'[e] = desk[e] => Same
  BY DEF Abreast
<1>1. desk'[e] # Free /\ desk'[e] # [desk[e] EXCEPT !.late = TRUE]
  BY <1>t DEF Abreast, Free, RequestOK
<1>2. ASSUME NEW q, NEW freed, Rewrites(q, freed) PROVE Same
  <2>1. desk'[e] \in {Free, [desk[e] EXCEPT !.late = TRUE], desk[e]}
    BY <1>2 DEF Rewrites
  <2> QED
    BY <1>0, <1>1, <2>1
<1>3. ASSUME NEW d \in Desks, NEW r, desk' = [desk EXCEPT ![d] = r] PROVE d = e \/ Same
  BY <1>t, <1>0, <1>3 DEF DesksOK
<1>4. ASSUME NEW r, desk' = [desk EXCEPT ![e] = r] PROVE desk'[e] = r
  BY <1>t, <1>4 DEF DesksOK
<1>5. ASSUME NEW d \in Clients, Accept(d) PROVE Same
  <2>1. desk'[e] \in {[Free EXCEPT !.op = "invoice", !.at = "look"], [desk[e] EXCEPT !.late = TRUE], desk[e]}
    BY <1>5 DEF Accept
  <2>2. desk'[e] # [Free EXCEPT !.op = "invoice", !.at = "look"]
    BY DEF Abreast, Free
  <2> QED
    BY <1>0, <1>1, <2>1, <2>2
<1>6. ASSUME NEW d \in Operators, NEW op, NEW t, NEW i, Begin(d, op, t, i),
             op \in {"invoice", "final"} => t = TermsOf(quote)
      PROVE  Same \/ Read
  <2>1. /\ d \in Desks /\ quote.status \in Allowed(op)
        /\ desk' = [desk EXCEPT ![d] = [op |-> op, at |-> First(op), terms |-> t, invoice |-> i, late |-> FALSE]]
    BY <1>6 DEF Begin, Desks
  <2>2. CASE d = e
    <3>1. desk'[e].op = op /\ desk'[e].terms = t
      BY <1>4, <2>1, <2>2
    <3> QED
      BY <1>6, <2>1, <3>1
  <2> QED
    BY <1>3, <2>1, <2>2
<1>7. ASSUME NEW d \in Operators, Request(d) PROVE Same \/ Read
  <2>1. \E op, t, i : Begin(d, op, t, i) /\ (op \in {"invoice", "final"} => t = TermsOf(quote))
    BY <1>7 DEF Request, Plain, OnInvoice, Edit, Reset, SameTerms
  <2> QED
    BY <1>6, <2>1
<1>8. ASSUME NEW d \in Desks, Proceed(d) PROVE Same \/ Read
  <2>1. CASE Write(d)
    <3>1. PICK q : Rewrites(q, {d})
      BY <2>1 DEF Write
    <3> QED
      BY <1>2, <3>1
  <2>2. CASE ~Write(d) /\ d # e
    <3>1. \E r : desk' = [desk EXCEPT ![d] = r]
      BY <1>8, <2>2 DEF Proceed, Look, CreateInvoice, SyncAnswer, VoidInvoice, Mark, PayByHand, GivesUp,
                         Moves, Leaves
    <3> QED
      BY <1>3, <2>2, <3>1
  <2>3. CASE d = e /\ Look(d)
    <3>1. desk' = [desk EXCEPT ![e] = [desk[e] EXCEPT !.at = "create", !.terms = TermsOf(quote), !.late = FALSE]]
          /\ quote.status = "accepted"
      BY <1>t, <1>1, <2>3 DEF Look, Leaves, SameTerms, DesksOK
    <3>2. desk'[e] = [desk[e] EXCEPT !.at = "create", !.terms = TermsOf(quote), !.late = FALSE]
      BY <1>4, <3>1
    <3>3. desk'[e].op = "invoice" /\ desk'[e].terms = TermsOf(quote)
      BY <1>t, <2>3, <3>2 DEF Look, RequestOK, Fits
    <3> QED
      BY <3>1, <3>3 DEF Allowed
  <2>4. CASE d = e /\ (CreateInvoice(d) \/ SyncAnswer(d) \/ VoidInvoice(d) \/ Mark(d))
    <3>1. \/ \E at \in {"write", "syncvoid", "pay"} : desk' = [desk EXCEPT ![e].at = at]
          \/ \E i : desk' = [desk EXCEPT ![e].at = "sync", ![e].invoice = i]
      BY <2>4 DEF CreateInvoice, SyncAnswer, VoidInvoice, Mark, Moves
    <3>2. \/ \E at : desk'[e] = [desk[e] EXCEPT !.at = at]
          \/ \E i : desk'[e] = [desk[e] EXCEPT !.at = "sync", !.invoice = i]
      BY <1>t, <3>1 DEF DesksOK
    <3>3. desk'[e].op = desk[e].op /\ desk'[e].terms = desk[e].terms /\ desk'[e].late = desk[e].late
      BY <1>t, <3>2 DEF RequestOK
    <3>4. desk[e].at \notin {"idle", "look"}
      BY <2>4 DEF CreateInvoice, SyncAnswer, VoidInvoice, Mark
    <3> QED
      BY <3>3, <3>4 DEF Abreast
  <2>5. CASE d = e /\ (PayByHand(d) \/ GivesUp(d))
    BY <1>t, <1>1, <2>5 DEF PayByHand, GivesUp, Leaves, DesksOK
  <2> QED
    BY <1>8, <2>1, <2>2, <2>3, <2>4, <2>5 DEF Proceed
<1>9. ASSUME NEW h \in Hooks, ApplyPayment(h) PROVE Same
  <2>1. PICK q : Rewrites(q, {})
    BY <1>9 DEF ApplyPayment
  <2> QED
    BY <1>2, <2>1
<1>10. ASSUME \/ \E t \in Terms : Draft(t)
              \/ \E i \in Invoices : Pays(i) \/ Receives(i) \/ Undelivered(i)
              \/ \E r \in Roles : KeyExpires(r)
              \/ \E h \in Hooks : SyncPaid(h) \/ ReadForPayment(h) \/ Stops(h)
              \/ UNCHANGED vars
       PROVE  UNCHANGED desk
  BY <1>10 DEF Draft, Pays, Receives, Deliver, Undelivered, KeyExpires, SyncPaid, ReadForPayment, Stops, vars
<1> QED
  BY <1>0, <1>5, <1>7, <1>8, <1>9, <1>10 DEF Next, Handle

(* Before there is a quote there is nothing to ask for.                    *)
LEMMA NobodyYet ==
  ASSUME Shape, InStep, [Next]_vars, quote.status = "none", NEW e \in Desks
  PROVE  desk'[e].at = "idle"
<1>1. \A d \in Desks : desk[d].at = "idle"
  BY DEF InStep
<1>2. ASSUME NEW d \in Desks, Proceed(d) PROVE FALSE
  BY <1>1, <1>2 DEF Proceed, Look, CreateInvoice, SyncAnswer, VoidInvoice, Mark, PayByHand, Write, GivesUp
<1>3. ASSUME NEW d \in Operators, Request(d) PROVE FALSE
  <2>1. PICK op \in Ops \ {"none"} : \E t, i : Begin(d, op, t, i)
    BY <1>3 DEF Request, Plain, OnInvoice, Edit, Reset, Ops
  <2>2. "none" \in Allowed(op)
    BY <2>1 DEF Begin
  <2> QED
    BY <2>2 DEF Allowed, Invoiced, Ops
<1>4. ASSUME NEW d \in Clients, Accept(d) PROVE FALSE
  BY <1>4 DEF Accept
<1>5. ASSUME NEW h \in Hooks, ApplyPayment(h) PROVE desk'[e].at = "idle"
  <2>1. PICK q : Rewrites(q, {})
    BY <1>5 DEF ApplyPayment
  <2> QED
    BY <1>1, <2>1 DEF Rewrites, Free
<1>6. ASSUME \/ \E t \in Terms : Draft(t)
             \/ \E i \in Invoices : Pays(i) \/ Receives(i) \/ Undelivered(i)
             \/ \E r \in Roles : KeyExpires(r)
             \/ \E h \in Hooks : SyncPaid(h) \/ ReadForPayment(h) \/ Stops(h)
             \/ UNCHANGED vars
      PROVE  UNCHANGED desk
  BY <1>6 DEF Draft, Pays, Receives, Deliver, Undelivered, KeyExpires, SyncPaid, ReadForPayment, Stops, vars
<1> QED
  BY <1>1, <1>2, <1>3, <1>4, <1>5, <1>6 DEF Next, Handle

LEMMA InStepStep == Shape /\ InStep /\ [Next]_vars => InStep'
<1> SUFFICES ASSUME Shape, InStep, [Next]_vars PROVE InStep'
  OBVIOUS
<1>1. ASSUME NEW e \in Desks, Abreast(e)'
      PROVE  /\ quote'.status \in Allowed(desk'[e].op)
             /\ desk'[e].op \in {"invoice", "final"} => desk'[e].terms = TermsOf(quote')
  <2>1. quote' = quote
    BY <1>1, ChangeOvertakes
  <2>2. /\ quote.status \in Allowed(desk'[e].op)
        /\ desk'[e].op \in {"invoice", "final"} => desk'[e].terms = TermsOf(quote)
    BY <1>1, RequestKeeps DEF InStep
  <2> QED
    BY <2>1, <2>2
<1>2. ASSUME quote'.status = "none", NEW e \in Desks PROVE desk'[e].at = "idle"
  <2>t. QuoteOK /\ DesksOK
    BY DEF Shape
  <2>1. ASSUME NEW d \in Desks, Write(d) PROVE quote'.status # "none"
    <3>1. desk[d].op \in Ops \ {"none", "pay"} /\ desk[d].at = "write"
      BY <2>t, <2>1 DEF Write, DesksOK, RequestOK, Fits
    <3>2. quote.status # "none"
      BY <3>1 DEF InStep
    <3>3. CASE desk[d].op = "edit"
      BY <2>1, <3>2, <3>3 DEF Write, Rewrites
    <3>4. CASE desk[d].op \in {"send", "cancel", "void", "reset", "invoice", "final"}
      <4>1. quote' = [quote EXCEPT !.status = StatusAfter(d)]
        BY <2>1, <3>4 DEF Write, Rewrites
      <4>2. StatusAfter(d) # "none"
        BY <3>4 DEF StatusAfter
      <4> QED
        BY <2>t, <4>1, <4>2 DEF QuoteOK
    <3> QED
      BY <3>1, <3>3, <3>4 DEF Ops
  <2>2. ASSUME NEW h \in Hooks, ApplyPayment(h) PROVE quote'.status # "none"
    BY <2>t, <2>2 DEF ApplyPayment, Rewrites, QuoteOK
  <2>3. ASSUME NEW d \in Clients, Accept(d) PROVE quote'.status # "none"
    BY <2>t, <2>3 DEF Accept, QuoteOK
  <2>4. ASSUME NEW t \in Terms, Draft(t) PROVE quote'.status # "none"
    BY <2>4 DEF Draft
  <2>5. quote' = quote
    BY <1>2, <2>1, <2>2, <2>3, <2>4, QuoteChanges
  <2> QED
    BY <1>2, <2>5, NobodyYet
<1> QED
  BY <1>1, <1>2 DEF InStep

(* What a step does to the invoices that count, while the quote stays.     *)
LEMMA LiveMoves ==
  ASSUME Shape, InStep, Agreed, Numbered, [Next]_vars, quote' = quote, ~crossed'
  PROVE  Agreed'
<1>t. StripeOK /\ DesksOK /\ QuoteOK
  BY DEF Shape
<1>c. ~crossed
  BY CrossedStays
<1>1. CASE invoice' = invoice
  BY <1>c, <1>1 DEF Agreed, Live, InState, Issued
<1>2. ASSUME NEW j \in Invoices, NEW state, invoice[j].state = "open",
             invoice' = [invoice EXCEPT ![j].state = state]
      PROVE  Agreed'
  <2>1. ASSUME NEW i \in Live'
        PROVE  i \in Live /\ invoice'[i].role = invoice[i].role /\ invoice'[i].amount = invoice[i].amount
    BY <1>t, <1>2, <2>1 DEF Live, InState, Issued, StripeOK
  <2> QED
    BY <1>c, <2>1 DEF Agreed
<1>3. ASSUME NEW d \in Desks, CreateInvoice(d), invoice' # invoice PROVE Agreed'
  <2>1. /\ desk[d].at = "create" /\ ~desk[d].late /\ NextInvoice \in Invoices
        /\ invoice' = [invoice EXCEPT ![NextInvoice] = NewInvoice(d)]
    BY <1>3 DEF CreateInvoice, NewInvoice
  <2>2. desk[d].op \in {"invoice", "final"}
    BY <1>t, <2>1 DEF DesksOK, RequestOK, Fits
  <2>3. desk[d].terms = TermsOf(quote) /\ quote.status \in Allowed(desk[d].op)
    BY <2>1, <2>2 DEF InStep, Abreast
  <2>4. quote.status \in Sold
    BY <2>2, <2>3 DEF Allowed, Sold
  <2>5. ASSUME NEW i \in Live'
        PROVE  invoice'[i].amount = Due(invoice'[i].role, TermsOf(quote))
    <3>1. CASE i = NextInvoice
      <4>1. invoice'[i].role = RoleAt(d) /\ invoice'[i].amount = DueAt(d)
        BY <1>t, <2>1, <3>1 DEF StripeOK, NewInvoice
      <4> QED
        BY <2>3, <4>1 DEF DueAt
    <3>2. CASE i # NextInvoice
      <4>1. invoice'[i] = invoice[i] /\ i \in Live
        BY <1>t, <2>1, <2>5, <3>2 DEF StripeOK, Live, InState, Issued
      <4> QED
        BY <1>c, <4>1 DEF Agreed
    <3> QED
      BY <3>1, <3>2
  <2> QED
    BY <2>4, <2>5 DEF Agreed
<1>4. ASSUME NEW d \in Desks, VoidInvoice(d) \/ PayByHand(d) PROVE Agreed'
  <2>1. desk[d].invoice \in Invoices
    BY <1>t, <1>4 DEF VoidInvoice, PayByHand, DesksOK, RequestOK
  <2> QED
    BY <1>2, <1>4, <2>1 DEF VoidInvoice, PayByHand
<1>5. ASSUME NEW i \in Invoices, Pays(i) PROVE Agreed'
  BY <1>2, <1>5 DEF Pays
<1> QED
  BY <1>1, <1>3, <1>4, <1>5, StripeChanges DEF stripe

(* While there are no such invoices, or the terms stay and the status is   *)
(* one of a quote that was sold.                                           *)
LEMMA QuoteMoves ==
  ASSUME Shape, InStep, Agreed, [Next]_vars, quote' # quote, ~crossed'
  PROVE  Agreed'
<1>t. StripeOK /\ DesksOK /\ QuoteOK
  BY DEF Shape
<1>c. ~crossed
  BY CrossedStays
<1>1. invoice' = invoice
  BY QuoteChanges DEF Draft, Accept, Write, ApplyPayment, stripe
<1>2. Live' = Live
  BY <1>1 DEF Live, InState, Issued
<1>3. CASE Live = {}
  BY <1>2, <1>3 DEF Agreed
<1>4. CASE quote'.status \in Sold /\ TermsOf(quote') = TermsOf(quote)
  BY <1>c, <1>1, <1>2, <1>4 DEF Agreed
<1>5. quote.status \notin Sold => Live = {}
  BY <1>c DEF Agreed
<1>6. ASSUME NEW t \in Terms, Draft(t) PROVE Agreed'
  BY <1>3, <1>5, <1>6 DEF Draft, Sold, Invoiced
<1>7. ASSUME NEW d \in Clients, Accept(d) PROVE Agreed'
  BY <1>3, <1>5, <1>7 DEF Accept, Sold, Invoiced
<1>8. ASSUME NEW d \in Desks, Write(d) PROVE Agreed'
  <2>1. ~desk[d].late /\ desk[d].at = "write"
    BY <1>8 DEF Write
  <2>2. /\ desk[d].op \in Ops \ {"none", "pay"}
        /\ quote.status \in Allowed(desk[d].op)
    BY <1>t, <2>1 DEF DesksOK, RequestOK, Fits, InStep, Abreast
  <2>3. CASE desk[d].op \in {"edit", "send", "reset"}
    BY <1>3, <1>5, <2>2, <2>3 DEF Allowed, Sold, Invoiced
  <2>4. CASE desk[d].op \in {"cancel", "void"}
    BY <1>3, <1>8, <2>4 DEF Write, StatusAfter, Live
  <2>5. CASE desk[d].op \in {"invoice", "final"}
    <3>1. quote' = [quote EXCEPT !.status = StatusAfter(d)]
      BY <1>8, <2>5 DEF Write, Rewrites
    <3>2. StatusAfter(d) \in Sold
      BY <2>5 DEF StatusAfter, Sold, Invoiced
    <3> QED
      BY <1>t, <1>4, <3>1, <3>2 DEF QuoteOK, TermsOf
  <2> QED
    BY <2>2, <2>3, <2>4, <2>5 DEF Ops
<1>9. ASSUME NEW h \in Hooks, ApplyPayment(h) PROVE Agreed'
  <2>1. PICK status \in {"deposit_paid", "paid"} : quote' = [quote EXCEPT !.status = status]
    BY <1>9 DEF ApplyPayment, Rewrites
  <2> QED
    BY <1>t, <1>4, <2>1 DEF QuoteOK, TermsOf, Sold
<1> QED
  BY <1>6, <1>7, <1>8, <1>9, QuoteChanges

LEMMA AgreedStep == Shape /\ InStep /\ Agreed /\ Numbered /\ [Next]_vars => Agreed'
<1>1. crossed' => Agreed'
  BY DEF Agreed
<1> QED
  BY <1>1, LiveMoves, QuoteMoves

(* What was paid for an active project is what its quote says now, in the  *)
(* full invoice or in a deposit and a balance, however requests, events,   *)
(* voided invoices and forgotten keys follow each other - unless a request *)
(* wrote over a quote it had not read, or one with an invoice was          *)
(* cancelled.                                                              *)
THEOREM ProjectIsPaidInFull == Spec => []PaidInFull
<1>1. Init => InStep /\ Agreed
  <2> SUFFICES ASSUME Init PROVE InStep /\ Agreed
    OBVIOUS
  <2>1. Live = {} /\ \A d \in Desks : desk[d].at = "idle"
    BY DEF Init, Live, InState, Issued, Unissued, Free
  <2> QED
    BY <2>1 DEF InStep, Agreed, Abreast
<1>2. Shape /\ Agreed /\ ActivatedByPayment => PaidInFull
  <2> SUFFICES ASSUME Shape, Agreed, ActivatedByPayment, product = "active", ~crossed
               PROVE  \/ \E i \in InState("paid") :
                           invoice[i].role = "full" /\ invoice[i].amount = quote.amount
                      \/ \E i, j \in InState("paid") :
                           /\ invoice[i].role = "deposit" /\ invoice[j].role = "final"
                           /\ invoice[i].amount + invoice[j].amount = quote.amount
    BY DEF PaidInFull
  <2>1. quote.amount \in Nat /\ quote.deposit \in Nat
    BY Constants DEF Shape, QuoteOK
  <2>2. \A i \in InState("paid") : invoice[i].amount = Due(invoice[i].role, TermsOf(quote))
    BY DEF Agreed, Live
  <2>3. ASSUME NEW i \in InState("paid"), invoice[i].role = "full"
        PROVE  invoice[i].amount = quote.amount
    BY <2>2, <2>3 DEF Due, TermsOf
  <2>4. ASSUME NEW i \in InState("paid"), NEW j \in InState("paid"),
               invoice[i].role = "deposit", invoice[j].role = "final"
        PROVE  invoice[i].amount + invoice[j].amount = quote.amount
    <3>1. invoice[i].amount = quote.deposit /\ invoice[j].amount = quote.amount - quote.deposit
      BY <2>2, <2>4 DEF Due, TermsOf
    <3> QED
      BY <2>1, <3>1
  <2>5. CASE "full" \in PaidRoles
    BY <2>3, <2>5 DEF PaidRoles
  <2>6. CASE {"deposit", "final"} \subseteq PaidRoles
    <3>1. PICK i \in InState("paid") : invoice[i].role = "deposit"
      BY <2>6 DEF PaidRoles
    <3>2. PICK j \in InState("paid") : invoice[j].role = "final"
      BY <2>6 DEF PaidRoles
    <3> QED
      BY <2>4, <3>1, <3>2
  <2> QED
    BY <2>5, <2>6 DEF ActivatedByPayment
<1>3. Init => Numbered
  <2> SUFFICES ASSUME Init PROVE Numbered
    OBVIOUS
  <2>1. Issued = {} /\ 0 \in Nat /\ 1 .. 0 = {}
    BY DEF Init, Issued, Unissued
  <2> QED
    BY <2>1 DEF Numbered
<1>4. Shape /\ Numbered /\ [Next]_vars => Numbered'
  BY PaidStays
<1> QED
  BY <1>1, <1>2, <1>3, <1>4, ActivationIsPaid, InStepStep, AgreedStep, InitShape, ShapeStep, PTL DEF Spec
=============================================================================
