----------------------- MODULE RecallCallbacksProofs -----------------------
(***************************************************************************)
(* Proofs about RecallCallbacks, for any calls, persons, opening hours,    *)
(* replies and ticks at once, and any bounds.                              *)
(*                                                                         *)
(* TypeOK becomes inductive with the clock running: a handler knows when   *)
(* it began.  The promises about a callback rest on what its handlers      *)
(* carry: the offer a reply read was sent, the moment it is to book is one *)
(* of it, the moment a tick saw is still the booked one.                   *)
(***************************************************************************)
EXTENDS RecallCallbacks, FiniteSetTheorems, TLAPS

Begun ==
  /\ clock >= 1
  /\ \A p \in Procs : ~At(p, "idle") => proc[p].now >= 1

Shape == TypeOK /\ Begun

-----------------------------------------------------------------------------
LEMMA Constants ==
  /\ MaxTime \in Nat /\ 1 <= MaxTime /\ MaxFaults \in Nat /\ Grace \in Nat
  /\ Null \in Times /\ OpenHours \subseteq Times \ {Null} /\ 1 \in Times
  /\ (CHOOSE c \in Calls : TRUE) \in Calls
<1>1. MaxTime \in Nat /\ 1 <= MaxTime /\ MaxFaults \in Nat /\ Grace \in Nat
  BY CountsAreNat, SomeCallSomeTime
<1> QED
  BY <1>1, HoursAreTimes, SomeCallSomeTime DEF Null, Times

LEMMA IdleIsHandler == Idle \in Handlers
BY Constants DEF Idle, Handlers, Stations

LEMMA InitShape == Init => Shape
<1> SUFFICES ASSUME Init PROVE Shape
  OBVIOUS
<1> USE Constants
<1>1. row \in [Calls -> Rows]
  BY DEF Init, Blank, Rows
<1>2. proc \in [Procs -> Handlers]
  BY IdleIsHandler DEF Init
<1>3. /\ clock \in Times /\ shown \in [Calls -> SUBSET OpenHours] /\ asked \in [Calls -> Times]
      /\ raced \subseteq Calls /\ told \in [Calls -> SUBSET Times] /\ reminders \in [Calls -> Nat]
  BY DEF Init
<1>4. serving \in BOOLEAN /\ interrupted \in BOOLEAN
  BY Zenon DEF Init
<1>5. faults \in 0 .. MaxFaults
  <2>1. faults = 0
    BY DEF Init
  <2> QED
    BY <2>1
<1>6. OffersAreDated
  BY DEF Init, Blank, OffersAreDated
<1>7. Begun
  BY DEF Init, Begun, Idle, At
<1> QED
  BY <1>1, <1>2, <1>3, <1>4, <1>5, <1>6, <1>7 DEF Shape, TypeOK, WellTyped

-----------------------------------------------------------------------------
(* What the steps of a handler do to the handlers.                         *)
LEMMA OffersAreHours == \A now : Offerable(now) \subseteq OpenHours
BY DEF Offerable

LEMMA FreeSlotIsOffered ==
  ASSUME NEW p, NEW t \in FreeSlots(p)
  PROVE  /\ t = proc[p].want \/ (t \in proc[p].offer /\ t > proc[p].want)
         /\ Usable(p, t)
<1>1. CASE Usable(p, proc[p].want)
  BY <1>1 DEF FreeSlots
<1>2. CASE ~Usable(p, proc[p].want)
  BY <1>2 DEF FreeSlots
<1> QED
  BY <1>1, <1>2

HandlersOK ==
  /\ proc \in [Procs -> Handlers]
  /\ \A p \in Procs : ~At(p, "idle") => proc[p].now >= 1

LEMMA HandlersStep == Shape /\ [Next]_vars => HandlersOK'
<1> SUFFICES ASSUME Shape, [Next]_vars PROVE HandlersOK'
  OBVIOUS
<1>t. /\ proc \in [Procs -> Handlers] /\ \A p \in Procs : ~At(p, "idle") => proc[p].now >= 1
      /\ clock \in Times /\ clock >= 1 /\ row \in [Calls -> Rows]
  BY DEF Shape, TypeOK, WellTyped, Begun
<1>0. CASE UNCHANGED proc
  BY <1>t, <1>0 DEF HandlersOK, At
<1>1. ASSUME NEW p \in Procs, NEW r \in Handlers, r.at # "idle" => r.now >= 1,
             proc' = [proc EXCEPT ![p] = r]
      PROVE  HandlersOK'
  BY <1>t, <1>1 DEF HandlersOK, At
<1>2. ASSUME NEW p \in Procs, NEW station \in Stations, NEW c \in Calls, NEW offer \in SUBSET OpenHours,
             NEW slot \in Times, Starts(p, station, c, offer, slot)
      PROVE  HandlersOK'
  <2> DEFINE r == [at |-> station, call |-> c, now |-> clock, offer |-> offer,
                   want |-> slot, slot |-> slot, raced |-> FALSE]
  <2>1. r \in Handlers /\ r.now >= 1
    BY <1>t DEF Handlers
  <2>2. proc' = [proc EXCEPT ![p] = r]
    BY <1>2 DEF Starts
  <2> QED
    BY <1>1, <2>1, <2>2
<1>3. ASSUME NEW p \in Procs, Done(p) PROVE HandlersOK'
  <2>1. Idle.at = "idle"
    BY DEF Idle
  <2> QED
    BY <1>1, <1>3, <2>1, IdleIsHandler DEF Done
<1>4. ASSUME NEW p \in Procs, NEW station \in Stations, Goes(p, station), ~At(p, "idle") PROVE HandlersOK'
  <2>1. [proc[p] EXCEPT !.at = station] \in Handlers
    BY <1>t DEF Handlers
  <2>2. [proc[p] EXCEPT !.at = station].now >= 1
    BY <1>t, <1>4 DEF Handlers
  <2> QED
    BY <1>1, <1>4, <2>1, <2>2 DEF Goes
<1>5. ASSUME NEW p \in Procs, Continue(p) PROVE HandlersOK'
  <2> USE DEF Stations
  <2>1. CASE OfferAccepted(p) \/ RecordOffer(p) \/ ReminderAccepted(p)
    BY <1>4, <2>1 DEF OfferAccepted, RecordOffer, ReminderAccepted, At
  <2>2. CASE \/ OfferRefused(p) \/ OfferUnheard(p) \/ CloseCaller(p)
             \/ ReminderRefused(p) \/ ReminderUnheard(p) \/ StampReminded(p)
    BY <1>3, <2>2 DEF OfferRefused, OfferUnheard, CloseCaller, ReminderRefused, ReminderUnheard,
                      StampReminded
  <2>3. CASE FindFree(p)
    <3>1. CASE Done(p)
      BY <1>3, <3>1
    <3>2. ASSUME NEW t \in FreeSlots(p), proc' = [proc EXCEPT ![p].at = "book", ![p].slot = t]
          PROVE  HandlersOK'
      <4>1. proc[p].offer \subseteq Times /\ proc[p].want \in Times
        BY <1>t, Constants DEF Handlers
      <4>2. t \in Times
        BY <4>1, FreeSlotIsOffered
      <4>3. [proc[p] EXCEPT !.at = "book", !.slot = t] \in Handlers
        BY <1>t, <4>2 DEF Handlers
      <4>4. [proc[p] EXCEPT !.at = "book", !.slot = t].now >= 1
        BY <1>t, <2>3 DEF Handlers, FindFree, At
      <4> QED
        BY <1>1, <3>2, <4>3, <4>4
    <3> QED
      BY <2>3, <3>1, <3>2 DEF FindFree
  <2>4. CASE Book(p)
    <3>1. proc' = [q \in Procs |-> IF q = p THEN Idle
                                   ELSE [proc[q] EXCEPT !.raced = @ \/ Overtaken(p, q)]]
      BY <2>4 DEF Book
    <3>2. ASSUME NEW q \in Procs PROVE proc'[q] \in Handlers /\ (proc'[q].at # "idle" => proc'[q].now >= 1)
      <4>1. CASE q = p
        BY <3>1, <4>1, IdleIsHandler DEF Idle
      <4>2. CASE q # p
        <5> DEFINE b == proc[q].raced \/ Overtaken(p, q)
        <5>1. b \in BOOLEAN
          BY <1>t DEF Handlers, Overtaken, At
        <5> HIDE DEF b
        <5>2. proc'[q] = [proc[q] EXCEPT !.raced = b]
          BY <3>1, <4>2 DEF b
        <5> QED
          BY <1>t, <5>1, <5>2 DEF Handlers, At
      <4> QED
        BY <4>1, <4>2
    <3> QED
      BY <3>1, <3>2 DEF HandlersOK, At
  <2> QED
    BY <1>5, <2>1, <2>2, <2>3, <2>4 DEF Continue
<1>6. ASSUME NEW p \in Desks, NEW c \in Calls, NEW want \in OpenHours, ReplyArrives(p, c, want)
      PROVE  HandlersOK'
  <2>1. row[c].offered \in SUBSET OpenHours /\ want \in Times /\ p \in Procs
    BY <1>t, Constants DEF Rows, Procs
  <2> QED
    BY <1>2, <1>6, <2>1 DEF ReplyArrives, Stations
<1>7. ASSUME NEW t \in Ticks, TickStarts(t) PROVE HandlersOK'
  <2>p. t \in Procs
    BY DEF Procs
  <2> USE DEF Stations
  <2>1. ASSUME NEW c \in Calls, TickOffers(t, c) PROVE HandlersOK'
    <3>1. Starts(t, "send", c, Offerable(clock), Null)
      BY <2>1 DEF TickOffers
    <3> QED
      BY <1>2, <2>p, <3>1, OffersAreHours, Constants
  <2>2. ASSUME NEW c \in Calls, TickReminds(t, c) PROVE HandlersOK'
    <3>1. row[c].slot \in Times
      BY <1>t DEF Rows
    <3>2. Starts(t, "remind", c, {}, row[c].slot) \/ Starts(t, "stamp", c, {}, row[c].slot)
      BY <2>2 DEF TickReminds
    <3> QED
      BY <1>2, <2>p, <3>1, <3>2
  <2>3. ASSUME NEW c \in Calls, TickClosesCaller(t, c) PROVE HandlersOK'
    BY <1>0, <2>3 DEF TickClosesCaller
  <2> QED
    BY <1>7, <2>1, <2>2, <2>3 DEF TickStarts
<1>8. CASE TimePasses \/ ServiceStops \/ ServiceResumes \/ UNCHANGED vars
  BY <1>0, <1>8 DEF TimePasses, ServiceStops, ServiceResumes, vars
<1>9. CASE Fault
  <2>1. PICK lost : proc' = [p \in Procs |-> IF p \in lost THEN Idle ELSE proc[p]]
    BY <1>9 DEF Fault
  <2> QED
    BY <1>t, <2>1, IdleIsHandler DEF HandlersOK, At, Idle
<1> QED
  BY <1>5, <1>6, <1>7, <1>8, <1>9 DEF Next

(* Who writes to the rows, one column of one row at a time.                *)
LEMMA RowChanges ==
  ASSUME WellTyped, [Next]_vars
  PROVE  \/ row' = row
         \/ \E c \in Calls, b \in BOOLEAN : row' = [row EXCEPT ![c].closed = b]
         \/ \E p \in Procs : RecordOffer(p)
         \/ \E p \in Procs : Book(p)
         \/ \E p \in Procs : StampReminded(p)
<1> DEFINE Goal == \/ row' = row
                   \/ \E c \in Calls, b \in BOOLEAN : row' = [row EXCEPT ![c].closed = b]
                   \/ \E p \in Procs : RecordOffer(p)
                   \/ \E p \in Procs : Book(p)
                   \/ \E p \in Procs : StampReminded(p)
<1> SUFFICES Goal
  OBVIOUS
<1>t. \A p \in Procs : proc[p].call \in Calls
  BY DEF WellTyped, Handlers
<1>1. ASSUME NEW p \in Procs, OfferRefused(p) \/ OfferUnheard(p) PROVE Goal
  <2>1. PICK last \in BOOLEAN : row' = [row EXCEPT ![proc[p].call].closed = @ \/ last]
    BY <1>1 DEF OfferRefused, OfferUnheard
  <2> DEFINE b == row[proc[p].call].closed \/ last
  <2>2. b \in BOOLEAN
    BY Zenon
  <2>3. row' = [row EXCEPT ![proc[p].call].closed = b]
    BY <2>1
  <2> HIDE DEF b
  <2> QED
    BY <1>t, <2>2, <2>3
<1>2. ASSUME NEW p \in Procs, CloseCaller(p) PROVE Goal
  BY <1>t, <1>2 DEF CloseCaller
<1>3. ASSUME NEW p \in Procs, \/ OfferAccepted(p) \/ FindFree(p) \/ ReminderAccepted(p)
                              \/ ReminderRefused(p) \/ ReminderUnheard(p)
      PROVE  Goal
  BY <1>3 DEF OfferAccepted, FindFree, ReminderAccepted, ReminderRefused, ReminderUnheard
<1>4. ASSUME NEW t \in Ticks, TickStarts(t) PROVE Goal
  BY <1>4 DEF TickStarts, TickOffers, TickClosesCaller, TickReminds
<1>5. ASSUME \/ \E p \in Desks, c \in Calls, want \in OpenHours : ReplyArrives(p, c, want)
             \/ TimePasses \/ ServiceStops \/ ServiceResumes \/ Fault \/ UNCHANGED vars
      PROVE  Goal
  BY <1>5 DEF ReplyArrives, TimePasses, ServiceStops, ServiceResumes, Fault, vars
<1> QED
  BY <1>1, <1>2, <1>3, <1>4, <1>5 DEF Next, Continue

LEMMA RowsStep == Shape /\ [Next]_vars => (row \in [Calls -> Rows])' /\ OffersAreDated'
<1> SUFFICES ASSUME Shape, [Next]_vars PROVE (row \in [Calls -> Rows])' /\ OffersAreDated'
  OBVIOUS
<1>t. /\ row \in [Calls -> Rows] /\ proc \in [Procs -> Handlers] /\ OffersAreDated
      /\ \A p \in Procs : ~At(p, "idle") => proc[p].now >= 1
  BY DEF Shape, TypeOK, WellTyped, Begun
<1>p. \A p \in Procs : /\ proc[p].call \in Calls /\ proc[p].now \in Times /\ proc[p].slot \in Times
                       /\ proc[p].offer \in SUBSET OpenHours
  BY <1>t DEF Handlers
<1> USE DEF OffersAreDated
<1>1. ASSUME NEW c \in Calls, NEW r \in Rows, r.offered # {} => r.offeredAt # Null,
             row' = [row EXCEPT ![c] = r]
      PROVE  (row \in [Calls -> Rows])' /\ OffersAreDated'
  BY <1>t, <1>1
<1>2. ASSUME NEW c \in Calls, NEW b \in BOOLEAN, row' = [row EXCEPT ![c].closed = b]
      PROVE  (row \in [Calls -> Rows])' /\ OffersAreDated'
  <2> DEFINE r == [row[c] EXCEPT !.closed = b]
  <2>1. r \in Rows /\ r.offered = row[c].offered /\ r.offeredAt = row[c].offeredAt
    BY <1>t DEF Rows
  <2> QED
    BY <1>t, <1>1, <1>2, <2>1
<1>3. ASSUME NEW p \in Procs, RecordOffer(p) PROVE (row \in [Calls -> Rows])' /\ OffersAreDated'
  <2> DEFINE c == proc[p].call
             r == [row[c] EXCEPT !.offered = proc[p].offer, !.offeredAt = proc[p].now]
  <2>1. row' = [row EXCEPT ![c] = r]
    BY <1>3 DEF RecordOffer
  <2>2. r \in Rows /\ r.offeredAt = proc[p].now
    BY <1>t, <1>p DEF Rows
  <2>3. proc[p].now # Null
    BY <1>t, <1>3 DEF RecordOffer, At, Null
  <2> QED
    BY <1>1, <1>p, <2>1, <2>2, <2>3
<1>4. ASSUME NEW p \in Procs, Book(p) PROVE (row \in [Calls -> Rows])' /\ OffersAreDated'
  <2> DEFINE c == proc[p].call
             r == [row[c] EXCEPT !.slot = proc[p].slot]
  <2>1. row' = [row EXCEPT ![c] = r]
    BY <1>4 DEF Book
  <2>2. r \in Rows /\ r.offered = row[c].offered /\ r.offeredAt = row[c].offeredAt
    BY <1>t, <1>p DEF Rows
  <2> QED
    BY <1>t, <1>1, <1>p, <2>1, <2>2
<1>5. ASSUME NEW p \in Procs, StampReminded(p) PROVE (row \in [Calls -> Rows])' /\ OffersAreDated'
  <2> DEFINE c == proc[p].call
             r == [row[c] EXCEPT !.reminded = TRUE]
  <2>1. row' = [row EXCEPT ![c] = r]
    BY <1>5 DEF StampReminded
  <2>2. r \in Rows /\ r.offered = row[c].offered /\ r.offeredAt = row[c].offeredAt
    BY <1>t, <1>p DEF Rows
  <2> QED
    BY <1>t, <1>1, <1>p, <2>1, <2>2
<1>6. CASE row' = row
  BY <1>t, <1>6
<1>7. WellTyped
  BY DEF Shape, TypeOK
<1> QED
  BY <1>2, <1>3, <1>4, <1>5, <1>6, <1>7, RowChanges

-----------------------------------------------------------------------------
(* What the histories and the clock do.                                    *)
LEMMA HistoryChanges ==
  ASSUME WellTyped, [Next]_vars
  PROVE  /\ clock' = clock \/ (clock' = clock + 1 /\ clock < MaxTime)
         /\ serving' = serving \/ (serving' = FALSE /\ interrupted' = TRUE) \/ serving' = TRUE
         /\ interrupted' = interrupted \/ interrupted' = TRUE
         /\ \/ UNCHANGED shown
            \/ \E p \in Procs : At(p, "send") /\ shown' = [shown EXCEPT ![proc[p].call] = @ \cup proc[p].offer]
         /\ \/ UNCHANGED <<asked, raced>>
            \/ \E p \in Procs : Book(p)
         /\ \/ UNCHANGED <<told, reminders>>
            \/ \E p \in Procs : ReminderAccepted(p) \/ ReminderUnheard(p)
         /\ faults' = faults \/ (faults' = faults + 1 /\ faults < MaxFaults)
<1> DEFINE Goal == /\ clock' = clock \/ (clock' = clock + 1 /\ clock < MaxTime)
                   /\ serving' = serving \/ (serving' = FALSE /\ interrupted' = TRUE) \/ serving' = TRUE
                   /\ interrupted' = interrupted \/ interrupted' = TRUE
                   /\ \/ UNCHANGED shown
                      \/ \E p \in Procs : /\ At(p, "send")
                                          /\ shown' = [shown EXCEPT ![proc[p].call] = @ \cup proc[p].offer]
                   /\ \/ UNCHANGED <<asked, raced>>
                      \/ \E p \in Procs : Book(p)
                   /\ \/ UNCHANGED <<told, reminders>>
                      \/ \E p \in Procs : ReminderAccepted(p) \/ ReminderUnheard(p)
                   /\ faults' = faults \/ (faults' = faults + 1 /\ faults < MaxFaults)
<1> SUFFICES Goal
  OBVIOUS
<1>1. CASE UNCHANGED <<clock, serving, history, faults>>
  BY <1>1 DEF history
<1>2. ASSUME NEW p \in Procs, OfferAccepted(p) \/ OfferUnheard(p) PROVE Goal
  <2>1. /\ shown' = [shown EXCEPT ![proc[p].call] = @ \cup proc[p].offer] /\ At(p, "send")
        /\ UNCHANGED <<clock, serving, asked, raced, told, reminders, interrupted>>
        /\ faults' = faults \/ (faults' = faults + 1 /\ faults < MaxFaults)
    BY <1>2 DEF OfferAccepted, OfferUnheard
  <2> QED
    BY <2>1
<1>3. ASSUME NEW p \in Procs, Book(p) PROVE Goal
  <2>1. UNCHANGED <<clock, serving, shown, told, reminders, interrupted, faults>>
    BY <1>3 DEF Book
  <2> QED
    BY <1>3, <2>1
<1>4. ASSUME NEW p \in Procs, ReminderAccepted(p) \/ ReminderUnheard(p) PROVE Goal
  <2>1. /\ UNCHANGED <<clock, serving, shown, asked, raced, interrupted>>
        /\ faults' = faults \/ (faults' = faults + 1 /\ faults < MaxFaults)
    BY <1>4 DEF ReminderAccepted, ReminderUnheard
  <2> QED
    BY <1>4, <2>1
<1>5. ASSUME NEW p \in Procs, \/ OfferRefused(p) \/ RecordOffer(p) \/ CloseCaller(p) \/ FindFree(p)
                              \/ ReminderRefused(p) \/ StampReminded(p)
      PROVE  Goal
  BY <1>1, <1>5 DEF OfferRefused, RecordOffer, CloseCaller, FindFree, ReminderRefused, StampReminded
<1>6. ASSUME NEW t \in Ticks, TickStarts(t) PROVE Goal
  BY <1>1, <1>6 DEF TickStarts, TickOffers, TickClosesCaller, TickReminds
<1>7. CASE TimePasses
  BY <1>7 DEF TimePasses, history
<1>8. CASE ServiceStops
  BY <1>8 DEF ServiceStops
<1>9. CASE ServiceResumes
  BY <1>9 DEF ServiceResumes, history
<1>10. CASE Fault
  BY <1>10 DEF Fault, history
<1>11. ASSUME NEW p \in Desks, NEW c \in Calls, NEW want \in OpenHours, ReplyArrives(p, c, want) PROVE Goal
  BY <1>1, <1>11 DEF ReplyArrives
<1>12. CASE UNCHANGED vars
  BY <1>1, <1>12 DEF vars, history
<1> QED
  BY <1>2, <1>3, <1>4, <1>5, <1>6, <1>7, <1>8, <1>9, <1>10, <1>11, <1>12 DEF Next, Continue

LEMMA ShapeStep == Shape /\ [Next]_vars => Shape'
<1> SUFFICES ASSUME Shape, [Next]_vars PROVE Shape'
  OBVIOUS
<1>t. WellTyped /\ clock >= 1 /\ clock \in Nat /\ faults \in Nat
  BY Constants DEF Shape, TypeOK, Begun, WellTyped, Times
<1>p. \A p \in Procs : /\ proc[p].call \in Calls /\ proc[p].slot \in Times /\ proc[p].want \in Times
                       /\ proc[p].offer \in SUBSET OpenHours
  BY <1>t DEF WellTyped, Handlers
<1>h. /\ clock' = clock \/ (clock' = clock + 1 /\ clock < MaxTime)
      /\ serving' = serving \/ (serving' = FALSE /\ interrupted' = TRUE) \/ serving' = TRUE
      /\ interrupted' = interrupted \/ interrupted' = TRUE
      /\ \/ UNCHANGED shown
         \/ \E p \in Procs : At(p, "send") /\ shown' = [shown EXCEPT ![proc[p].call] = @ \cup proc[p].offer]
      /\ \/ UNCHANGED <<asked, raced>>
         \/ \E p \in Procs : Book(p)
      /\ \/ UNCHANGED <<told, reminders>>
         \/ \E p \in Procs : ReminderAccepted(p) \/ ReminderUnheard(p)
      /\ faults' = faults \/ (faults' = faults + 1 /\ faults < MaxFaults)
  BY <1>t, HistoryChanges
<1>1. clock' \in Times /\ clock' >= 1
  <2>1. clock \in 0 .. MaxTime
    BY <1>t DEF WellTyped, Times
  <2>2. clock' \in 0 .. MaxTime /\ clock' >= 1
    BY <1>t, <1>h, <2>1, Constants
  <2> QED
    BY <2>2 DEF Times
<1>2. serving' \in BOOLEAN /\ interrupted' \in BOOLEAN
  BY <1>t, <1>h DEF WellTyped
<1>3. shown' \in [Calls -> SUBSET OpenHours]
  BY <1>t, <1>p, <1>h DEF WellTyped
<1>4. asked' \in [Calls -> Times] /\ raced' \subseteq Calls
  <2>1. ASSUME NEW p \in Procs, Book(p) PROVE asked' \in [Calls -> Times] /\ raced' \subseteq Calls
    BY <1>t, <1>p, <2>1 DEF Book, WellTyped
  <2> QED
    BY <1>t, <1>h, <2>1 DEF WellTyped
<1>5. told' \in [Calls -> SUBSET Times] /\ reminders' \in [Calls -> Nat]
  <2>1. ASSUME NEW p \in Procs, ReminderAccepted(p) \/ ReminderUnheard(p)
        PROVE  told' \in [Calls -> SUBSET Times] /\ reminders' \in [Calls -> Nat]
    <3>1. /\ told' = [told EXCEPT ![proc[p].call] = @ \cup {proc[p].slot}]
          /\ reminders' = [reminders EXCEPT ![proc[p].call] = @ + 1]
      BY <2>1 DEF ReminderAccepted, ReminderUnheard
    <3>2. told' \in [Calls -> SUBSET Times]
      BY <1>t, <1>p, <3>1 DEF WellTyped
    <3>3. reminders' \in [Calls -> Nat]
      BY <1>t, <1>p, <3>1 DEF WellTyped
    <3> QED
      BY <3>2, <3>3
  <2> QED
    BY <1>t, <1>h, <2>1 DEF WellTyped
<1>6. faults' \in 0 .. MaxFaults
  <2>1. faults \in 0 .. MaxFaults
    BY <1>t DEF WellTyped
  <2> QED
    BY <1>h, <2>1, Constants
<1>7. (row \in [Calls -> Rows])' /\ OffersAreDated' /\ HandlersOK'
  BY RowsStep, HandlersStep
<1> QED
  BY <1>1, <1>2, <1>3, <1>4, <1>5, <1>6, <1>7 DEF Shape, TypeOK, WellTyped, Begun, HandlersOK

(* Rows and handlers stay well formed, and an offer that could be replied  *)
(* to has a date, whatever stops between the two.                          *)
THEOREM TypeCorrect == Spec => []TypeOK
<1>1. Shape => TypeOK
  BY DEF Shape
<1> QED
  BY <1>1, InitShape, ShapeStep, PTL DEF Spec

-----------------------------------------------------------------------------
(* What a step makes of one handler.                                       *)
LEMMA HandlerChanges ==
  ASSUME Shape, [Next]_vars, NEW p \in Procs
  PROVE  \/ proc'[p] = Idle
         \/ \E b \in BOOLEAN : proc'[p] = [proc[p] EXCEPT !.raced = b] /\ (proc[p].raced => b)
         \/ proc'[p].at \in {"send", "close"}
         \/ \E c \in Calls, want \in OpenHours : ReplyArrives(p, c, want)
         \/ \E c \in Calls : p \in Ticks /\ TickReminds(p, c)
         \/ OfferAccepted(p) /\ proc'[p] = [proc[p] EXCEPT !.at = "offer"]
         \/ \E t \in FreeSlots(p) : FindFree(p) /\ proc'[p] = [proc[p] EXCEPT !.at = "book", !.slot = t]
         \/ ReminderAccepted(p) /\ proc'[p] = [proc[p] EXCEPT !.at = "stamp"]
<1> DEFINE Goal == \/ proc'[p] = Idle
                   \/ \E b \in BOOLEAN : proc'[p] = [proc[p] EXCEPT !.raced = b] /\ (proc[p].raced => b)
                   \/ proc'[p].at \in {"send", "close"}
                   \/ \E c \in Calls, want \in OpenHours : ReplyArrives(p, c, want)
                   \/ \E c \in Calls : p \in Ticks /\ TickReminds(p, c)
                   \/ OfferAccepted(p) /\ proc'[p] = [proc[p] EXCEPT !.at = "offer"]
                   \/ \E t \in FreeSlots(p) :
                        FindFree(p) /\ proc'[p] = [proc[p] EXCEPT !.at = "book", !.slot = t]
                   \/ ReminderAccepted(p) /\ proc'[p] = [proc[p] EXCEPT !.at = "stamp"]
<1> SUFFICES Goal
  OBVIOUS
<1>t. proc \in [Procs -> Handlers]
  BY DEF Shape, TypeOK, WellTyped
<1>0. ASSUME proc'[p] = proc[p] PROVE Goal
  <2>1. proc[p].raced \in BOOLEAN /\ proc[p] = [proc[p] EXCEPT !.raced = proc[p].raced]
    BY <1>t DEF Handlers
  <2> QED
    BY <1>0, <2>1
<1>1. ASSUME NEW q \in Procs, NEW r, proc' = [proc EXCEPT ![q] = r], q # p PROVE Goal
  BY <1>t, <1>0, <1>1
<1>2. ASSUME NEW q \in Procs, Continue(q) PROVE Goal
  <2>1. CASE Book(q)
    <3>1. proc'[p] = IF p = q THEN Idle ELSE [proc[p] EXCEPT !.raced = @ \/ Overtaken(q, p)]
      BY <2>1 DEF Book
    <3>2. CASE p = q
      BY <3>1, <3>2
    <3>3. CASE p # q
      <4> DEFINE b == proc[p].raced \/ Overtaken(q, p)
      <4>1. b \in BOOLEAN
        BY Zenon
      <4>2. proc'[p] = [proc[p] EXCEPT !.raced = b] /\ (proc[p].raced => b)
        BY <3>1, <3>3
      <4> HIDE DEF b
      <4> QED
        BY <4>1, <4>2
    <3> QED
      BY <3>2, <3>3
  <2>2. CASE q # p /\ ~Book(q)
    <3>1. UNCHANGED proc \/ \E r : proc' = [proc EXCEPT ![q] = r]
      BY <1>2, <2>2 DEF Continue, OfferAccepted, OfferRefused, OfferUnheard, RecordOffer, CloseCaller,
                         FindFree, ReminderAccepted, ReminderRefused, ReminderUnheard, StampReminded, Goes, Done
    <3> QED
      BY <1>0, <1>1, <2>2, <3>1
  <2>3. ASSUME q = p, NEW station, Goes(p, station) PROVE proc'[p] = [proc[p] EXCEPT !.at = station]
    BY <1>t, <2>3 DEF Goes
  <2>4. ASSUME Done(p) PROVE proc'[p] = Idle
    BY <1>t, <2>4 DEF Done
  <2>5. CASE q = p /\ (OfferAccepted(p) \/ ReminderAccepted(p))
    <3>1. CASE OfferAccepted(p)
      <4>1. proc'[p] = [proc[p] EXCEPT !.at = "offer"]
        BY <2>3, <2>5, <3>1 DEF OfferAccepted
      <4> QED
        BY <3>1, <4>1
    <3>2. CASE ReminderAccepted(p)
      <4>1. proc'[p] = [proc[p] EXCEPT !.at = "stamp"]
        BY <2>3, <2>5, <3>2 DEF ReminderAccepted
      <4> QED
        BY <3>2, <4>1
    <3> QED
      BY <2>5, <3>1, <3>2
  <2>6. CASE q = p /\ RecordOffer(p)
    <3>1. proc'[p] = [proc[p] EXCEPT !.at = "close"]
      BY <2>3, <2>6 DEF RecordOffer
    <3>2. proc'[p].at = "close"
      BY <1>t, <3>1 DEF Handlers
    <3> QED
      BY <3>2
  <2>7. CASE q = p /\ (\/ OfferRefused(p) \/ OfferUnheard(p) \/ CloseCaller(p)
                       \/ ReminderRefused(p) \/ ReminderUnheard(p) \/ StampReminded(p))
    BY <2>4, <2>7 DEF OfferRefused, OfferUnheard, CloseCaller, ReminderRefused, ReminderUnheard,
                      StampReminded
  <2>8. CASE q = p /\ FindFree(p)
    <3>1. ASSUME NEW t \in FreeSlots(p), proc' = [proc EXCEPT ![p].at = "book", ![p].slot = t] PROVE Goal
      <4>1. proc'[p] = [proc[p] EXCEPT !.at = "book", !.slot = t]
        BY <1>t, <3>1
      <4> QED
        BY <2>8, <4>1
    <3> QED
      BY <2>4, <2>8, <3>1 DEF FindFree
  <2> QED
    BY <1>2, <2>1, <2>2, <2>5, <2>6, <2>7, <2>8 DEF Continue
<1>3. ASSUME NEW q \in Procs, q # p, NEW station, NEW c, NEW offer, NEW slot, Starts(q, station, c, offer, slot)
      PROVE  Goal
  BY <1>1, <1>3 DEF Starts
<1>4. ASSUME NEW q \in Desks, NEW c \in Calls, NEW want \in OpenHours, ReplyArrives(q, c, want) PROVE Goal
  <2>1. CASE q = p
    BY <1>4, <2>1
  <2>2. CASE q # p
    <3>1. Starts(q, "taken", c, row[c].offered, want) /\ q \in Procs
      BY <1>4 DEF ReplyArrives, Procs
    <3> QED
      BY <1>3, <2>2, <3>1
  <2> QED
    BY <2>1, <2>2
<1>5. ASSUME NEW t \in Ticks, NEW c \in Calls, TickOffers(t, c) PROVE Goal
  <2>1. Starts(t, "send", c, Offerable(clock), Null) /\ t \in Procs
    BY <1>5 DEF TickOffers, Procs
  <2>2. CASE t = p
    <3>1. proc'[p].at = "send"
      BY <1>t, <2>1, <2>2 DEF Starts
    <3> QED
      BY <3>1
  <2>3. CASE t # p
    BY <1>3, <2>1, <2>3
  <2> QED
    BY <2>2, <2>3
<1>6. ASSUME NEW t \in Ticks, NEW c \in Calls, TickReminds(t, c) PROVE Goal
  <2>1. CASE t = p
    BY <1>6, <2>1
  <2>2. CASE t # p
    <3>1. \E station : Starts(t, station, c, {}, row[c].slot) /\ t \in Procs
      BY <1>6 DEF TickReminds, Procs
    <3> QED
      BY <1>3, <2>2, <3>1
  <2> QED
    BY <2>1, <2>2
<1>7. CASE UNCHANGED proc
  BY <1>0, <1>7
<1>8. ASSUME NEW t \in Ticks, NEW c \in Calls, TickClosesCaller(t, c) PROVE UNCHANGED proc
  BY <1>8 DEF TickClosesCaller
<1>9. CASE TimePasses \/ ServiceStops \/ ServiceResumes \/ UNCHANGED vars
  BY <1>7, <1>9 DEF TimePasses, ServiceStops, ServiceResumes, vars
<1>10. CASE Fault
  <2>1. PICK lost : proc' = [q \in Procs |-> IF q \in lost THEN Idle ELSE proc[q]]
    BY <1>10 DEF Fault
  <2> QED
    BY <1>0, <2>1
<1> QED
  BY <1>2, <1>4, <1>5, <1>6, <1>7, <1>8, <1>9, <1>10 DEF Next, TickStarts

(* What a step makes of one row.                                           *)
LEMMA ColumnsChange ==
  ASSUME Shape, [Next]_vars, NEW c \in Calls
  PROVE  /\ \/ row'[c].offered = row[c].offered
            \/ \E p \in Procs : RecordOffer(p) /\ proc[p].call = c /\ row'[c].offered = proc[p].offer
         /\ \/ row'[c].slot = row[c].slot
            \/ \E p \in Procs : Book(p) /\ proc[p].call = c /\ row'[c].slot = proc[p].slot
         /\ \/ row'[c].reminded = row[c].reminded
            \/ \E p \in Procs : StampReminded(p) /\ proc[p].call = c
<1>t. row \in [Calls -> Rows] /\ proc \in [Procs -> Handlers] /\ WellTyped
  BY DEF Shape, TypeOK, WellTyped
<1> DEFINE Same == /\ row'[c].offered = row[c].offered
                   /\ row'[c].slot = row[c].slot
                   /\ row'[c].reminded = row[c].reminded
<1>1. CASE row' = row
  BY <1>1
<1>2. ASSUME NEW d \in Calls, NEW b \in BOOLEAN, row' = [row EXCEPT ![d].closed = b] PROVE Same
  BY <1>t, <1>2 DEF Rows
<1>3. ASSUME NEW p \in Procs, RecordOffer(p)
      PROVE  /\ row'[c].offered = row[c].offered \/ (proc[p].call = c /\ row'[c].offered = proc[p].offer)
             /\ row'[c].slot = row[c].slot /\ row'[c].reminded = row[c].reminded
  BY <1>t, <1>3 DEF RecordOffer, Rows
<1>4. ASSUME NEW p \in Procs, Book(p)
      PROVE  /\ row'[c].slot = row[c].slot \/ (proc[p].call = c /\ row'[c].slot = proc[p].slot)
             /\ row'[c].offered = row[c].offered /\ row'[c].reminded = row[c].reminded
  BY <1>t, <1>4 DEF Book, Rows
<1>5. ASSUME NEW p \in Procs, StampReminded(p)
      PROVE  /\ row'[c].reminded = row[c].reminded \/ proc[p].call = c
             /\ row'[c].offered = row[c].offered /\ row'[c].slot = row[c].slot
  BY <1>t, <1>5 DEF StampReminded, Rows
<1> QED
  BY <1>t, <1>1, <1>2, <1>3, <1>4, <1>5, RowChanges

-----------------------------------------------------------------------------
(* What a row offers, and what a handler is about to store or book, has    *)
(* been sent to the caller.                                                *)
Replying(p) == At(p, "taken") \/ At(p, "book")

Sent ==
  /\ \A c \in Calls : row[c].offered \subseteq shown[c]
  /\ \A p \in Procs : At(p, "offer") => proc[p].offer \subseteq shown[proc[p].call]
  /\ \A p \in Procs : Replying(p) => proc[p].offer \subseteq shown[proc[p].call] /\ proc[p].want \in proc[p].offer
  /\ \A p \in Procs : At(p, "book") => proc[p].slot \in proc[p].offer /\ proc[p].slot >= proc[p].want

LEMMA ShownStays ==
  ASSUME Shape, [Next]_vars
  PROVE  \A c \in Calls : shown[c] \subseteq shown'[c]
<1>1. \/ UNCHANGED shown
      \/ \E p \in Procs : At(p, "send") /\ shown' = [shown EXCEPT ![proc[p].call] = @ \cup proc[p].offer]
  BY HistoryChanges DEF Shape, TypeOK
<1> QED
  BY <1>1 DEF Shape, TypeOK, WellTyped

LEMMA SentStep == Shape /\ Sent /\ [Next]_vars => Sent'
<1> SUFFICES ASSUME Shape, Sent, [Next]_vars PROVE Sent'
  OBVIOUS
<1>t. proc \in [Procs -> Handlers] /\ row \in [Calls -> Rows] /\ shown \in [Calls -> SUBSET OpenHours]
  BY DEF Shape, TypeOK, WellTyped
<1>s. \A c \in Calls : shown[c] \subseteq shown'[c]
  BY ShownStays
<1> USE DEF At, Replying
<1>1. ASSUME NEW c \in Calls PROVE row'[c].offered \subseteq shown'[c]
  <2>1. CASE row'[c].offered = row[c].offered
    BY <1>s, <2>1 DEF Sent
  <2>2. ASSUME NEW p \in Procs, RecordOffer(p), proc[p].call = c, row'[c].offered = proc[p].offer
        PROVE  row'[c].offered \subseteq shown'[c]
    BY <1>s, <2>2 DEF RecordOffer, Sent
  <2> QED
    BY <2>1, <2>2, ColumnsChange
<1>2. ASSUME NEW p \in Procs
      PROVE  /\ At(p, "offer")' => proc'[p].offer \subseteq shown'[proc'[p].call]
             /\ Replying(p)' => proc'[p].offer \subseteq shown'[proc'[p].call] /\ proc'[p].want \in proc'[p].offer
             /\ At(p, "book")' => proc'[p].slot \in proc'[p].offer /\ proc'[p].slot >= proc'[p].want
  <2> DEFINE Goal == /\ At(p, "offer")' => proc'[p].offer \subseteq shown'[proc'[p].call]
                     /\ Replying(p)' => /\ proc'[p].offer \subseteq shown'[proc'[p].call]
                                        /\ proc'[p].want \in proc'[p].offer
                     /\ At(p, "book")' => proc'[p].slot \in proc'[p].offer /\ proc'[p].slot >= proc'[p].want
  <2>t. proc[p] \in Handlers
    BY <1>t
  <2>c. /\ proc[p].call \in Calls /\ proc[p].offer \subseteq Times /\ proc[p].want \in Times
        /\ Times \subseteq Nat
    <3>1. Times \subseteq Nat
      BY Constants DEF Times
    <3>2. proc[p].call \in Calls /\ proc[p].offer \subseteq OpenHours /\ proc[p].want \in Times
      BY <2>t DEF Handlers
    <3> QED
      BY <3>1, <3>2, Constants
  <2>1. CASE proc'[p] = Idle
    BY <2>1 DEF Idle
  <2>2. ASSUME NEW b, proc'[p] = [proc[p] EXCEPT !.raced = b] PROVE Goal
    <3>1. /\ proc'[p].at = proc[p].at /\ proc'[p].offer = proc[p].offer /\ proc'[p].call = proc[p].call
          /\ proc'[p].want = proc[p].want /\ proc'[p].slot = proc[p].slot
      BY <2>t, <2>2 DEF Handlers
    <3> QED
      BY <1>s, <2>c, <3>1 DEF Sent
  <2>3. CASE proc'[p].at \in {"send", "close"}
    BY <2>3
  <2>4. ASSUME NEW c \in Calls, NEW want \in OpenHours, ReplyArrives(p, c, want) PROVE Goal
    <3>1. proc'[p] = [at |-> "taken", call |-> c, now |-> clock, offer |-> row[c].offered,
                      want |-> want, slot |-> want, raced |-> FALSE]
      BY <1>t, <2>4 DEF ReplyArrives, Starts
    <3>2. want \in row[c].offered
      BY <2>4 DEF ReplyArrives
    <3> QED
      BY <1>s, <3>1, <3>2 DEF Sent
  <2>5. ASSUME NEW c \in Calls, TickReminds(p, c) PROVE Goal
    <3>1. proc'[p].at \in {"remind", "stamp"}
      BY <1>t, <2>5 DEF TickReminds, Starts
    <3> QED
      BY <3>1
  <2>6. CASE OfferAccepted(p) /\ proc'[p] = [proc[p] EXCEPT !.at = "offer"]
    <3>1. proc'[p].at = "offer" /\ proc'[p].offer = proc[p].offer /\ proc'[p].call = proc[p].call
      BY <2>t, <2>6 DEF Handlers
    <3>2. shown' = [shown EXCEPT ![proc[p].call] = @ \cup proc[p].offer]
      BY <2>6 DEF OfferAccepted
    <3> QED
      BY <1>t, <2>c, <3>1, <3>2
  <2>7. ASSUME NEW t \in FreeSlots(p), FindFree(p), proc'[p] = [proc[p] EXCEPT !.at = "book", !.slot = t]
        PROVE  Goal
    <3>1. /\ proc'[p].at = "book" /\ proc'[p].offer = proc[p].offer /\ proc'[p].call = proc[p].call
          /\ proc'[p].want = proc[p].want /\ proc'[p].slot = t
      BY <2>t, <2>7 DEF Handlers
    <3>2. proc[p].offer \subseteq shown[proc[p].call] /\ proc[p].want \in proc[p].offer
      BY <2>7 DEF FindFree, Sent
    <3>3. t = proc[p].want \/ (t \in proc[p].offer /\ t > proc[p].want)
      BY FreeSlotIsOffered
    <3>4. t \in proc[p].offer /\ t >= proc[p].want
      <4>1. t \in proc[p].offer
        BY <3>2, <3>3
      <4>2. t \in Nat /\ proc[p].want \in Nat
        BY <2>c, <4>1
      <4> QED
        BY <3>3, <4>1, <4>2
    <3> QED
      BY <1>s, <2>c, <3>1, <3>2, <3>4
  <2>8. CASE ReminderAccepted(p) /\ proc'[p] = [proc[p] EXCEPT !.at = "stamp"]
    <3>1. proc'[p].at = "stamp"
      BY <2>t, <2>8 DEF Handlers
    <3> QED
      BY <3>1
  <2> QED
    BY <2>1, <2>2, <2>3, <2>4, <2>5, <2>6, <2>7, <2>8, HandlerChanges
<1> QED
  BY <1>1, <1>2 DEF Sent

LEMMA BookedStep == Shape /\ Sent /\ BookedAsShown /\ [Next]_vars => BookedAsShown'
<1> SUFFICES ASSUME Shape, Sent, BookedAsShown, [Next]_vars, NEW c \in Calls, row'[c].slot # Null
             PROVE  row'[c].slot \in shown'[c] /\ row'[c].slot >= asked'[c]
  BY DEF BookedAsShown
<1>t. WellTyped
  BY DEF Shape, TypeOK
<1>s. shown[c] \subseteq shown'[c]
  BY ShownStays
<1>1. ASSUME NEW p \in Procs, Book(p)
      PROVE  row'[c].slot \in shown'[c] /\ row'[c].slot >= asked'[c]
  <2>1. /\ row' = [row EXCEPT ![proc[p].call].slot = proc[p].slot]
        /\ asked' = [asked EXCEPT ![proc[p].call] = proc[p].want]
    BY <1>1 DEF Book
  <2>2. CASE c = proc[p].call
    <3>1. row'[c].slot = proc[p].slot /\ asked'[c] = proc[p].want
      BY <1>t, <2>1, <2>2 DEF WellTyped, Rows
    <3>2. proc[p].slot \in proc[p].offer /\ proc[p].slot >= proc[p].want /\ proc[p].offer \subseteq shown[c]
      BY <1>1, <2>2 DEF Book, Sent, Replying
    <3> QED
      BY <1>s, <3>1, <3>2
  <2>3. CASE c # proc[p].call
    <3>1. row'[c].slot = row[c].slot /\ asked'[c] = asked[c]
      BY <1>t, <2>1, <2>3 DEF WellTyped
    <3> QED
      BY <1>s, <3>1 DEF BookedAsShown
  <2> QED
    BY <2>2, <2>3
<1>2. CASE row'[c].slot = row[c].slot /\ asked' = asked
  BY <1>s, <1>2 DEF BookedAsShown
<1>3. row'[c].slot = row[c].slot \/ \E p \in Procs : Book(p)
  BY ColumnsChange
<1>4. asked' = asked \/ \E p \in Procs : Book(p)
  BY <1>t, HistoryChanges
<1> QED
  BY <1>1, <1>2, <1>3, <1>4

(* However many offers of a call cross with restarts, refused messages and *)
(* second replies, nobody is booked for a moment he was not sent, or for   *)
(* one before the moment he picked.                                        *)
THEOREM BookingIsAsShown == Spec => []BookedAsShown
<1>1. Init => Sent /\ BookedAsShown
  BY DEF Init, Blank, Idle, Sent, Replying, At, BookedAsShown
<1> QED
  BY <1>1, SentStep, BookedStep, InitShape, ShapeStep, PTL DEF Spec

-----------------------------------------------------------------------------
(* Who is to book a moment nobody else has it, or has been overtaken.      *)
Fresh ==
  \A p \in Procs :
    At(p, "book") /\ ~proc[p].raced => \A d \in Calls : row[d].slot # proc[p].slot

(* A booking marks whom it overtakes.                                      *)
LEMMA BookMarks ==
  ASSUME Shape, NEW q \in Procs, Book(q), NEW p \in Procs, p # q,
         At(p, "book") \/ (At(p, "taken") /\ proc[p].call = proc[q].call)
  PROVE  proc'[p].raced = TRUE
<1>1. proc'[p] = [proc[p] EXCEPT !.raced = @ \/ Overtaken(q, p)]
  BY DEF Book
<1>2. Overtaken(q, p)
  BY DEF Overtaken
<1>3. (proc[p].raced \/ Overtaken(q, p)) = TRUE
  BY <1>2, Zenon
<1>4. proc'[p] = [proc[p] EXCEPT !.raced = TRUE]
  BY <1>1, <1>3
<1> QED
  BY <1>4 DEF Shape, TypeOK, WellTyped, Handlers

LEMMA FreshStep == Shape /\ Fresh /\ [Next]_vars => Fresh'
<1> SUFFICES ASSUME Shape, Fresh, [Next]_vars, NEW p \in Procs, proc'[p].at = "book", ~proc'[p].raced,
                    NEW d \in Calls
             PROVE  row'[d].slot # proc'[p].slot
  BY DEF Fresh, At
<1>t. proc \in [Procs -> Handlers] /\ row \in [Calls -> Rows]
  BY DEF Shape, TypeOK, WellTyped
<1> USE DEF At
<1>1. ASSUME NEW b \in BOOLEAN, proc'[p] = [proc[p] EXCEPT !.raced = b], proc[p].raced => b
      PROVE  row'[d].slot # proc'[p].slot
  <2>1. /\ proc'[p].at = proc[p].at /\ proc'[p].slot = proc[p].slot /\ proc'[p].raced = b
        /\ proc[p].raced \in BOOLEAN
    BY <1>t, <1>1 DEF Handlers
  <2>2. ~proc[p].raced
    BY <1>1, <2>1
  <2>3. CASE row'[d].slot = row[d].slot
    BY <2>1, <2>2, <2>3 DEF Fresh
  <2>4. ASSUME NEW q \in Procs, Book(q) PROVE FALSE
    <3>1. CASE q = p
      BY <2>4, <3>1, <1>t DEF Book, Idle
    <3>2. CASE q # p
      BY <2>1, <2>4, <3>2, BookMarks
    <3> QED
      BY <3>1, <3>2
  <2> QED
    BY <2>3, <2>4, ColumnsChange
<1>2. ASSUME NEW t \in FreeSlots(p), FindFree(p), proc'[p] = [proc[p] EXCEPT !.at = "book", !.slot = t]
      PROVE  row'[d].slot # proc'[p].slot
  <2>1. proc'[p].slot = t /\ row' = row
    BY <1>t, <1>2 DEF Handlers, FindFree
  <2>2. t > proc[p].now /\ t \notin Taken(proc[p].now)
    BY FreeSlotIsOffered DEF Usable
  <2>3. proc[p].now \in Nat /\ row[d].slot \in Nat
    BY <1>t, Constants DEF Handlers, Rows, Times
  <2> QED
    BY <2>1, <2>2, <2>3 DEF Taken
<1>3. proc'[p] # Idle /\ proc'[p].at \notin {"send", "close"}
  BY DEF Idle
<1>4. ASSUME NEW c \in Calls, NEW want \in OpenHours, ReplyArrives(p, c, want) PROVE FALSE
  BY <1>t, <1>4 DEF ReplyArrives, Starts
<1>5. ASSUME NEW c \in Calls, TickReminds(p, c) PROVE FALSE
  BY <1>t, <1>5 DEF TickReminds, Starts
<1>6. /\ proc'[p] # [proc[p] EXCEPT !.at = "offer"]
      /\ proc'[p] # [proc[p] EXCEPT !.at = "stamp"]
  BY <1>t DEF Handlers
<1> QED
  BY <1>1, <1>2, <1>3, <1>4, <1>5, <1>6, HandlerChanges

LEMMA RacedStays ==
  ASSUME Shape, [Next]_vars
  PROVE  raced \subseteq raced'
<1>1. UNCHANGED raced \/ \E p \in Procs : Book(p)
  BY HistoryChanges DEF Shape, TypeOK
<1> QED
  BY <1>1 DEF Book

LEMMA ExclusiveStep == Shape /\ Fresh /\ SlotsAreExclusive /\ [Next]_vars => SlotsAreExclusive'
<1> SUFFICES ASSUME Shape, Fresh, SlotsAreExclusive, [Next]_vars,
                    NEW c \in Calls, NEW d \in Calls, c # d, row'[c].slot # Null,
                    row'[c].slot = row'[d].slot
             PROVE  {c, d} \cap raced' # {}
  BY DEF SlotsAreExclusive
<1>t. WellTyped
  BY DEF Shape, TypeOK
<1>1. CASE row'[c].slot = row[c].slot /\ row'[d].slot = row[d].slot
  BY <1>1, RacedStays DEF SlotsAreExclusive
<1>2. ASSUME NEW p \in Procs, Book(p) PROVE {c, d} \cap raced' # {}
  <2>1. /\ row' = [row EXCEPT ![proc[p].call].slot = proc[p].slot]
        /\ proc[p].raced => proc[p].call \in raced'
    BY <1>2 DEF Book
  <2>2. ASSUME NEW x \in Calls PROVE row'[x].slot = IF x = proc[p].call THEN proc[p].slot ELSE row[x].slot
    BY <1>t, <2>1 DEF WellTyped, Rows
  <2>3. CASE proc[p].call \in {c, d}
    <3>1. CASE proc[p].raced
      BY <2>1, <2>3, <3>1
    <3>2. CASE ~proc[p].raced
      <4>1. \A x \in Calls : row[x].slot # proc[p].slot
        BY <1>2, <3>2 DEF Book, Fresh
      <4> QED
        BY <2>2, <2>3, <4>1
    <3> QED
      BY <3>1, <3>2
  <2>4. CASE proc[p].call \notin {c, d}
    BY <1>1, <2>2, <2>4
  <2> QED
    BY <2>3, <2>4
<1> QED
  BY <1>1, <1>2, ColumnsChange

(* However many replies are handled at once, two people are promised the   *)
(* same moment only if their replies overlapped.                           *)
THEOREM SlotsExclusive == Spec => []SlotsAreExclusive
<1>1. Init => Fresh /\ SlotsAreExclusive
  BY DEF Init, Blank, Idle, Fresh, At, SlotsAreExclusive
<1> QED
  BY <1>1, FreshStep, ExclusiveStep, InitShape, ShapeStep, PTL DEF Spec

-----------------------------------------------------------------------------
(* A tick at work knows the moment that is booked, unless it was booked    *)
(* again; a stamp about to be written has its reason; and who is to book a *)
(* row that is booked already has been overtaken.                          *)
Reminding(p) == At(p, "remind") \/ At(p, "stamp")

Knowing ==
  /\ serving \/ interrupted
  /\ \A c \in Calls : row[c].reminded => row[c].slot # Null
  /\ \A p \in Procs : Reminding(p) =>
       /\ proc[p].slot # Null /\ row[proc[p].call].slot # Null
       /\ row[proc[p].call].slot = proc[p].slot \/ proc[p].call \in raced
  /\ \A p \in Procs : Replying(p) => row[proc[p].call].slot = Null \/ proc[p].raced
  /\ \A p \in Procs : At(p, "stamp") =>
       \/ proc[p].slot \in told[proc[p].call] \/ proc[p].slot + Grace < clock \/ interrupted

(* A booking of a row that is booked already leaves it raced.              *)
LEMMA BookedAgainIsRaced ==
  ASSUME Shape, Knowing, [Next]_vars, NEW c \in Calls, row[c].slot # Null
  PROVE  row'[c].slot = row[c].slot \/ c \in raced'
<1>1. ASSUME NEW p \in Procs, Book(p), proc[p].call = c PROVE c \in raced'
  BY <1>1 DEF Book, Knowing, Replying
<1> QED
  BY <1>1, ColumnsChange

LEMMA BookedNotNull ==
  ASSUME Shape, Sent, NEW p \in Procs, Book(p)
  PROVE  proc[p].slot # Null
<1>1. proc[p].slot \in proc[p].offer
  BY DEF Book, Sent
<1>2. proc[p].offer \subseteq OpenHours
  BY DEF Shape, TypeOK, WellTyped, Handlers
<1> QED
  BY <1>1, <1>2, Constants

LEMMA BookedStays ==
  ASSUME Shape, Sent, [Next]_vars, NEW c \in Calls, row[c].slot # Null
  PROVE  row'[c].slot # Null
BY ColumnsChange, BookedNotNull

LEMMA ReasonsStay ==
  ASSUME Shape, [Next]_vars, NEW c \in Calls, NEW slot \in Times,
         slot \in told[c] \/ slot + Grace < clock \/ interrupted
  PROVE  slot \in told'[c] \/ slot + Grace < clock' \/ interrupted'
<1>t. WellTyped
  BY DEF Shape, TypeOK
<1>1. /\ clock' = clock \/ clock' = clock + 1
      /\ interrupted' = interrupted \/ interrupted' = TRUE
      /\ UNCHANGED told \/ \E p \in Procs : ReminderAccepted(p) \/ ReminderUnheard(p)
  BY <1>t, HistoryChanges
<1>2. told[c] \subseteq told'[c]
  BY <1>t, <1>1 DEF ReminderAccepted, ReminderUnheard, WellTyped
<1>3. slot + Grace < clock => slot + Grace < clock'
  <2>1. slot \in Nat /\ clock \in Nat /\ Grace \in Nat
    BY <1>t, Constants DEF WellTyped, Times
  <2> QED
    BY <1>1, <2>1
<1> QED
  BY <1>1, <1>2, <1>3

LEMMA KnowingStep == Shape /\ Sent /\ Knowing /\ [Next]_vars => Knowing'
<1> SUFFICES ASSUME Shape, Sent, Knowing, [Next]_vars PROVE Knowing'
  OBVIOUS
<1>t. WellTyped /\ proc \in [Procs -> Handlers] /\ row \in [Calls -> Rows]
  BY DEF Shape, TypeOK, WellTyped
<1> USE DEF At, Replying, Reminding
<1>1. serving' \/ interrupted'
  BY <1>t, HistoryChanges DEF Knowing
<1>2. ASSUME NEW c \in Calls, row'[c].reminded PROVE row'[c].slot # Null
  <2>1. CASE row[c].reminded
    BY <2>1, BookedStays DEF Knowing
  <2>2. ASSUME NEW p \in Procs, StampReminded(p), proc[p].call = c PROVE row'[c].slot # Null
    BY <2>2, BookedStays DEF StampReminded, Knowing
  <2> QED
    BY <1>2, <2>1, <2>2, ColumnsChange
<1>3. ASSUME NEW p \in Procs
      PROVE  /\ Reminding(p)' => /\ proc'[p].slot # Null /\ row'[proc'[p].call].slot # Null
                                 /\ row'[proc'[p].call].slot = proc'[p].slot \/ proc'[p].call \in raced'
             /\ Replying(p)' => row'[proc'[p].call].slot = Null \/ proc'[p].raced
             /\ At(p, "stamp")' => \/ proc'[p].slot \in told'[proc'[p].call]
                                   \/ proc'[p].slot + Grace < clock' \/ interrupted'
  <2> DEFINE Goal ==
        /\ Reminding(p)' => /\ proc'[p].slot # Null /\ row'[proc'[p].call].slot # Null
                            /\ row'[proc'[p].call].slot = proc'[p].slot \/ proc'[p].call \in raced'
        /\ Replying(p)' => row'[proc'[p].call].slot = Null \/ proc'[p].raced
        /\ At(p, "stamp")' => \/ proc'[p].slot \in told'[proc'[p].call]
                              \/ proc'[p].slot + Grace < clock' \/ interrupted'
  <2>t. proc[p] \in Handlers /\ proc[p].call \in Calls /\ proc[p].slot \in Times
    BY <1>t DEF Handlers
  <2> DEFINE c == proc[p].call
  <2>r. Reminding(p) => /\ proc[p].slot # Null /\ row'[c].slot # Null
                        /\ row'[c].slot = proc[p].slot \/ c \in raced'
    <3> SUFFICES ASSUME Reminding(p)
                 PROVE  /\ proc[p].slot # Null /\ row'[c].slot # Null
                        /\ row'[c].slot = proc[p].slot \/ c \in raced'
      OBVIOUS
    <3>1. proc[p].slot # Null /\ row[c].slot # Null /\ (row[c].slot = proc[p].slot \/ c \in raced)
      BY DEF Knowing
    <3>2. row'[c].slot # Null
      BY <2>t, <3>1, BookedStays
    <3>3. row'[c].slot = row[c].slot \/ c \in raced'
      BY <2>t, <3>1, BookedAgainIsRaced
    <3> QED
      BY <3>1, <3>2, <3>3, RacedStays
  <2>s. At(p, "stamp") => \/ proc[p].slot \in told'[c] \/ proc[p].slot + Grace < clock' \/ interrupted'
    BY <2>t, ReasonsStay DEF Knowing
  <2>1. CASE proc'[p] = Idle
    BY <2>1 DEF Idle
  <2>2. ASSUME NEW b \in BOOLEAN, proc'[p] = [proc[p] EXCEPT !.raced = b], proc[p].raced => b PROVE Goal
    <3>1. /\ proc'[p].at = proc[p].at /\ proc'[p].call = proc[p].call
          /\ proc'[p].slot = proc[p].slot /\ proc'[p].raced = b
      BY <2>t, <2>2 DEF Handlers
    <3>2. ASSUME Replying(p) PROVE row'[c].slot = Null \/ proc'[p].raced
      <4>1. CASE proc[p].raced
        BY <2>2, <3>1, <4>1
      <4>2. CASE row'[c].slot = row[c].slot
        BY <2>2, <3>1, <3>2, <4>2 DEF Knowing
      <4>3. ASSUME NEW q \in Procs, Book(q), proc[q].call = c PROVE proc'[p].raced
        <5>1. CASE q = p
          BY <1>t, <3>1, <3>2, <4>3, <5>1 DEF Book, Idle
        <5>2. CASE q # p
          BY <3>2, <4>3, <5>2, BookMarks
        <5> QED
          BY <5>1, <5>2
      <4> QED
        BY <2>t, <4>1, <4>2, <4>3, ColumnsChange
    <3> QED
      BY <2>r, <2>s, <3>1, <3>2
  <2>3. CASE proc'[p].at \in {"send", "close"}
    BY <2>3
  <2>4. ASSUME NEW d \in Calls, NEW want \in OpenHours, ReplyArrives(p, d, want) PROVE Goal
    <3>1. proc'[p] = [at |-> "taken", call |-> d, now |-> clock, offer |-> row[d].offered,
                      want |-> want, slot |-> want, raced |-> FALSE]
      BY <1>t, <2>4 DEF ReplyArrives, Starts
    <3>2. row[d].slot = Null /\ row' = row
      BY <2>4 DEF ReplyArrives
    <3> QED
      BY <3>1, <3>2
  <2>5. ASSUME NEW d \in Calls, TickReminds(p, d) PROVE Goal
    <3>1. proc'[p] = [at |-> IF serving /\ ~Expired(d) THEN "remind" ELSE "stamp", call |-> d,
                      now |-> clock, offer |-> {}, want |-> row[d].slot, slot |-> row[d].slot,
                      raced |-> FALSE]
      BY <1>t, <2>5 DEF TickReminds, Starts
    <3>2. row[d].slot # Null /\ row' = row /\ clock' = clock /\ interrupted' = interrupted
      BY <2>5 DEF TickReminds, DueReminders, Listed, history
    <3>3. proc'[p].at = "stamp" => row[d].slot + Grace < clock \/ interrupted
      BY <3>1 DEF Expired, Knowing
    <3>4. /\ proc'[p].at \in {"remind", "stamp"} /\ proc'[p].call = d
          /\ proc'[p].slot = row[d].slot
      BY <3>1
    <3> QED
      BY <3>2, <3>3, <3>4
  <2>6. CASE proc'[p] = [proc[p] EXCEPT !.at = "offer"]
    <3>1. proc'[p].at = "offer"
      BY <2>t, <2>6 DEF Handlers
    <3> QED
      BY <3>1
  <2>7. ASSUME NEW t \in FreeSlots(p), FindFree(p), proc'[p] = [proc[p] EXCEPT !.at = "book", !.slot = t]
        PROVE  Goal
    <3>1. proc'[p].at = "book" /\ proc'[p].call = c /\ proc'[p].raced = proc[p].raced
      BY <2>t, <2>7 DEF Handlers
    <3>2. row' = row /\ At(p, "taken")
      BY <2>7 DEF FindFree
    <3> QED
      BY <3>1, <3>2 DEF Knowing
  <2>8. CASE ReminderAccepted(p) /\ proc'[p] = [proc[p] EXCEPT !.at = "stamp"]
    <3>1. proc'[p].at = "stamp" /\ proc'[p].call = c /\ proc'[p].slot = proc[p].slot
      BY <2>t, <2>8 DEF Handlers
    <3>2. Reminding(p) /\ told' = [told EXCEPT ![c] = @ \cup {proc[p].slot}]
      BY <2>8 DEF ReminderAccepted
    <3>3. proc[p].slot \in told'[c]
      BY <1>t, <2>t, <3>2 DEF WellTyped
    <3> QED
      BY <2>r, <3>1, <3>2, <3>3
  <2> QED
    BY <2>1, <2>2, <2>3, <2>4, <2>5, <2>6, <2>7, <2>8, HandlerChanges
<1>4. \A c \in Calls : row'[c].reminded => row'[c].slot # Null
  BY <1>2, Zenon
<1>5. \A p \in Procs : Reminding(p)' =>
        /\ proc'[p].slot # Null /\ row'[proc'[p].call].slot # Null
        /\ row'[proc'[p].call].slot = proc'[p].slot \/ proc'[p].call \in raced'
  BY <1>3, Zenon
<1>6. \A p \in Procs : Replying(p)' => row'[proc'[p].call].slot = Null \/ proc'[p].raced
  BY <1>3, Zenon
<1>7. \A p \in Procs : At(p, "stamp")' =>
        \/ proc'[p].slot \in told'[proc'[p].call] \/ proc'[p].slot + Grace < clock' \/ interrupted'
  BY <1>3, Zenon
<1> QED
  BY <1>1, <1>4, <1>5, <1>6, <1>7, Zenon DEF Knowing

LEMMA ClosingStep ==
  Shape /\ Sent /\ Knowing /\ NoSilentClosing /\ [Next]_vars => NoSilentClosing'
<1> SUFFICES ASSUME Shape, Sent, Knowing, NoSilentClosing, [Next]_vars,
                    NEW c \in Calls, c \notin raced', row'[c].reminded
             PROVE  row'[c].slot \in told'[c] \/ row'[c].slot + Grace < clock' \/ interrupted'
  BY DEF NoSilentClosing, Expired
<1>t. row \in [Calls -> Rows]
  BY DEF Shape, TypeOK, WellTyped
<1>1. c \notin raced
  BY RacedStays
<1>2. ASSUME row[c].slot # Null, row[c].slot \in told[c] \/ row[c].slot + Grace < clock \/ interrupted
      PROVE  row'[c].slot \in told'[c] \/ row'[c].slot + Grace < clock' \/ interrupted'
  <2>1. row'[c].slot = row[c].slot
    BY <1>2, BookedAgainIsRaced
  <2>2. row[c].slot \in Times
    BY <1>t DEF Rows
  <2>3. row[c].slot \in told'[c] \/ row[c].slot + Grace < clock' \/ interrupted'
    BY <1>2, <2>2, ReasonsStay
  <2> QED
    BY <2>1, <2>3
<1>3. CASE row[c].reminded
  BY <1>1, <1>2, <1>3 DEF Knowing, NoSilentClosing, Expired
<1>4. ASSUME NEW p \in Procs, StampReminded(p), proc[p].call = c
      PROVE  row'[c].slot \in told'[c] \/ row'[c].slot + Grace < clock' \/ interrupted'
  BY <1>1, <1>2, <1>4 DEF StampReminded, Knowing, Reminding
<1> QED
  BY <1>3, <1>4, ColumnsChange

(* A callback that is booked once leaves the reminder list only with the   *)
(* owner told of its moment, or too late, or because the service was off - *)
(* whatever ticks overlap, and however often reminders fail.               *)
THEOREM ClosingIsNotSilent == Spec => []NoSilentClosing
<1>1. Init => Sent /\ Knowing /\ NoSilentClosing
  BY DEF Init, Blank, Idle, Sent, Replying, Reminding, At, Knowing, NoSilentClosing
<1> QED
  BY <1>1, SentStep, KnowingStep, ClosingStep, InitShape, ShapeStep, PTL DEF Spec
-----------------------------------------------------------------------------
(* What a tick may still add to the reminders of a callback: while the row *)
(* is on the list, one by each tick but those about to stamp it; once it   *)
(* is stamped, one by each that has read it before.                        *)
Works(t, station, c) == At(t, station) /\ proc[t].call = c

MayRemind(c) ==
  {t \in Ticks : IF row[c].reminded THEN Works(t, "remind", c) ELSE ~Works(t, "stamp", c)}

RemindersAreTicks == \A p \in Procs : At(p, "remind") => p \in Ticks

Counted ==
  \A c \in Calls :
    reminders[c] + Cardinality(MayRemind(c)) <= Cardinality(Ticks) * (1 + faults)

LEMMA PartOfTicks ==
  ASSUME NEW S \in SUBSET Ticks
  PROVE  /\ IsFiniteSet(S) /\ Cardinality(S) \in Nat /\ Cardinality(Ticks) \in Nat
         /\ Cardinality(S) <= Cardinality(Ticks)
BY TicksAreFinite, FS_Subset, FS_CardinalityType

LEMMA RemindersAreTicksStep == Shape /\ RemindersAreTicks /\ [Next]_vars => RemindersAreTicks'
<1> SUFFICES ASSUME Shape, RemindersAreTicks, [Next]_vars, NEW p \in Procs, At(p, "remind")'
             PROVE  p \in Ticks
  BY DEF RemindersAreTicks
<1>t. proc \in [Procs -> Handlers]
  BY DEF Shape, TypeOK, WellTyped
<1>1. CASE proc'[p] = Idle \/ proc'[p].at \in {"send", "close"}
  BY <1>1 DEF Idle, At
<1>2. ASSUME NEW b, proc'[p] = [proc[p] EXCEPT !.raced = b] PROVE p \in Ticks
  BY <1>t, <1>2 DEF Handlers, RemindersAreTicks, At
<1>3. ASSUME NEW c \in Calls, NEW want \in OpenHours, ReplyArrives(p, c, want) PROVE p \in Ticks
  BY <1>t, <1>3 DEF ReplyArrives, Starts, At
<1>4. ASSUME NEW station \in {"offer", "stamp"}, proc'[p] = [proc[p] EXCEPT !.at = station] PROVE p \in Ticks
  BY <1>t, <1>4 DEF Handlers, At
<1>5. ASSUME NEW t, proc'[p] = [proc[p] EXCEPT !.at = "book", !.slot = t] PROVE p \in Ticks
  BY <1>t, <1>5 DEF Handlers, At
<1> QED
  BY <1>1, <1>2, <1>3, <1>4, <1>5, HandlerChanges

(* A handler about to stamp leaves by its stamp, or dies.                  *)
LEMMA StampIsKept ==
  ASSUME Shape, [Next]_vars, NEW p \in Procs, At(p, "stamp"), ~StampReminded(p), ~Fault
  PROVE  At(p, "stamp")' /\ proc'[p].call = proc[p].call
<1> DEFINE Goal == At(p, "stamp")' /\ proc'[p].call = proc[p].call
<1> SUFFICES Goal
  OBVIOUS
<1>t. proc \in [Procs -> Handlers]
  BY DEF Shape, TypeOK, WellTyped
<1>0. CASE proc'[p] = proc[p]
  BY <1>0 DEF At
<1>1. ASSUME NEW q \in Procs, q # p, NEW r, proc' = [proc EXCEPT ![q] = r] PROVE Goal
  BY <1>t, <1>0, <1>1
<1>2. ASSUME NEW q \in Procs, NEW station, NEW c, NEW offer, NEW slot, At(q, "idle"),
             Starts(q, station, c, offer, slot)
      PROVE  Goal
  <2>1. q # p
    BY <1>2 DEF At
  <2> QED
    BY <1>1, <1>2, <2>1 DEF Starts
<1>3. ASSUME NEW q \in Procs, Continue(q) PROVE Goal
  <2>1. CASE Book(q)
    <3>1. proc'[p] = IF p = q THEN Idle ELSE [proc[p] EXCEPT !.raced = @ \/ Overtaken(q, p)]
      BY <2>1 DEF Book
    <3>2. p # q
      BY <2>1 DEF Book, At
    <3>3. \E b : proc'[p] = [proc[p] EXCEPT !.raced = b]
      BY <3>1, <3>2
    <3> QED
      BY <1>t, <3>3 DEF Handlers, At
  <2>2. CASE ~Book(q)
    <3>1. q # p
      BY <1>3, <2>2 DEF Continue, OfferAccepted, OfferRefused, OfferUnheard, RecordOffer, CloseCaller,
                         FindFree, ReminderAccepted, ReminderRefused, ReminderUnheard, At
    <3>2. UNCHANGED proc \/ \E r : proc' = [proc EXCEPT ![q] = r]
      BY <1>3, <2>2 DEF Continue, OfferAccepted, OfferRefused, OfferUnheard, RecordOffer, CloseCaller,
                         FindFree, ReminderAccepted, ReminderRefused, ReminderUnheard, StampReminded, Goes, Done
    <3> QED
      BY <1>0, <1>1, <3>1, <3>2
  <2> QED
    BY <2>1, <2>2
<1>4. ASSUME NEW q \in Desks, NEW c \in Calls, NEW want \in OpenHours, ReplyArrives(q, c, want) PROVE Goal
  BY <1>2, <1>4 DEF ReplyArrives, Procs
<1>5. ASSUME NEW q \in Ticks, TickStarts(q) PROVE Goal
  <2>q. q \in Procs
    BY DEF Procs
  <2>1. ASSUME NEW c \in Calls, TickOffers(q, c) PROVE Goal
    <3>1. At(q, "idle") /\ Starts(q, "send", c, Offerable(clock), Null)
      BY <2>1 DEF TickOffers
    <3> QED
      BY <1>2, <2>q, <3>1
  <2>2. ASSUME NEW c \in Calls, TickClosesCaller(q, c) PROVE Goal
    BY <1>0, <2>2 DEF TickClosesCaller
  <2>3. ASSUME NEW c \in Calls, TickReminds(q, c) PROVE Goal
    <3>1. At(q, "idle") /\ \E station : Starts(q, station, c, {}, row[c].slot)
      BY <2>3 DEF TickReminds
    <3> QED
      BY <1>2, <2>q, <3>1
  <2> QED
    BY <1>5, <2>1, <2>2, <2>3 DEF TickStarts
<1>6. CASE TimePasses \/ ServiceStops \/ ServiceResumes \/ UNCHANGED vars
  BY <1>0, <1>6 DEF TimePasses, ServiceStops, ServiceResumes, vars
<1> QED
  BY <1>3, <1>4, <1>5, <1>6 DEF Next

(* Without a fault, no tick is added to those that may still remind.       *)
LEMMA FewerMayRemind ==
  ASSUME Shape, [Next]_vars, ~Fault, NEW c \in Calls, NEW t \in Ticks, t \in MayRemind(c)'
  PROVE  t \in MayRemind(c) /\ ~(ReminderAccepted(t) /\ proc[t].call = c)
<1>t. proc \in [Procs -> Handlers] /\ row \in [Calls -> Rows] /\ t \in Procs
  BY DEF Shape, TypeOK, WellTyped, Procs
<1>m. IF row'[c].reminded THEN Works(t, "remind", c)' ELSE ~Works(t, "stamp", c)'
  BY DEF MayRemind
<1>s. ASSUME NEW p \in Procs, StampReminded(p), proc[p].call = c
      PROVE  row'[c].reminded /\ proc'[p] = Idle
  BY <1>t, <1>s DEF StampReminded, Done
<1>r. row'[c].reminded = row[c].reminded \/ \E p \in Procs : StampReminded(p) /\ proc[p].call = c
  BY ColumnsChange
<1>a. ASSUME ReminderAccepted(t), proc[t].call = c
      PROVE  Works(t, "stamp", c)' /\ At(t, "remind")
  BY <1>t, <1>a DEF ReminderAccepted, Goes, Works, At, Handlers
<1>b. \A x, y \in STRING : x # y /\ At(t, x) => ~At(t, y)
  BY DEF At
<1>1. ~(ReminderAccepted(t) /\ proc[t].call = c)
  <2> SUFFICES ASSUME ReminderAccepted(t), proc[t].call = c PROVE FALSE
    OBVIOUS
  <2>1. proc'[t].at = "stamp" /\ proc'[t].call = c
    BY <1>a DEF Works, At
  <2> QED
    BY <1>m, <2>1 DEF Works, At
<1>2. CASE row'[c].reminded
  <2>w. At(t, "remind")' /\ proc'[t].call = c
    BY <1>m, <1>2 DEF Works
  <2>1. ASSUME NEW b, proc'[t] = [proc[t] EXCEPT !.raced = b] PROVE Works(t, "remind", c)
    BY <1>t, <2>1, <2>w DEF Handlers, Works, At
  <2>2. ASSUME NEW d \in Calls, TickReminds(t, d) PROVE ~row[c].reminded /\ At(t, "idle")
    <3>1. proc'[t].call = d
      BY <1>t, <2>2 DEF TickReminds, Starts
    <3> QED
      BY <2>2, <2>w, <3>1 DEF TickReminds, DueReminders, Listed
  <2>3. ASSUME NEW d \in Calls, NEW want \in OpenHours, ReplyArrives(t, d, want) PROVE FALSE
    BY <1>t, <2>3, <2>w DEF ReplyArrives, Starts, At
  <2>4. ASSUME NEW station \in {"offer", "stamp"}, proc'[t] = [proc[t] EXCEPT !.at = station] PROVE FALSE
    BY <1>t, <2>4, <2>w DEF Handlers, At
  <2>5. ASSUME NEW u, proc'[t] = [proc[t] EXCEPT !.at = "book", !.slot = u] PROVE FALSE
    BY <1>t, <2>5, <2>w DEF Handlers, At
  <2>6. ~(proc'[t] = Idle \/ proc'[t].at \in {"send", "close"})
    BY <2>w DEF Idle, At
  <2>7. Works(t, "remind", c) \/ (~row[c].reminded /\ At(t, "idle"))
    BY <2>1, <2>2, <2>3, <2>4, <2>5, <2>6, HandlerChanges, <1>t
  <2>8. Works(t, "remind", c) \/ At(t, "idle") => ~Works(t, "stamp", c)
    BY DEF Works, At
  <2> QED
    BY <1>1, <2>7, <2>8 DEF MayRemind
<1>3. CASE ~row'[c].reminded
  <2>1. ~row[c].reminded /\ ~\E p \in Procs : StampReminded(p) /\ proc[p].call = c
    BY <1>3, <1>r, <1>s
  <2>2. ~Works(t, "stamp", c)
    BY <1>3, <1>m, <1>t, <2>1, StampIsKept DEF Works
  <2> QED
    BY <1>1, <2>1, <2>2 DEF MayRemind
<1> QED
  BY <1>2, <1>3

LEMMA CountedStep == Shape /\ RemindersAreTicks /\ Counted /\ [Next]_vars => Counted'
<1> SUFFICES ASSUME Shape, RemindersAreTicks, Counted, [Next]_vars, NEW c \in Calls
             PROVE  (reminders[c] + Cardinality(MayRemind(c)) <= Cardinality(Ticks) * (1 + faults))'
  BY DEF Counted
<1> DEFINE n == Cardinality(Ticks)
           m == Cardinality(MayRemind(c))
<1>t. /\ proc \in [Procs -> Handlers] /\ faults \in Nat /\ reminders \in [Calls -> Nat] /\ WellTyped
  BY Constants DEF Shape, TypeOK, WellTyped
<1>n. /\ MayRemind(c) \subseteq Ticks /\ IsFiniteSet(MayRemind(c))
      /\ n \in Nat /\ m \in Nat /\ m <= n /\ m' \in Nat /\ m' <= n
  <2>1. MayRemind(c) \subseteq Ticks /\ MayRemind(c)' \subseteq Ticks
    BY DEF MayRemind
  <2> QED
    BY <2>1, PartOfTicks
<1>c. reminders[c] + m <= n * (1 + faults) /\ reminders[c] \in Nat
  BY <1>t DEF Counted
<1>f. faults' = faults \/ faults' = faults + 1
  BY <1>t, HistoryChanges
<1> HIDE DEF n, m
<1>1. CASE Fault
  <2>1. faults' = faults + 1 /\ reminders' = reminders
    BY <1>1 DEF Fault, history
  <2>2. n * (1 + (faults + 1)) = n * (1 + faults) + n
    BY <1>n, <1>t
  <2>3. reminders[c] + m' <= n * (1 + (faults + 1))
    BY <1>n, <1>c, <1>t, <2>2
  <2> QED
    BY <2>1, <2>3 DEF n, m
<1>2. CASE ~Fault
  <2>1. MayRemind(c)' \subseteq MayRemind(c)
    <3>1. MayRemind(c)' \subseteq Ticks
      BY DEF MayRemind
    <3> QED
      BY <1>2, <3>1, FewerMayRemind
  <2>2. m' <= m
    BY <1>n, <2>1, FS_Subset DEF m
  <2>3. n * (1 + faults) <= n * (1 + faults')
    <3>1. n * (1 + (faults + 1)) = n * (1 + faults) + n
      BY <1>n, <1>t
    <3>2. n * (1 + faults) \in Nat
      BY <1>n, <1>t
    <3> QED
      BY <1>n, <1>f, <3>1, <3>2
  <2>4. ASSUME NEW p \in Procs, ReminderAccepted(p), proc[p].call = c PROVE m' + 1 <= m
    <3>1. p \in Ticks /\ At(p, "remind")
      BY <2>4 DEF ReminderAccepted, RemindersAreTicks
    <3>2. p \in MayRemind(c)
      BY <2>4, <3>1 DEF MayRemind, Works, At
    <3>3. p \notin MayRemind(c)'
      BY <1>2, <2>4, <3>1, FewerMayRemind
    <3>4. MayRemind(c)' \subseteq MayRemind(c) \ {p}
      BY <2>1, <3>3
    <3>5. Cardinality(MayRemind(c) \ {p}) = m - 1 /\ IsFiniteSet(MayRemind(c) \ {p})
      BY <1>n, <3>2, FS_RemoveElement DEF m
    <3>6. Cardinality(MayRemind(c)') <= Cardinality(MayRemind(c) \ {p})
      BY <3>4, <3>5, FS_Subset
    <3> QED
      BY <1>n, <3>5, <3>6 DEF m
  <2>5. CASE reminders'[c] = reminders[c]
    <3>1. n * (1 + faults') \in Nat /\ n * (1 + faults) \in Nat
      BY <1>n, <1>t, <1>f
    <3>2. reminders[c] + m' <= n * (1 + faults')
      BY <1>n, <1>c, <2>2, <2>3, <3>1
    <3> QED
      BY <2>5, <3>2 DEF n, m
  <2>6. ASSUME NEW p \in Procs, ReminderAccepted(p), proc[p].call = c
        PROVE  (reminders[c] + Cardinality(MayRemind(c)) <= Cardinality(Ticks) * (1 + faults))'
    <3>1. reminders'[c] = reminders[c] + 1
      BY <1>t, <2>6 DEF ReminderAccepted
    <3>2. m' + 1 <= m
      BY <2>4, <2>6
    <3>3. n * (1 + faults') \in Nat /\ n * (1 + faults) \in Nat
      BY <1>n, <1>t, <1>f
    <3>4. reminders[c] + 1 + m' <= n * (1 + faults')
      <4>1. ASSUME NEW a \in Nat, NEW x \in Nat, NEW y \in Nat, NEW k \in Nat, NEW l \in Nat,
                   a + x <= k, y + 1 <= x, k <= l
            PROVE  a + 1 + y <= l
        BY <4>1
      <4> QED
        BY <1>n, <1>c, <2>3, <3>2, <3>3, <4>1
    <3> QED
      BY <3>1, <3>4 DEF n, m
  <2>8. ASSUME NEW p \in Procs, ReminderUnheard(p), proc[p].call = c
        PROVE  (reminders[c] + Cardinality(MayRemind(c)) <= Cardinality(Ticks) * (1 + faults))'
    <3>1. reminders'[c] = reminders[c] + 1 /\ faults' = faults + 1
      BY <1>t, <2>8 DEF ReminderUnheard
    <3>2. p \in Ticks
      BY <2>8 DEF ReminderUnheard, RemindersAreTicks
    <3>3. 1 <= n
      <4>1. Cardinality({p}) <= n /\ Cardinality({p}) = 1
        BY <3>2, PartOfTicks, FS_Singleton DEF n
      <4> QED
        BY <4>1
    <3>4. n * (1 + (faults + 1)) = n * (1 + faults) + n /\ n * (1 + faults) \in Nat
      BY <1>n, <1>t
    <3>5. reminders[c] + 1 + m' <= n * (1 + (faults + 1))
      BY <1>n, <1>c, <2>2, <3>3, <3>4
    <3> QED
      BY <3>1, <3>5 DEF n, m
  <2>7. \/ reminders'[c] = reminders[c]
        \/ \E p \in Procs : (ReminderAccepted(p) \/ ReminderUnheard(p)) /\ proc[p].call = c
    <3>1. UNCHANGED reminders \/ \E p \in Procs : ReminderAccepted(p) \/ ReminderUnheard(p)
      BY <1>t, HistoryChanges
    <3> QED
      BY <1>t, <3>1 DEF ReminderAccepted, ReminderUnheard
  <2> QED
    BY <2>5, <2>6, <2>7, <2>8
<1> QED
  BY <1>1, <1>2

(* However often WhatsApp refuses and whatever overlaps, the owner gets no *)
(* more reminders of one callback than there are ticks, and again for each *)
(* restart and each lost answer.                                           *)
THEOREM RemindersAreBounded == Spec => []RemindersBounded
<1>1. Init => RemindersAreTicks /\ Counted
  <2> SUFFICES ASSUME Init PROVE RemindersAreTicks /\ Counted
    OBVIOUS
  <2>1. RemindersAreTicks
    BY DEF Init, RemindersAreTicks, Idle, At
  <2>2. ASSUME NEW c \in Calls
        PROVE  reminders[c] + Cardinality(MayRemind(c)) <= Cardinality(Ticks) * (1 + faults)
    <3>1. reminders[c] = 0 /\ faults = 0
      BY DEF Init
    <3>2. MayRemind(c) \subseteq Ticks
      BY DEF MayRemind
    <3> QED
      BY <3>1, <3>2, PartOfTicks
  <2> QED
    BY <2>1, <2>2 DEF Counted
<1>2. Shape /\ Counted => RemindersBounded
  <2> SUFFICES ASSUME Shape, Counted, NEW c \in Calls
               PROVE  reminders[c] <= Cardinality(Ticks) * (1 + faults)
    BY DEF RemindersBounded
  <2>1. MayRemind(c) \subseteq Ticks
    BY DEF MayRemind
  <2>2. reminders[c] \in Nat /\ faults \in Nat
    BY Constants DEF Shape, TypeOK, WellTyped
  <2>3. reminders[c] + Cardinality(MayRemind(c)) <= Cardinality(Ticks) * (1 + faults)
    BY DEF Counted
  <2>4. Cardinality(MayRemind(c)) \in Nat /\ Cardinality(Ticks) \in Nat
    BY <2>1, PartOfTicks
  <2>5. Cardinality(Ticks) * (1 + faults) \in Nat
    BY <2>2, <2>4
  <2> QED
    BY <2>2, <2>3, <2>4, <2>5
<1> QED
  BY <1>1, <1>2, RemindersAreTicksStep, CountedStep, InitShape, ShapeStep, PTL DEF Spec
-----------------------------------------------------------------------------
(* The overlaps that `raced` excuses are the only ones there are to excuse.*)
(* As long as no reply is read while another is being answered:            *)
OneReply == \A p, q \in Procs : Replying(p) /\ Replying(q) => p = q

Unraced == raced = {} /\ \A p \in Procs : ~proc[p].raced

(* Nobody is promised the moment of another,                               *)
NoSharedMoment ==
  \A c, d \in Calls : c # d /\ row[c].slot # Null => row[c].slot # row[d].slot

(* a booked callback leaves the list only with its reason,                 *)
EveryClosingHasItsReason ==
  \A c \in Calls : row[c].reminded => row[c].slot \in told[c] \/ Expired(c) \/ interrupted

(* and a callback that is booked is not moved.                             *)
BookedOnce == [][\A c \in Calls : row[c].slot # Null => row'[c].slot = row[c].slot]_vars

LEMMA OnlyBookingRaces ==
  ASSUME Shape, [Next]_vars, NEW p \in Procs, proc'[p].raced
  PROVE  proc[p].raced \/ \E q \in Procs : Book(q) /\ Overtaken(q, p)
<1> DEFINE Goal == proc[p].raced \/ \E q \in Procs : Book(q) /\ Overtaken(q, p)
<1> SUFFICES Goal
  OBVIOUS
<1>t. proc \in [Procs -> Handlers]
  BY DEF Shape, TypeOK, WellTyped
<1>0. CASE UNCHANGED proc
  BY <1>0
<1>i. proc'[p] # Idle
  BY DEF Idle
<1>1. ASSUME NEW q \in Procs, NEW r, proc' = [proc EXCEPT ![q] = r], r.raced => proc[q].raced PROVE Goal
  BY <1>t, <1>1
<1>2. ASSUME NEW q \in Procs, NEW station, NEW c, NEW offer, NEW slot, Starts(q, station, c, offer, slot)
      PROVE  Goal
  <2> DEFINE r == [at |-> station, call |-> c, now |-> clock, offer |-> offer,
                   want |-> slot, slot |-> slot, raced |-> FALSE]
  <2>1. proc' = [proc EXCEPT ![q] = r] /\ ~r.raced
    BY <1>2 DEF Starts
  <2> QED
    BY <1>1, <2>1
<1>3. ASSUME NEW q \in Procs, NEW station, Goes(q, station) PROVE Goal
  <2>1. [proc[q] EXCEPT !.at = station].raced = proc[q].raced
    BY <1>t DEF Handlers
  <2>2. proc' = [proc EXCEPT ![q] = [proc[q] EXCEPT !.at = station]]
    BY <1>3 DEF Goes
  <2> QED
    BY <1>1, <2>1, <2>2
<1>4. ASSUME NEW q \in Procs, Done(q) PROVE Goal
  BY <1>1, <1>4 DEF Done, Idle
<1>5. ASSUME NEW q \in Procs, Continue(q) PROVE Goal
  <2>1. CASE OfferAccepted(q) \/ RecordOffer(q) \/ ReminderAccepted(q)
    BY <1>3, <2>1 DEF OfferAccepted, RecordOffer, ReminderAccepted
  <2>2. CASE \/ OfferRefused(q) \/ OfferUnheard(q) \/ CloseCaller(q)
             \/ ReminderRefused(q) \/ ReminderUnheard(q) \/ StampReminded(q)
    BY <1>4, <2>2 DEF OfferRefused, OfferUnheard, CloseCaller, ReminderRefused, ReminderUnheard,
                      StampReminded
  <2>3. CASE FindFree(q)
    <3>1. ASSUME NEW t, proc' = [proc EXCEPT ![q].at = "book", ![q].slot = t] PROVE Goal
      <4>1. [proc[q] EXCEPT !.at = "book", !.slot = t].raced = proc[q].raced
        BY <1>t DEF Handlers
      <4>2. proc' = [proc EXCEPT ![q] = [proc[q] EXCEPT !.at = "book", !.slot = t]]
        BY <3>1
      <4> QED
        BY <1>1, <4>1, <4>2
    <3> QED
      BY <1>4, <2>3, <3>1 DEF FindFree
  <2>4. CASE Book(q)
    <3>1. proc'[p] = IF p = q THEN Idle ELSE [proc[p] EXCEPT !.raced = @ \/ Overtaken(q, p)]
      BY <2>4 DEF Book
    <3>2. proc'[p] = [proc[p] EXCEPT !.raced = @ \/ Overtaken(q, p)]
      BY <1>i, <3>1
    <3>3. proc'[p].raced = (proc[p].raced \/ Overtaken(q, p))
      BY <1>t, <3>2 DEF Handlers
    <3> QED
      BY <2>4, <3>3
  <2> QED
    BY <1>5, <2>1, <2>2, <2>3, <2>4 DEF Continue
<1>6. ASSUME NEW q \in Desks, NEW c \in Calls, NEW want \in OpenHours, ReplyArrives(q, c, want) PROVE Goal
  BY <1>2, <1>6 DEF ReplyArrives, Procs
<1>7. ASSUME NEW t \in Ticks, TickStarts(t) PROVE Goal
  BY <1>0, <1>2, <1>7 DEF TickStarts, TickOffers, TickReminds, TickClosesCaller, Procs
<1>8. CASE TimePasses \/ ServiceStops \/ ServiceResumes \/ UNCHANGED vars
  BY <1>0, <1>8 DEF TimePasses, ServiceStops, ServiceResumes, vars
<1>9. CASE Fault
  <2>1. PICK lost : proc' = [q \in Procs |-> IF q \in lost THEN Idle ELSE proc[q]]
    BY <1>9 DEF Fault
  <2> QED
    BY <1>i, <2>1
<1> QED
  BY <1>5, <1>6, <1>7, <1>8, <1>9 DEF Next

LEMMA UnracedStep == Shape /\ Unraced /\ OneReply /\ [Next]_vars => Unraced'
<1> SUFFICES ASSUME Shape, Unraced, OneReply, [Next]_vars PROVE Unraced'
  OBVIOUS
<1>1. WellTyped
  BY DEF Shape, TypeOK
<1>2. raced' = {}
  <2>1. UNCHANGED raced \/ \E p \in Procs : Book(p)
    BY <1>1, HistoryChanges
  <2> QED
    BY <2>1 DEF Unraced, Book
<1>3. ASSUME NEW p \in Procs, proc'[p].raced PROVE FALSE
  <2>1. PICK q \in Procs : Book(q) /\ Overtaken(q, p)
    BY <1>3, OnlyBookingRaces DEF Unraced
  <2>2. p # q /\ Replying(p) /\ Replying(q)
    BY <2>1 DEF Overtaken, Book, Replying
  <2> QED
    BY <2>2 DEF OneReply
<1> QED
  BY <1>2, <1>3 DEF Unraced

(* If every reply is answered before the next is read, the owner is never  *)
(* promised to two people at once, every callback closes with its reason,  *)
(* and none is moved - whatever the ticks, restarts and refused messages.  *)
THEOREM PromisesWhenAlone ==
  Spec /\ []OneReply => [](NoSharedMoment /\ EveryClosingHasItsReason) /\ BookedOnce
<1>1. Init => Unraced /\ Sent /\ Knowing
  BY DEF Init, Blank, Idle, Unraced, Sent, Replying, Reminding, At, Knowing
<1>2. Unraced /\ SlotsAreExclusive => NoSharedMoment
  BY DEF Unraced, SlotsAreExclusive, NoSharedMoment
<1>3. Unraced /\ NoSilentClosing => EveryClosingHasItsReason
  BY DEF Unraced, NoSilentClosing, EveryClosingHasItsReason
<1>4. Shape /\ Sent /\ Knowing /\ Unraced /\ Unraced' /\ [Next]_vars
        => [\A c \in Calls : row[c].slot # Null => row'[c].slot = row[c].slot]_vars
  BY BookedAgainIsRaced DEF Unraced
<1> QED
  BY <1>1, <1>2, <1>3, <1>4, UnracedStep, SlotsExclusive, ClosingIsNotSilent, InitShape, ShapeStep,
     SentStep, KnowingStep, PTL DEF Spec, BookedOnce
=============================================================================
