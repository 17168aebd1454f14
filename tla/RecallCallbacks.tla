--------------------------- MODULE RecallCallbacks ---------------------------
(***************************************************************************)
(* Callbacks.  Somebody who rings outside business hours is sent a few     *)
(* moments at which the owner could ring back; his reply books one; and    *)
(* shortly before it the scheduler tick reminds the owner.                 *)
(*                                                                         *)
(* The tick's two sweeps and the route of incoming WhatsApp replies run    *)
(* beside each other with no lock: a reply reads the offer, reads the      *)
(* moments already taken, and then writes the one it found free.  As in    *)
(* RecallCallers a handler is a process: one action between two awaits,    *)
(* what it read kept in `proc`.                                            *)
(*                                                                         *)
(* One subscription.  Time is counted in slots of the offer's grid.  The   *)
(* throttle and the stamps of the caller's message are those RecallCallers *)
(* models in full; replies that choose nothing change nothing and are left *)
(* out, and so is the text of the acknowledgement.                         *)
(***************************************************************************)
EXTENDS Naturals, FiniteSets

CONSTANTS Calls, Persons, CallerOf,
          Desks,        \* replies being handled at once
          Ticks,        \* scheduler ticks running at once
          MaxTime,      \* bound: the clock stops here
          OpenHours,    \* moments within the business hours
          SlotLead,     \* no moment is offered sooner: 45 min
          Horizon,      \* nor later: 3 days
          Spacing,      \* between two moments of an offer: 2 h
          MaxOffered,   \* 3
          MinOffered,   \* 2
          Day,          \* an offer can be replied to this long: 24 h
          Lead,         \* the owner is reminded this early: 15 min
          Grace,        \* and not later than this: 20 min
          Week,         \* and rows older still are never listed
          Batch,        \* rows one reminder sweep takes: 25
          Looked,       \* newest offers a reply is looked up in: 20
          MaxFaults     \* bound: restarts, failed writes, lost answers, interruptions

Times == 0 .. MaxTime
Procs == Desks \cup Ticks
Null == 0

ASSUME CountsAreNat ==
  {MaxTime, SlotLead, Horizon, Spacing, MaxOffered, MinOffered, Day, Lead, Grace, Week,
   Batch, Looked, MaxFaults} \subseteq Nat
ASSUME SomeCallSomeTime == Calls # {} /\ MaxTime >= 1
ASSUME HoursAreTimes == OpenHours \subseteq Times \ {Null}
ASSUME CallersOfCalls == CallerOf \in [Calls -> Persons]
ASSUME DesksAreNoTicks == Desks \cap Ticks = {}
ASSUME TicksAreFinite == IsFiniteSet(Ticks)

VARIABLES clock,
          row,          \* call -> the callback columns of its CallEvent
          serving,      \* subscription active, with an owner and a WhatsApp connection
          proc,
          shown,        \* call -> moments its caller was sent
          asked,        \* call -> the moment its caller picked last
          raced,        \* calls booked while another reply was between reading and booking
          told,         \* call -> moments the owner was reminded of
          reminders,    \* call -> reminders WhatsApp accepted
          interrupted,  \* the service has been off at some time
          faults

vars == <<clock, row, serving, proc, shown, asked, raced, told, reminders,
          interrupted, faults>>
history == <<shown, asked, raced, told, reminders, interrupted>>

Stations == {"idle", "send", "offer", "close", "taken", "book", "remind", "stamp"}

Blank == [closed |-> FALSE, offered |-> {}, offeredAt |-> Null,
          slot |-> Null, reminded |-> FALSE]
Idle == [at |-> "idle", call |-> CHOOSE c \in Calls : TRUE, now |-> Null, offer |-> {},
         want |-> Null, slot |-> Null, raced |-> FALSE]

At(p, station) == proc[p].at = station
Goes(p, station) == proc' = [proc EXCEPT ![p].at = station]
Starts(p, station, c, offer, slot) ==
  proc' = [proc EXCEPT ![p] = [at |-> station, call |-> c, now |-> clock, offer |-> offer,
                               want |-> slot, slot |-> slot, raced |-> FALSE]]
Done(p) == proc' = [proc EXCEPT ![p] = Idle]

Init ==
  /\ clock = 1
  /\ row = [c \in Calls |-> Blank]
  /\ serving = TRUE
  /\ proc = [p \in Procs |-> Idle]
  /\ shown = [c \in Calls |-> {}]
  /\ asked = [c \in Calls |-> Null]
  /\ raced = {}
  /\ told = [c \in Calls |-> {}]
  /\ reminders = [c \in Calls |-> 0]
  /\ interrupted = FALSE
  /\ faults = 0

-----------------------------------------------------------------------------
(* Moments already promised, past ones left out.                           *)
Taken(now) == {row[c].slot : c \in Calls} \ 0 .. (now - 1)

(* offerableSlots, buildCallbackSlots: walk the grid and take each free    *)
(* moment that is far enough from the last one taken.                      *)
Offerable(now) ==
  LET free == {t \in OpenHours : t >= now + SlotLead /\ t <= now + Horizon} \ Taken(now)
      picked[t \in Times] ==
        LET before == {u \in 0 .. (t - 1) : picked[u]}
        IN /\ t \in free
           /\ \A u \in before : u + Spacing <= t
           /\ Cardinality(before) < MaxOffered
  IN {t \in free : picked[t]}

(* sweepDueCallerNotifications and notifyCaller up to the send, for a call *)
(* that gets an offer: the business is closed and there are enough moments.*)
TickOffers(t, c) ==
  LET offer == Offerable(clock)
  IN /\ At(t, "idle")
     /\ ~row[c].closed
     /\ serving
     /\ clock \notin OpenHours /\ Cardinality(offer) >= MinOffered
     /\ Starts(t, "send", c, offer, Null)
     /\ UNCHANGED <<clock, row, serving, history, faults>>

(* Every other end of it: the plain message, a caller who is blocked or    *)
(* throttled, a client who is not active.  RecallCallers tells them apart. *)
TickClosesCaller(t, c) ==
  /\ At(t, "idle")
  /\ ~row[c].closed
  /\ row' = [row EXCEPT ![c].closed = TRUE]
  /\ UNCHANGED <<clock, serving, proc, history, faults>>

OfferAccepted(p) ==
  /\ At(p, "send")
  /\ shown' = [shown EXCEPT ![proc[p].call] = @ \cup proc[p].offer]
  /\ Goes(p, "offer")
  /\ UNCHANGED <<clock, row, serving, asked, raced, told, reminders, interrupted, faults>>

(* Slip: the offer is stored although nobody has received it.              *)
OfferRefusedStored(p) ==
  /\ At(p, "send")
  /\ Goes(p, "offer")
  /\ UNCHANGED <<clock, row, serving, history, faults>>

(* Tried again by the next tick, or closed after the last attempt.         *)
OfferRefused(p) ==
  /\ At(p, "send")
  /\ \E last \in BOOLEAN : row' = [row EXCEPT ![proc[p].call].closed = @ \/ last]
  /\ Done(p)
  /\ UNCHANGED <<clock, serving, history, faults>>

(* A lost answer counts as a refusal: the caller sees an offer nobody      *)
(* stores.                                                                 *)
OfferUnheard(p) ==
  /\ At(p, "send")
  /\ faults < MaxFaults
  /\ faults' = faults + 1
  /\ shown' = [shown EXCEPT ![proc[p].call] = @ \cup proc[p].offer]
  /\ \E last \in BOOLEAN : row' = [row EXCEPT ![proc[p].call].closed = @ \/ last]
  /\ Done(p)
  /\ UNCHANGED <<clock, serving, asked, raced, told, reminders, interrupted>>

(* Slip: the offer is stored without its date.                             *)
RecordOfferUndated(p) ==
  /\ At(p, "offer")
  /\ row' = [row EXCEPT ![proc[p].call].offered = proc[p].offer]
  /\ Goes(p, "close")
  /\ UNCHANGED <<clock, serving, history, faults>>

RecordOffer(p) ==
  /\ At(p, "offer")
  /\ row' = [row EXCEPT ![proc[p].call].offered = proc[p].offer,
                        ![proc[p].call].offeredAt = proc[p].now]
  /\ Goes(p, "close")
  /\ UNCHANGED <<clock, serving, history, faults>>

(* resolveCaller                                                           *)
CloseCaller(p) ==
  /\ At(p, "close")
  /\ row' = [row EXCEPT ![proc[p].call].closed = TRUE]
  /\ Done(p)
  /\ UNCHANGED <<clock, serving, history, faults>>

-----------------------------------------------------------------------------
(* resolveCallbackReply.  Of the newest offers within the window, to       *)
(* whomever they went, the newest to this number; a call whose moment is   *)
(* chosen takes no other.                                                  *)
OpenOffers == {c \in Calls : row[c].offeredAt # Null /\ clock <= row[c].offeredAt + Day}

Candidates ==
  {c \in OpenOffers :
     Cardinality({d \in OpenOffers : row[d].offeredAt > row[c].offeredAt}) < Looked}

Newest(c) ==
  \A d \in Candidates : CallerOf[d] = CallerOf[c] => row[d].offeredAt <= row[c].offeredAt

ReplyArrives(p, c, want) ==
  /\ At(p, "idle")
  /\ serving
  /\ c \in Candidates /\ Newest(c)
  /\ row[c].slot = Null
  /\ want \in row[c].offered
  /\ Starts(p, "taken", c, row[c].offered, want)
  /\ UNCHANGED <<clock, row, serving, history, faults>>

Usable(p, t) == t > proc[p].now /\ t \notin Taken(proc[p].now)

(* Slip: the moments after the one asked for are not looked up.            *)
FreeSlotsAnyLater(p) ==
  LET later == {t \in proc[p].offer : t > proc[p].want}
  IN IF Usable(p, proc[p].want) THEN {proc[p].want}
     ELSE {t \in later : \A u \in later : t <= u}

(* firstFreeSlot: the moment asked for or the next of the offer that is    *)
(* free, as a set of at most one.                                          *)
FreeSlots(p) ==
  LET later == {t \in proc[p].offer : t > proc[p].want /\ Usable(p, t)}
  IN IF Usable(p, proc[p].want) THEN {proc[p].want}
     ELSE {t \in later : \A u \in later : t <= u}

FindFree(p) ==
  /\ At(p, "taken")
  /\ IF FreeSlots(p) = {}
       THEN Done(p)
       ELSE \E t \in FreeSlots(p) :
              proc' = [proc EXCEPT ![p].at = "book", ![p].slot = t]
  /\ UNCHANGED <<clock, row, serving, history, faults>>

(* Another reply that has read and not yet booked: its reading is stale.   *)
Overtaken(p, q) ==
  /\ q # p
  /\ \/ At(q, "book")
     \/ At(q, "taken") /\ proc[q].call = proc[p].call

(* The update names only the row's id.                                     *)
Book(p) ==
  LET c == proc[p].call
  IN /\ At(p, "book")
     /\ row' = [row EXCEPT ![c].slot = proc[p].slot]
     /\ asked' = [asked EXCEPT ![c] = proc[p].want]
     /\ raced' = IF proc[p].raced THEN raced \cup {c} ELSE raced
     /\ proc' = [q \in Procs |->
                   IF q = p THEN Idle
                   ELSE [proc[q] EXCEPT !.raced = @ \/ Overtaken(p, q)]]
     /\ UNCHANGED <<clock, serving, shown, told, reminders, interrupted, faults>>

-----------------------------------------------------------------------------
(* sweepDueCallbackReminders                                               *)
Listed(c) ==
  /\ ~row[c].reminded
  /\ row[c].slot # Null
  /\ row[c].slot <= clock + Lead
  /\ row[c].slot + Grace + Week >= clock

DueReminders ==
  {c \in Calls : /\ Listed(c)
                 /\ Cardinality({d \in Calls : Listed(d) /\ row[d].slot < row[c].slot}) < Batch}

Expired(c) == row[c].slot + Grace < clock

(* Slip: only rows whose moment has not passed are looked at.              *)
TickRemindsInTime(t, c) ==
  /\ At(t, "idle")
  /\ c \in DueReminders /\ ~Expired(c)
  /\ Starts(t, IF serving THEN "remind" ELSE "stamp", c, {}, row[c].slot)
  /\ UNCHANGED <<clock, row, serving, history, faults>>

(* A row that is too late, or of a client who is paused or cannot be       *)
(* reached, is stamped without a message.                                  *)
TickReminds(t, c) ==
  /\ At(t, "idle")
  /\ c \in DueReminders
  /\ Starts(t, IF serving /\ ~Expired(c) THEN "remind" ELSE "stamp", c, {}, row[c].slot)
  /\ UNCHANGED <<clock, row, serving, history, faults>>

ReminderAccepted(p) ==
  LET c == proc[p].call
  IN /\ At(p, "remind")
     /\ told' = [told EXCEPT ![c] = @ \cup {proc[p].slot}]
     /\ reminders' = [reminders EXCEPT ![c] = @ + 1]
     /\ Goes(p, "stamp")
     /\ UNCHANGED <<clock, row, serving, shown, asked, raced, interrupted, faults>>

(* Slip: the sender's answer is not looked at.                             *)
ReminderRefusedUnseen(p) ==
  /\ At(p, "remind")
  /\ Goes(p, "stamp")
  /\ UNCHANGED <<clock, row, serving, history, faults>>

(* Not counted: the next tick tries again until the moment has passed.     *)
ReminderRefused(p) ==
  /\ At(p, "remind")
  /\ Done(p)
  /\ UNCHANGED <<clock, row, serving, history, faults>>

(* The owner is told and the answer is lost: taken for a refusal as well.  *)
ReminderUnheard(p) ==
  LET c == proc[p].call
  IN /\ At(p, "remind")
     /\ faults < MaxFaults
     /\ faults' = faults + 1
     /\ told' = [told EXCEPT ![c] = @ \cup {proc[p].slot}]
     /\ reminders' = [reminders EXCEPT ![c] = @ + 1]
     /\ Done(p)
     /\ UNCHANGED <<clock, row, serving, shown, asked, raced, interrupted>>

(* Slip: a reminder that went out is not stamped.                          *)
StampRemindedExpiredOnly(p) ==
  /\ At(p, "stamp")
  /\ row' = [row EXCEPT ![proc[p].call].reminded =
                           @ \/ row[proc[p].call].slot + Grace < proc[p].now]
  /\ Done(p)
  /\ UNCHANGED <<clock, serving, history, faults>>

StampReminded(p) ==
  /\ At(p, "stamp")
  /\ row' = [row EXCEPT ![proc[p].call].reminded = TRUE]
  /\ Done(p)
  /\ UNCHANGED <<clock, serving, history, faults>>

-----------------------------------------------------------------------------
(* No handler runs so long that the clock moves on twice.                  *)
TimePasses ==
  /\ clock < MaxTime
  /\ \A p \in Procs : At(p, "idle") \/ proc[p].now = clock
  /\ clock' = clock + 1
  /\ UNCHANGED <<row, serving, proc, history, faults>>

(* The client pauses, or his Meta connection goes; and back.               *)
ServiceStops ==
  /\ serving
  /\ faults < MaxFaults
  /\ faults' = faults + 1
  /\ serving' = FALSE
  /\ interrupted' = TRUE
  /\ UNCHANGED <<clock, row, proc, shown, asked, raced, told, reminders>>

ServiceResumes ==
  /\ ~serving
  /\ serving' = TRUE
  /\ UNCHANGED <<clock, row, proc, history, faults>>

(* One handler dies of a failed query, or all of them with the container.  *)
Fault ==
  /\ faults < MaxFaults
  /\ faults' = faults + 1
  /\ \E lost \in {Procs} \cup {{p} : p \in Procs} :
       proc' = [p \in Procs |-> IF p \in lost THEN Idle ELSE proc[p]]
  /\ UNCHANGED <<clock, row, serving, history>>

Continue(p) ==
  \/ OfferAccepted(p) \/ OfferRefused(p) \/ OfferUnheard(p) \/ RecordOffer(p) \/ CloseCaller(p)
  \/ FindFree(p) \/ Book(p)
  \/ ReminderAccepted(p) \/ ReminderRefused(p) \/ ReminderUnheard(p) \/ StampReminded(p)

TickStarts(t) == \E c \in Calls : TickOffers(t, c) \/ TickClosesCaller(t, c) \/ TickReminds(t, c)

Next ==
  \/ \E p \in Desks, c \in Calls, want \in OpenHours : ReplyArrives(p, c, want)
  \/ \E t \in Ticks : TickStarts(t)
  \/ \E p \in Procs : Continue(p)
  \/ TimePasses \/ ServiceStops \/ ServiceResumes \/ Fault

(* Time passes, a started handler runs on, and some tick keeps coming back *)
(* to each row its reminder sweep lists.                                   *)
Fairness ==
  /\ WF_vars(TimePasses)
  /\ \A p \in Procs : WF_vars(Continue(p))
  /\ \A c \in Calls : SF_vars(\E t \in Ticks : TickReminds(t, c))

Spec == Init /\ [][Next]_vars
FairSpec == Spec /\ Fairness

-----------------------------------------------------------------------------
Rows == [closed : BOOLEAN, offered : SUBSET OpenHours, offeredAt : Times,
         slot : Times, reminded : BOOLEAN]
Handlers == [at : Stations, call : Calls, now : Times, offer : SUBSET OpenHours,
             want : Times, slot : Times, raced : BOOLEAN]

WellTyped ==
  /\ clock \in Times
  /\ row \in [Calls -> Rows]
  /\ serving \in BOOLEAN
  /\ proc \in [Procs -> Handlers]
  /\ shown \in [Calls -> SUBSET OpenHours]
  /\ asked \in [Calls -> Times]
  /\ raced \subseteq Calls
  /\ told \in [Calls -> SUBSET Times]
  /\ reminders \in [Calls -> Nat]
  /\ interrupted \in BOOLEAN
  /\ faults \in 0 .. MaxFaults

OffersAreDated == \A c \in Calls : row[c].offered # {} => row[c].offeredAt # Null

(* Rows, handlers and histories are well formed, and an offer that could be*)
(* replied to has the date its validity is counted from.                   *)
TypeOK == WellTyped /\ OffersAreDated

(* Nobody is put down for a moment he has not been sent, or for one before *)
(* the moment he picked - however many offers about his call crossed with  *)
(* restarts, refused messages and second replies.                          *)
BookedAsShown ==
  \A c \in Calls :
    row[c].slot # Null => row[c].slot \in shown[c] /\ row[c].slot >= asked[c]

(* The owner is not promised to two people at once, unless their replies   *)
(* overlapped.                                                             *)
SlotsAreExclusive ==
  \A c, d \in Calls :
    c # d /\ row[c].slot # Null /\ row[c].slot = row[d].slot => {c, d} \cap raced # {}

(* A callback leaves the reminder list only with the owner told of the     *)
(* moment it is booked for, too late for telling, or because the service   *)
(* was off - unless a second reply booked it again.                        *)
NoSilentClosing ==
  \A c \in Calls \ raced :
    row[c].reminded => row[c].slot \in told[c] \/ Expired(c) \/ interrupted

(* The reminder has no count of attempts.  What bounds the messages the    *)
(* owner gets about one callback is that no tick takes up a stamped row:   *)
(* one for each tick at work, and again for each restart and for each      *)
(* acceptance whose answer was lost, which leaves the row unstamped.       *)
RemindersBounded ==
  \A c \in Calls : reminders[c] <= Cardinality(Ticks) * (1 + faults)

(* Every booked callback leaves the reminder list, though reminders fail,  *)
(* the oldest rows come first and the batch is limited.                    *)
CallbackCloses == \A c \in Calls : row[c].slot # Null ~> row[c].reminded
=============================================================================
