--------------------------- MODULE RecallCallers ---------------------------
(***************************************************************************)
(* The message owed to the person who rang: the tick's sweep decides, once *)
(* per call and ninety seconds late, whether to write to him, over which   *)
(* channel, and what evidence of the legal notice is kept.  Beside it the  *)
(* person may ask not to be written to, and the client may block and       *)
(* unblock his number.                                                     *)
(*                                                                         *)
(* All calls here are from one number to one client, the scope of the      *)
(* throttle, the blocklist and the contact.  Wording, opening hours and    *)
(* the offered callback slots are left out; which template was approved is *)
(* a free choice at each send.                                             *)
(***************************************************************************)
EXTENDS Naturals, FiniteSets

CONSTANTS CallCount,   \* calls 1 .. CallCount arrive in that order
          Ticks,       \* scheduler ticks running at once
          Desks,       \* the client's blocklist requests running at once
          Sender,      \* how Meta writes the caller's number in his replies
          MaxTries,    \* MAX_NOTIFY_ATTEMPTS: 3 in the code
          Batch,       \* rows one sweep takes: 25
          MaxFaults    \* bound: restarts and failed database writes

Calls == 1 .. CallCount
NoCall == 0

ASSUME CountsAreNat == {CallCount, MaxTries, Batch, MaxFaults} \subseteq Nat
ASSUME SenderForms == Sender \in {"plus", "national", "wa_id"}
ASSUME TicksAreFinite == IsFiniteSet(Ticks)

VARIABLES row,       \* call -> the caller's half of its CallEvent
          block,     \* the number's RecallBlockedNumber row
          basis,     \* the call the contact's legalBasis points at
          active,    \* the subscription's status is active
          linked,    \* the client's WhatsApp connection is active
          today,     \* call -> messages of the last 24 hours we know of
          ever,      \* call -> messages the person got since it came in
          unheard,   \* call -> those of them whose acceptance never reached us
          noticed,   \* call -> one of them carried the legal notice
          excused,   \* call -> messages already out or under way when the
                     \*         person asked for them to stop
          asked,     \* the person has asked
          proc, desk, faults

vars == <<row, block, basis, active, linked, today, ever, unheard, noticed, excused,
          asked, proc, desk, faults>>
service == <<active, linked>>
ghosts == <<today, ever, unheard, noticed>>
person == <<excused, asked>>

Channels == {"undecided", "whatsapp", "sms", "unreachable", "blocked", "throttled"}
Stations == {"idle", "read", "block", "throttle", "send", "sms", "evidence", "record", "refuse"}

(* stage: "none", "open" with a finished recording, "due" ninety seconds   *)
(* later, "blocked" if turned away at the door.  sent is notifiedCallerAt: *)
(* null, or within or past the throttle window.  notice is                 *)
(* legalNoticeSentAt, tries is callerNotifyAttempts.                       *)
Absent == [stage |-> "none", channel |-> "undecided", sent |-> "no",
           notice |-> FALSE, tries |-> 0]
Idle == [at |-> "idle", call |-> NoCall, tries |-> 0, linked |-> FALSE,
         notice |-> FALSE, verdict |-> "undecided"]

At(t, station) == proc[t].at = station
Goes(t, station) == proc' = [proc EXCEPT ![t].at = station]
Done(t) == proc' = [proc EXCEPT ![t] = Idle]
Refuses(t, verdict) ==
  proc' = [proc EXCEPT ![t].at = "refuse", ![t].verdict = verdict]

(* normaliseE164: national numbers get their prefix, anything longer is    *)
(* refused unless it starts with a plus sign.                              *)
Normalises(form) == form \in {"plus", "national"}

Init ==
  /\ row = [c \in Calls |-> Absent]
  /\ block = "none"
  /\ basis = NoCall
  /\ active = FALSE
  /\ linked = TRUE
  /\ today = [c \in Calls |-> 0]
  /\ ever = [c \in Calls |-> 0]
  /\ unheard = [c \in Calls |-> 0]
  /\ noticed = [c \in Calls |-> FALSE]
  /\ excused = [c \in Calls |-> 0]
  /\ asked = FALSE
  /\ proc = [t \in Ticks |-> Idle]
  /\ desk = [d \in Desks |-> "idle"]
  /\ faults = 0

-----------------------------------------------------------------------------
(* The call, up to its finished recording.  A suppressed number is turned  *)
(* away before anything is recorded, unless that query fails.              *)
CallIsFinished(c) ==
  /\ row[c].stage = "none"
  /\ \A d \in 1 .. (c - 1) : row[d].stage # "none"
  /\ row' = [row EXCEPT ![c].stage = IF block = "none" THEN "open" ELSE "blocked"]
  /\ UNCHANGED <<block, basis, service, ghosts, person, proc, desk, faults>>

CallSlipsPast(c) ==
  /\ row[c].stage = "none"
  /\ \A d \in 1 .. (c - 1) : row[d].stage # "none"
  /\ block # "none"
  /\ faults < MaxFaults
  /\ faults' = faults + 1
  /\ row' = [row EXCEPT ![c].stage = "open"]
  /\ UNCHANGED <<block, basis, service, ghosts, person, proc, desk>>

CallIsDue(c) ==
  /\ row[c].stage = "open"
  /\ row' = [row EXCEPT ![c].stage = "due"]
  /\ UNCHANGED <<block, basis, service, ghosts, person, proc, desk, faults>>

(* Twenty-four hours after a call's message.                               *)
DayPasses(c) ==
  /\ today[c] > 0
  /\ \A t \in Ticks : At(t, "idle")
  /\ today' = [today EXCEPT ![c] = 0]
  /\ row' = [row EXCEPT ![c].sent = IF @ = "no" THEN "no" ELSE "old"]
  /\ UNCHANGED <<block, basis, service, ever, unheard, noticed, person, proc, desk,
                 faults>>

ServiceChanges ==
  /\ \/ ~active /\ active' = TRUE /\ UNCHANGED linked
     \/ linked' = ~linked /\ UNCHANGED active
  /\ UNCHANGED <<row, block, basis, ghosts, person, proc, desk, faults>>

-----------------------------------------------------------------------------
(* The reply route hears a person only through an active connection of a   *)
(* client whose subscription is active.                                    *)
ReplyIsRouted == active /\ linked

(* Its request to stop.  The read in applyOptOut decides only the date and *)
(* the confirmation: the upsert leaves the row sealed either way.          *)
UnderWay(c) == Cardinality({t \in Ticks : /\ proc[t].at \in {"throttle", "send", "sms"}
                                          /\ proc[t].call = c})

AsksToStop ==
  /\ ReplyIsRouted
  /\ block' = IF Normalises(Sender) THEN "opt_out" ELSE block
  /\ asked' = TRUE
  /\ excused' = IF asked THEN excused ELSE [c \in Calls |-> ever[c] + UnderWay(c)]
  /\ UNCHANGED <<row, basis, service, ghosts, proc, desk, faults>>

(* blockNumber; the upsert leaves an existing row's opt-out alone.         *)
BlockNumber ==
  /\ block' = IF block = "none" THEN "owner" ELSE block
  /\ UNCHANGED <<row, basis, service, ghosts, person, proc, desk, faults>>

(* unblockNumber: a check, then a conditional delete.                      *)
BeginUnblock(d) ==
  /\ desk[d] = "idle"
  /\ block = "owner"
  /\ desk' = [desk EXCEPT ![d] = "delete"]
  /\ UNCHANGED <<row, block, basis, service, ghosts, person, proc, faults>>

(* Slip: the delete trusts the check.                                      *)
FinishUnblockUnchecked(d) ==
  /\ desk[d] = "delete"
  /\ block' = "none"
  /\ desk' = [desk EXCEPT ![d] = "idle"]
  /\ UNCHANGED <<row, basis, service, ghosts, person, proc, faults>>

FinishUnblock(d) ==
  /\ desk[d] = "delete"
  /\ block' = IF block = "owner" THEN "none" ELSE block
  /\ desk' = [desk EXCEPT ![d] = "idle"]
  /\ UNCHANGED <<row, basis, service, ghosts, person, proc, faults>>

-----------------------------------------------------------------------------
(* The sweep lists the oldest undecided calls; notifyCaller reads each     *)
(* when its turn comes, and looks again at the date but not the channel.   *)
Listed == {c \in Calls : /\ row[c].stage = "due"
                         /\ row[c].channel = "undecided"
                         /\ row[c].sent = "no"
                         /\ row[c].tries < MaxTries}
ToNotify == {c \in Listed : Cardinality({d \in Listed : d < c}) < Batch}

TickPicks(t, c) ==
  /\ At(t, "idle")
  /\ c \in ToNotify
  /\ proc' = [proc EXCEPT ![t] = [Idle EXCEPT !.at = "read", !.call = c]]
  /\ UNCHANGED <<row, block, basis, service, ghosts, person, desk, faults>>

ReadForCaller(t) ==
  LET r == row[proc[t].call]
  IN /\ At(t, "read")
     /\ IF r.sent # "no"
          THEN Done(t)
          ELSE proc' = [proc EXCEPT ![t].at = IF active THEN "block" ELSE "refuse",
                                    ![t].verdict = IF active THEN "undecided"
                                                             ELSE "unreachable",
                                    ![t].tries = r.tries, ![t].linked = linked]
     /\ UNCHANGED <<row, block, basis, service, ghosts, person, desk, faults>>

(* Slip: only the client's own blocks are looked at.                       *)
CheckBlockOfOwner(t) ==
  /\ At(t, "block")
  /\ IF block = "owner" THEN Refuses(t, "blocked") ELSE Goes(t, "throttle")
  /\ UNCHANGED <<row, block, basis, service, ghosts, person, desk, faults>>

CheckBlock(t) ==
  /\ At(t, "block")
  /\ IF block # "none" THEN Refuses(t, "blocked") ELSE Goes(t, "throttle")
  /\ UNCHANGED <<row, block, basis, service, ghosts, person, desk, faults>>

(* Slip: the throttle looks at this call alone.                            *)
ThrottledBySelf(c) == row[c].sent = "recent"
Throttled(c) == \E d \in Calls \ {c} : row[d].sent = "recent"

CheckThrottle(t) ==
  /\ At(t, "throttle")
  /\ IF Throttled(proc[t].call)
       THEN Refuses(t, "throttled")
       ELSE Goes(t, IF proc[t].linked THEN "send" ELSE "sms")
  /\ UNCHANGED <<row, block, basis, service, ghosts, person, desk, faults>>

(* The message is accepted.  The notice is claimed for it only if it       *)
(* carried one.                                                            *)
Accepted(t, channel, carries, claims) ==
  LET c == proc[t].call
  IN /\ today' = [today EXCEPT ![c] = @ + 1]
     /\ ever' = [ever EXCEPT ![c] = @ + 1]
     /\ noticed' = [noticed EXCEPT ![c] = @ \/ carries]
     /\ proc' = [proc EXCEPT ![t].at = IF claims THEN "evidence" ELSE "record",
                             ![t].notice = claims, ![t].verdict = channel]
     /\ UNCHANGED <<row, block, basis, service, unheard, person, desk, faults>>

(* Slip: every message is taken to carry the notice.                       *)
WhatsAppAcceptedAlwaysClaimed(t) ==
  /\ At(t, "send")
  /\ \E carries \in BOOLEAN : Accepted(t, "whatsapp", carries, TRUE)

(* With no approved version known the notice may travel unclaimed.         *)
WhatsAppAccepted(t) ==
  /\ At(t, "send")
  /\ \E carries, claims \in BOOLEAN :
       (claims => carries) /\ Accepted(t, "whatsapp", carries, claims)

(* Error 131026: this number has no WhatsApp.                              *)
WhatsAppUndeliverable(t) ==
  /\ At(t, "send")
  /\ Goes(t, "sms")
  /\ UNCHANGED <<row, block, basis, service, ghosts, person, desk, faults>>

SmsAccepted(t) == At(t, "sms") /\ Accepted(t, "sms", TRUE, TRUE)

(* Slip: the last attempt is one attempt late.                             *)
FinishCallerFailureTooLate(t, permanent) ==
  LET c == proc[t].call
      attempts == proc[t].tries + 1
  IN /\ row' = [row EXCEPT ![c].tries = attempts,
                           ![c].channel = IF permanent \/ attempts > MaxTries
                                            THEN "unreachable" ELSE @]
     /\ Done(t)
     /\ UNCHANGED <<block, basis, service, person, desk, faults>>

(* finishCallerFailure counts from the attempts that were read.            *)
FinishCallerFailure(t, permanent) ==
  LET c == proc[t].call
      attempts == proc[t].tries + 1
  IN /\ row' = [row EXCEPT ![c].tries = attempts,
                           ![c].channel = IF permanent \/ attempts >= MaxTries
                                            THEN "unreachable" ELSE @]
     /\ Done(t)
     /\ UNCHANGED <<block, basis, service, person, desk, faults>>

WhatsAppFails(t) ==
  /\ At(t, "send")
  /\ \E permanent \in BOOLEAN : FinishCallerFailure(t, permanent)
  /\ UNCHANGED ghosts
SmsFails(t) == At(t, "sms") /\ FinishCallerFailure(t, FALSE) /\ UNCHANGED ghosts

(* The message goes out and the answer is lost: the request helper returns *)
(* a failure without status, which counts as one worth trying again.       *)
Unheard(c, carries) ==
  /\ ever' = [ever EXCEPT ![c] = @ + 1]
  /\ unheard' = [unheard EXCEPT ![c] = @ + 1]
  /\ noticed' = [noticed EXCEPT ![c] = @ \/ carries]
  /\ UNCHANGED today

WhatsAppUnheard(t) ==
  /\ At(t, "send")
  /\ \E carries \in BOOLEAN : Unheard(proc[t].call, carries)
  /\ FinishCallerFailure(t, FALSE)
SmsUnheard(t) ==
  /\ At(t, "sms")
  /\ Unheard(proc[t].call, TRUE)
  /\ FinishCallerFailure(t, FALSE)

(* Slip: the latest evidence replaces the first.                           *)
RecordLegalBasisAnew(t) ==
  /\ At(t, "evidence")
  /\ basis' = proc[t].call
  /\ Goes(t, "record")
  /\ UNCHANGED <<row, block, service, ghosts, person, desk, faults>>

(* resolveCaller writes the contact's evidence first, if there is none ... *)
RecordLegalBasis(t) ==
  /\ At(t, "evidence")
  /\ basis' = IF basis = NoCall THEN proc[t].call ELSE basis
  /\ Goes(t, "record")
  /\ UNCHANGED <<row, block, service, ghosts, person, desk, faults>>

(* ... swallowing a failure, because the message is out ...                *)
LegalBasisFails(t) ==
  /\ At(t, "evidence")
  /\ faults < MaxFaults
  /\ faults' = faults + 1
  /\ Goes(t, "record")
  /\ UNCHANGED <<row, block, basis, service, ghosts, person, desk>>

(* ... and then the call's own row.                                        *)
(* Slip: the channel is written without the date.                          *)
ResolveSentUndated(t) ==
  /\ At(t, "record")
  /\ row' = [row EXCEPT ![proc[t].call].channel = proc[t].verdict]
  /\ Done(t)
  /\ UNCHANGED <<block, basis, service, ghosts, person, desk, faults>>

ResolveSent(t) ==
  /\ At(t, "record")
  /\ row' = [row EXCEPT ![proc[t].call].channel = proc[t].verdict,
                        ![proc[t].call].sent = "recent",
                        ![proc[t].call].notice = @ \/ proc[t].notice]
  /\ Done(t)
  /\ UNCHANGED <<block, basis, service, ghosts, person, desk, faults>>

ResolveRefused(t) ==
  /\ At(t, "refuse")
  /\ row' = [row EXCEPT ![proc[t].call].channel = proc[t].verdict]
  /\ Done(t)
  /\ UNCHANGED <<block, basis, service, ghosts, person, desk, faults>>

(* A handler dies of a failed query, or all of them with the container.    *)
Fault ==
  /\ faults < MaxFaults
  /\ faults' = faults + 1
  /\ \E lost \in {Ticks} \cup {{t} : t \in Ticks} :
       proc' = [t \in Ticks |-> IF t \in lost THEN Idle ELSE proc[t]]
  /\ desk' = [d \in Desks |-> "idle"]
  /\ UNCHANGED <<row, block, basis, service, ghosts, person>>

-----------------------------------------------------------------------------
Continue(t) ==
  \/ ReadForCaller(t) \/ CheckBlock(t) \/ CheckThrottle(t)
  \/ WhatsAppAccepted(t) \/ WhatsAppUndeliverable(t) \/ WhatsAppFails(t)
  \/ SmsAccepted(t) \/ SmsFails(t) \/ WhatsAppUnheard(t) \/ SmsUnheard(t)
  \/ RecordLegalBasis(t) \/ LegalBasisFails(t) \/ ResolveSent(t) \/ ResolveRefused(t)

Next ==
  \/ \E c \in Calls : CallIsFinished(c) \/ CallSlipsPast(c) \/ CallIsDue(c) \/ DayPasses(c)
  \/ ServiceChanges \/ AsksToStop \/ BlockNumber
  \/ \E d \in Desks : BeginUnblock(d) \/ FinishUnblock(d)
  \/ \E t \in Ticks, c \in Calls : TickPicks(t, c)
  \/ \E t \in Ticks : Continue(t)
  \/ Fault

(* A handler runs on, and ticks keep coming back to each row they list.    *)
Fairness ==
  /\ \A t \in Ticks : WF_vars(Continue(t))
  /\ \A c \in Calls : SF_vars(\E t \in Ticks : TickPicks(t, c))

Spec == Init /\ [][Next]_vars
FairSpec == Spec /\ Fairness

-----------------------------------------------------------------------------
Rows == [stage : {"none", "open", "due", "blocked"}, channel : Channels,
         sent : {"no", "recent", "old"}, notice : BOOLEAN, tries : Nat]
Handlers == [at : Stations, call : Calls \cup {NoCall}, tries : Nat,
             linked : BOOLEAN, notice : BOOLEAN, verdict : Channels]

WellTyped ==
  /\ row \in [Calls -> Rows]
  /\ block \in {"none", "owner", "opt_out"}
  /\ basis \in Calls \cup {NoCall}
  /\ active \in BOOLEAN /\ linked \in BOOLEAN /\ asked \in BOOLEAN
  /\ today \in [Calls -> Nat]
  /\ ever \in [Calls -> Nat]
  /\ unheard \in [Calls -> Nat]
  /\ noticed \in [Calls -> BOOLEAN]
  /\ excused \in [Calls -> Nat]
  /\ proc \in [Ticks -> Handlers]
  /\ desk \in [Desks -> {"idle", "delete"}]
  /\ faults \in 0 .. MaxFaults

(* A call said to be messaged has the date the throttle looks for.         *)
MessagedIsDated ==
  \A c \in Calls : row[c].channel \in {"whatsapp", "sms"} => row[c].sent # "no"

(* Rows and handlers are well formed, and a messaged call has its date.    *)
TypeOK == WellTyped /\ MessagedIsDated

(* A person who asked not to be written to gets nothing more, about this   *)
(* call or any later one, than what was already on its way: whatever the   *)
(* client blocks or unblocks, and whatever is retried after a restart.     *)
PersonLeftAlone == asked => \A c \in Calls : ever[c] <= excused[c]

(* A request to stop is final: no race with the client's unblocking ends   *)
(* with the number writable again.                                         *)
OptOutIsFinal == [][block = "opt_out" => block' = "opt_out"]_block

BasisIsTrue == basis # NoCall => noticed[basis]
StampsAreTrue ==
  \A c \in Calls : /\ row[c].notice => noticed[c]
                   /\ row[c].sent # "no" => ever[c] > 0

(* The legal basis of the contact, and the notice stamped on a call, rest  *)
(* on a message that went out and carried the notice; a call is stamped as *)
(* messaged only if a message went out.                                    *)
EvidenceIsTrue == BasisIsTrue /\ StampsAreTrue

(* The first capture wins: later messages leave the evidence alone.        *)
FirstEvidenceStays == [][basis # NoCall => basis' = basis]_basis

(* As long as ticks do not overlap and none dies between the send and its  *)
(* stamp, a person gets one message a day that we know of, across all his  *)
(* calls, and about each call no more than the attempts it is allowed.  It *)
(* cannot be one message and no more: one whose answer was lost is taken   *)
(* for not sent, and is sent again by the next tick.                       *)
OneMessagePerDay ==
  Cardinality(Ticks) = 1 /\ faults = 0 =>
    \A c, d \in Calls : /\ today[c] <= 1
                        /\ today[c] = 1 /\ today[d] = 1 => c = d
                        /\ ever[c] <= MaxTries

(* Every caller owed a message is decided: written to, or given up on for  *)
(* a recorded reason.  The sweep never loses one to the others.            *)
EveryCallerDecided ==
  \A c \in Calls : row[c].stage = "due" ~> row[c].channel # "undecided"
=============================================================================
