-------------------------- MODULE RecallRecordings --------------------------
(***************************************************************************)
(* The life of a missed call's voice message: the voice webhook writes the *)
(* CallEvent, the recording webhook attaches the audio and runs the        *)
(* transcription and the owner's message behind its answer, and the        *)
(* scheduler tick redoes whatever that missed and deletes old audio.       *)
(*                                                                         *)
(* Nothing serialises the background chain with the tick, or one tick with *)
(* a slow earlier one.  As in RecallOnboarding a handler is a process: one *)
(* action between two awaits, what it read kept in `proc`.                 *)
(*                                                                         *)
(* The subscription is taken to be active with an owner's number; message  *)
(* wording, the send ledger and the content of the transcript are left     *)
(* out.  The caller's own message is RecallCallers.                        *)
(***************************************************************************)
EXTENDS Naturals, FiniteSets

CONSTANTS CallCount,      \* calls 1 .. CallCount arrive in that order
          Clients, ClientOf,
          Workers,        \* recording callbacks running at once
          Ticks,          \* scheduler ticks running at once
          MaxTries,       \* MAX_NOTIFY_ATTEMPTS: 3 in the code
          ScribeBatch,    \* rows one transcription sweep takes: 20
          OwnerBatch,     \* rows one owner sweep takes: 25
          PurgeBatch,     \* rows one purge takes: 50
          MaxDeliveries,  \* bound: times Twilio delivers one callback
          MaxFaults       \* bound: restarts and failed database writes

Calls == 1 .. CallCount
NoCall == 0
Procs == Workers \cup Ticks

ASSUME CountsAreNat ==
  {CallCount, MaxTries, ScribeBatch, OwnerBatch, PurgeBatch, MaxDeliveries, MaxFaults}
    \subseteq Nat
ASSUME ClientsOfCalls == ClientOf \in [Calls -> Clients]
ASSUME WorkersAreNoTicks == Workers \cap Ticks = {}

VARIABLES row,        \* call -> its CallEvent
          audio,      \* call -> the recording at Twilio
          delivered,  \* call -> recording callbacks that reached us
          age,        \* call -> 0, 1: past the transcript grace, 2: past retention
          leads,      \* call -> Lead rows created for it
          heard,      \* call -> WhatsApp accepted an owner message about it
          linked,     \* client -> its WhatsApp connection is active
          proc, faults

vars == <<row, audio, delivered, age, leads, heard, linked, proc, faults>>
world == <<audio, delivered, age, leads, heard, linked, faults>>

Outcomes == {"none", "pending", "withheld", "blocked", "recorded", "no_message"}
Stations == {"idle", "read", "whisper", "owner", "send", "stamp", "delete", "erase"}

(* "none" is a call whose row was never written.                           *)
Absent == [outcome |-> "none", sid |-> FALSE, url |-> FALSE, purged |-> FALSE,
           transcript |-> FALSE, lead |-> FALSE, told |-> FALSE, tries |-> 0]
Idle == [at |-> "idle", call |-> NoCall, lead |-> FALSE, tries |-> 0]

At(p, station) == proc[p].at = station
Goes(p, station) == proc' = [proc EXCEPT ![p].at = station]
Starts(p, station, c) ==
  proc' = [proc EXCEPT ![p] = [at |-> station, call |-> c, lead |-> FALSE, tries |-> 0]]
Done(p) == proc' = [proc EXCEPT ![p] = Idle]

Init ==
  /\ row = [c \in Calls |-> Absent]
  /\ audio = [c \in Calls |-> "none"]
  /\ delivered = [c \in Calls |-> 0]
  /\ age = [c \in Calls |-> 0]
  /\ leads = [c \in Calls |-> 0]
  /\ heard = [c \in Calls |-> FALSE]
  /\ linked = [k \in Clients |-> TRUE]
  /\ proc = [p \in Procs |-> Idle]
  /\ faults = 0

-----------------------------------------------------------------------------
(* The voice webhook.  A blocked caller is turned away before recording;   *)
(* a redelivered webhook finds the row and changes nothing.                *)
Rings(c) == audio[c] = "none" /\ \A d \in 1 .. (c - 1) : audio[d] # "none"

IncomingCall(c, outcome) ==
  /\ Rings(c)
  /\ row' = [row EXCEPT ![c].outcome = outcome]
  /\ audio' = [audio EXCEPT ![c] = IF outcome = "blocked" THEN "refused" ELSE "ringing"]
  /\ UNCHANGED <<delivered, age, leads, heard, linked, proc, faults>>

(* The database is down: the caller is recorded all the same.              *)
IncomingCallUnrecorded(c) ==
  /\ Rings(c)
  /\ faults < MaxFaults
  /\ faults' = faults + 1
  /\ audio' = [audio EXCEPT ![c] = "ringing"]
  /\ UNCHANGED <<row, delivered, age, leads, heard, linked, proc>>

(* The caller speaks or stays silent.  One who hangs up during the         *)
(* greeting leaves no recording: the call stays "ringing" for good.        *)
CallerFinishes(c) ==
  /\ audio[c] = "ringing"
  /\ \E kind \in {"voice", "silence"} : audio' = [audio EXCEPT ![c] = kind]
  /\ UNCHANGED <<row, delivered, age, leads, heard, linked, proc, faults>>

(* Slip: the outcome is decided by the duration alone.                     *)
AttachRecordingAnyway(r, kind) ==
  [r EXCEPT !.sid = TRUE, !.url = TRUE,
            !.outcome = IF kind = "voice" THEN "recorded" ELSE "no_message"]

(* attachRecording; a withheld call keeps its outcome.                     *)
AttachRecording(r, kind) ==
  [r EXCEPT !.sid = TRUE, !.url = TRUE,
            !.outcome = CASE r.outcome = "withheld" -> "withheld"
                          [] r.outcome # "withheld" /\ kind = "voice" -> "recorded"
                          [] OTHER -> "no_message"]

(* The recording webhook.  A recording whose call has no row is an orphan: *)
(* logged and acknowledged, so nothing changes.                            *)
RecordingCallback(p, c) ==
  /\ At(p, "idle")
  /\ row[c].outcome # "none"
  /\ audio[c] \in {"voice", "silence"}
  /\ age[c] < 2
  /\ delivered[c] < MaxDeliveries
  /\ delivered' = [delivered EXCEPT ![c] = @ + 1]
  /\ row' = [row EXCEPT ![c] = AttachRecording(@, audio[c])]
  /\ Starts(p, "read", c)
  /\ UNCHANGED <<audio, age, leads, heard, linked, faults>>

-----------------------------------------------------------------------------
(* transcribeCallEvent: read the row and fetch the audio (which fails once *)
(* it is deleted), call Whisper, then write with the leadId that was read. *)
NeedsTranscript(r) == r.url /\ ~r.transcript

(* The inline chain goes on to the owner whatever came of the              *)
(* transcription; a tick returns to its sweep.                             *)
AfterTranscription(p) == IF p \in Workers THEN Goes(p, "owner") ELSE Done(p)

ReadForTranscript(p) ==
  LET c == proc[p].call
  IN /\ At(p, "read")
     /\ IF NeedsTranscript(row[c]) /\ audio[c] # "deleted"
          THEN proc' = [proc EXCEPT ![p].at = "whisper", ![p].lead = row[c].lead]
          ELSE AfterTranscription(p)
     /\ UNCHANGED <<row, world>>

WhisperFails(p) ==
  /\ At(p, "whisper")
  /\ AfterTranscription(p)
  /\ UNCHANGED <<row, world>>

(* Slip: the lead is not linked back to its call.                          *)
WhisperAnswersUnlinked(p) ==
  LET c == proc[p].call
      newLead == ~proc[p].lead /\ row[c].outcome # "withheld"
  IN /\ At(p, "whisper")
     /\ row' = [row EXCEPT ![c].transcript = TRUE]
     /\ leads' = IF newLead THEN [leads EXCEPT ![c] = @ + 1] ELSE leads
     /\ AfterTranscription(p)
     /\ UNCHANGED <<audio, delivered, age, heard, linked, faults>>

WhisperAnswers(p) ==
  LET c == proc[p].call
      newLead == ~proc[p].lead /\ row[c].outcome # "withheld"
  IN /\ At(p, "whisper")
     /\ row' = [row EXCEPT ![c].transcript = TRUE, ![c].lead = @ \/ newLead]
     /\ leads' = IF newLead THEN [leads EXCEPT ![c] = @ + 1] ELSE leads
     /\ AfterTranscription(p)
     /\ UNCHANGED <<audio, delivered, age, heard, linked, faults>>

-----------------------------------------------------------------------------
(* notifyOwner.                                                            *)
(* Slip: the grace period is not waited for.                               *)
AwaitsTranscriptNever(c) == FALSE
AwaitsTranscript(c) == row[c].outcome = "recorded" /\ ~row[c].transcript /\ age[c] = 0

OwnerDue(c) == ~row[c].told /\ ~AwaitsTranscript(c) /\ linked[ClientOf[c]]

ReadForOwner(p) ==
  LET c == proc[p].call
  IN /\ At(p, "owner")
     /\ IF OwnerDue(c)
          THEN proc' = [proc EXCEPT ![p].at = "send", ![p].tries = row[c].tries]
          ELSE Done(p)
     /\ UNCHANGED <<row, world>>

SendAccepted(p) ==
  /\ At(p, "send")
  /\ heard' = [heard EXCEPT ![proc[p].call] = TRUE]
  /\ Goes(p, "stamp")
  /\ UNCHANGED <<row, audio, delivered, age, leads, linked, faults>>

(* Slip: the sender's answer is not looked at.                             *)
SendRefusedUnseen(p) ==
  /\ At(p, "send")
  /\ Goes(p, "stamp")
  /\ UNCHANGED <<row, world>>

(* Slip: a refused message is not counted.                                 *)
SendRefusedUncounted(p) ==
  /\ At(p, "send")
  /\ Done(p)
  /\ UNCHANGED <<row, world>>

(* The count written is the one read plus one.                             *)
SendRefused(p) ==
  /\ At(p, "send")
  /\ row' = [row EXCEPT ![proc[p].call].tries = proc[p].tries + 1]
  /\ Done(p)
  /\ UNCHANGED world

(* The owner got the message and the answer is lost: taken for a refusal.  *)
SendUnheard(p) ==
  /\ At(p, "send")
  /\ heard' = [heard EXCEPT ![proc[p].call] = TRUE]
  /\ row' = [row EXCEPT ![proc[p].call].tries = proc[p].tries + 1]
  /\ Done(p)
  /\ UNCHANGED <<audio, delivered, age, leads, linked, faults>>

StampTold(p) ==
  /\ At(p, "stamp")
  /\ row' = [row EXCEPT ![proc[p].call].told = TRUE]
  /\ Done(p)
  /\ UNCHANGED world

-----------------------------------------------------------------------------
(* The tick's three sweeps.  Each lists at most so many rows, oldest call  *)
(* first, across all clients.                                              *)
Oldest(S, limit) == {c \in S : Cardinality({d \in S : d < c}) < limit}

ToTranscribe ==
  Oldest({c \in Calls : /\ row[c].outcome = "recorded" /\ ~row[c].purged
                        /\ NeedsTranscript(row[c])}, ScribeBatch)
ToTell ==
  Oldest({c \in Calls : /\ row[c].outcome \in {"recorded", "no_message", "withheld"}
                        /\ ~row[c].told
                        /\ row[c].tries < MaxTries}, OwnerBatch)
ToPurge == Oldest({c \in Calls : row[c].sid /\ ~row[c].purged /\ age[c] = 2}, PurgeBatch)

TickTranscribes(t, c) ==
  /\ At(t, "idle")
  /\ c \in ToTranscribe
  /\ Starts(t, "read", c)
  /\ UNCHANGED <<row, world>>

TickTells(t, c) ==
  /\ At(t, "idle")
  /\ c \in ToTell
  /\ Starts(t, "owner", c)
  /\ UNCHANGED <<row, world>>

TickPurges(t, c) ==
  /\ At(t, "idle")
  /\ c \in ToPurge
  /\ Starts(t, "delete", c)
  /\ UNCHANGED <<row, world>>

(* Slip: a recording that is already gone counts as a failure.             *)
DeleteAcceptedOnce(p) ==
  /\ At(p, "delete")
  /\ audio[proc[p].call] # "deleted"
  /\ audio' = [audio EXCEPT ![proc[p].call] = "deleted"]
  /\ Goes(p, "erase")
  /\ UNCHANGED <<row, delivered, age, leads, heard, linked, faults>>

(* deleteTwilioRecording; 404 is success, so a repeat succeeds too.        *)
DeleteAccepted(p) ==
  /\ At(p, "delete")
  /\ audio' = [audio EXCEPT ![proc[p].call] = "deleted"]
  /\ Goes(p, "erase")
  /\ UNCHANGED <<row, delivered, age, leads, heard, linked, faults>>

(* Slip: the row is stamped whatever Twilio answered.                      *)
DeleteRefusedUnseen(p) ==
  /\ At(p, "delete")
  /\ Goes(p, "erase")
  /\ UNCHANGED <<row, world>>

DeleteRefused(p) ==
  /\ At(p, "delete")
  /\ Done(p)
  /\ UNCHANGED <<row, world>>

DeleteUnheard(p) ==
  /\ At(p, "delete")
  /\ audio' = [audio EXCEPT ![proc[p].call] = "deleted"]
  /\ Done(p)
  /\ UNCHANGED <<row, delivered, age, leads, heard, linked, faults>>

Erase(p) ==
  /\ At(p, "erase")
  /\ row' = [row EXCEPT ![proc[p].call].purged = TRUE, ![proc[p].call].url = FALSE]
  /\ Done(p)
  /\ UNCHANGED world

-----------------------------------------------------------------------------
(* Time passes, for older calls first.  Thirty days are longer than any    *)
(* handler runs.                                                           *)
Ages(c) ==
  /\ audio[c] # "none"
  /\ age[c] < 2
  /\ \A d \in 1 .. (c - 1) : age[d] > age[c]
  /\ age[c] = 1 => \A p \in Procs : proc[p].call # c
  /\ age' = [age EXCEPT ![c] = @ + 1]
  /\ UNCHANGED <<row, audio, delivered, leads, heard, linked, proc, faults>>

(* A client's Meta token is revoked or expires, or he reconnects.          *)
ConnectionChanges(k) ==
  /\ linked' = [linked EXCEPT ![k] = ~@]
  /\ UNCHANGED <<row, audio, delivered, age, leads, heard, proc, faults>>

(* One handler dies of a failed write, or all of them with the container.  *)
(* Every await swallows or logs the error; nothing is undone.              *)
Fault ==
  /\ faults < MaxFaults
  /\ faults' = faults + 1
  /\ \E lost \in {Procs} \cup {{p} : p \in Procs} :
       proc' = [p \in Procs |-> IF p \in lost THEN Idle ELSE proc[p]]
  /\ UNCHANGED <<row, audio, delivered, age, leads, heard, linked>>

-----------------------------------------------------------------------------
Continue(p) ==
  \/ ReadForTranscript(p) \/ WhisperFails(p) \/ WhisperAnswers(p)
  \/ ReadForOwner(p) \/ SendAccepted(p) \/ SendRefused(p) \/ SendUnheard(p) \/ StampTold(p)
  \/ DeleteAccepted(p) \/ DeleteRefused(p) \/ DeleteUnheard(p) \/ Erase(p)

TickStarts(t) == \E c \in Calls : TickTranscribes(t, c) \/ TickTells(t, c) \/ TickPurges(t, c)

Arrives(c) ==
  \/ \E outcome \in {"pending", "withheld", "blocked"} : IncomingCall(c, outcome)
  \/ IncomingCallUnrecorded(c)
  \/ CallerFinishes(c)

Next ==
  \/ \E c \in Calls : Arrives(c) \/ Ages(c)
  \/ \E k \in Clients : ConnectionChanges(k)
  \/ \E p \in Workers, c \in Calls : RecordingCallback(p, c)
  \/ \E t \in Ticks : TickStarts(t)
  \/ \E p \in Procs : Continue(p)
  \/ Fault

(* Time passes; a started handler runs on; some tick keeps coming back to  *)
(* each row its sweeps list; Twilio does not refuse a deletion for ever.   *)
Fairness ==
  /\ \A c \in Calls : WF_vars(Ages(c))
  /\ \A p \in Procs : WF_vars(Continue(p))
  /\ \A c \in Calls : /\ SF_vars(\E t \in Ticks : TickTells(t, c))
                      /\ SF_vars(\E t \in Ticks : TickPurges(t, c))
  /\ SF_vars(\E t \in Ticks : DeleteAccepted(t))

Spec == Init /\ [][Next]_vars
FairSpec == Spec /\ Fairness

-----------------------------------------------------------------------------
Rows == [outcome : Outcomes, sid : BOOLEAN, url : BOOLEAN, purged : BOOLEAN,
         transcript : BOOLEAN, lead : BOOLEAN, told : BOOLEAN, tries : Nat]
Handlers == [at : Stations, call : Calls \cup {NoCall}, lead : BOOLEAN, tries : Nat]

WellTyped ==
  /\ row \in [Calls -> Rows]
  /\ audio \in [Calls -> {"none", "refused", "ringing", "voice", "silence", "deleted"}]
  /\ delivered \in [Calls -> 0 .. MaxDeliveries]
  /\ age \in [Calls -> 0 .. 2]
  /\ leads \in [Calls -> Nat]
  /\ heard \in [Calls -> BOOLEAN]
  /\ linked \in [Clients -> BOOLEAN]
  /\ proc \in [Procs -> Handlers]
  /\ faults \in 0 .. MaxFaults

(* A call knows of a lead exactly when there is one, and has its words.    *)
LeadsAreLinked ==
  \A c \in Calls : /\ row[c].lead <=> leads[c] > 0
                   /\ row[c].lead => row[c].transcript

(* Rows, recordings, leads and handlers are well formed.                   *)
TypeOK == WellTyped /\ LeadsAreLinked

(* The retention promise is never claimed falsely: a row stamped as purged *)
(* has no audio left at Twilio and no link to it, whatever Twilio answered,*)
(* whoever else was at work on the call and whenever the app died.         *)
ErasureIsReal ==
  \A c \in Calls : row[c].purged => audio[c] = "deleted" /\ ~row[c].url

(* A call is only recorded as told to the owner when WhatsApp took a       *)
(* message about it.                                                       *)
ToldMeansSent == \A c \in Calls : row[c].told => heard[c]

(* The owner is not told of a message before its words are known, unless   *)
(* they have been waited for.                                              *)
OwnerWaitsForWords ==
  \A c \in Calls :
    heard[c] /\ row[c].outcome = "recorded" => row[c].transcript \/ age[c] > 0

(* What became of a call is decided once: neither a redelivered callback   *)
(* nor any sweep turns a withheld, blocked or finished call into another.  *)
OutcomeIsFinal ==
  [][\A c \in Calls :
       row[c].outcome \notin {"none", "pending"} => row'[c].outcome = row[c].outcome]_row

(* A finished call ends in a message to its owner, or in all the attempts  *)
(* spent, or the client's WhatsApp goes down.                              *)
OwnerHears ==
  \A c \in Calls :
    row[c].outcome \in {"recorded", "no_message", "withheld"} ~>
      \/ row[c].told
      \/ row[c].tries >= MaxTries
      \/ ~linked[ClientOf[c]]

(* No recording a row knows of outlives its retention.                     *)
RecordingsExpire ==
  \A c \in Calls : row[c].sid /\ age[c] = 2 ~> row[c].purged /\ audio[c] = "deleted"

(* Claimed and false: recall-transcription.ts says the sweep racing the    *)
(* inline path cannot produce two leads for one call.                      *)
OneLeadPerCall == \A c \in Calls : leads[c] <= 1
=============================================================================
