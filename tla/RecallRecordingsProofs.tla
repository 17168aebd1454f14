----------------------- MODULE RecallRecordingsProofs -----------------------
(***************************************************************************)
(* Proofs about RecallRecordings, for any number of calls, clients,        *)
(* overlapping callbacks and ticks, any limits and any number of faults.   *)
(*                                                                         *)
(* The inductive invariant adds three parts to TypeOK: Origin (how a row's *)
(* outcome and the audio at Twilio belong together, and what a handler     *)
(* knows of its call), Retention and Telling (what holds between the two   *)
(* halves of a deletion and of a message).                                 *)
(*                                                                         *)
(* OneLeadPerCall is false of the code; the last part proves what is true  *)
(* instead: how many leads a call can get, and that it gets at most one as *)
(* long as no two transcriptions of it overlap.                            *)
(***************************************************************************)
EXTENDS RecallRecordings, FiniteSetTheorems, TLAPS

Finished == {"recorded", "no_message", "withheld"}
Messaging == {"read", "whisper", "owner", "send", "stamp"}

(* Where each outcome can come from.                                       *)
Origin ==
  /\ \A c \in Calls :
       /\ audio[c] = "none" => row[c].outcome = "none"
       /\ audio[c] = "deleted" => row[c].outcome \in Finished
       /\ row[c].outcome = "recorded" => audio[c] \in {"voice", "deleted"}
       /\ row[c].outcome = "no_message" => audio[c] \in {"silence", "deleted"}
       /\ row[c].outcome = "blocked" => audio[c] = "refused"
       /\ row[c].sid => row[c].outcome \in Finished
  /\ \A p \in Procs :
       /\ proc[p].at # "idle" => proc[p].call \in Calls
       /\ proc[p].at \in Messaging => row[proc[p].call].outcome \in Finished
       /\ proc[p].at = "delete" => row[proc[p].call].outcome \in Finished

Retention ==
  /\ ErasureIsReal
  /\ \A p \in Procs : proc[p].at = "erase" => audio[proc[p].call] = "deleted"

(* The words of a call are known, or have been waited for.                 *)
Waited(c) == row[c].outcome = "recorded" => row[c].transcript \/ age[c] > 0

Telling ==
  /\ ToldMeansSent
  /\ \A c \in Calls : heard[c] => row[c].outcome \in Finished /\ Waited(c)
  /\ \A p \in Procs :
       /\ proc[p].at \in {"send", "stamp"} => Waited(proc[p].call)
       /\ proc[p].at = "stamp" => heard[proc[p].call]

IInv == TypeOK /\ Origin /\ Retention /\ Telling

-----------------------------------------------------------------------------
(* attachRecording sets the pointer and, but for a withheld call, the      *)
(* outcome; it leaves the rest of the row alone.                           *)
LEMMA AttachSets ==
  ASSUME NEW kind, NEW r \in Rows
  PROVE  LET a == AttachRecording(r, kind)
         IN /\ a \in Rows
            /\ a.lead = r.lead /\ a.transcript = r.transcript /\ a.told = r.told
            /\ a.purged = r.purged
            /\ a.outcome \in Finished
            /\ r.outcome = "withheld" => a.outcome = "withheld"
            /\ r.outcome # "withheld" /\ kind = "voice" => a.outcome = "recorded"
            /\ r.outcome # "withheld" /\ kind # "voice" => a.outcome = "no_message"
<1>1. CASE r.outcome = "withheld"
  BY <1>1 DEF AttachRecording, Finished, Outcomes, Rows
<1>2. CASE r.outcome # "withheld" /\ kind = "voice"
  BY <1>2 DEF AttachRecording, Finished, Outcomes, Rows
<1>3. CASE r.outcome # "withheld" /\ kind # "voice"
  BY <1>3 DEF AttachRecording, Finished, Outcomes, Rows
<1> QED
  BY <1>1, <1>2, <1>3

LEMMA Bounds == MaxDeliveries \in Nat /\ MaxFaults \in Nat
BY CountsAreNat

LEMMA TranscribedRow ==
  ASSUME NEW r \in Rows, NEW b \in BOOLEAN
  PROVE  /\ [r EXCEPT !.transcript = TRUE, !.lead = b] \in Rows
         /\ [r EXCEPT !.transcript = TRUE, !.lead = b].outcome = r.outcome
         /\ [r EXCEPT !.transcript = TRUE, !.lead = b].transcript
         /\ [r EXCEPT !.transcript = TRUE, !.lead = b].lead = b
         /\ [r EXCEPT !.transcript = TRUE, !.lead = b].told = r.told
         /\ [r EXCEPT !.transcript = TRUE, !.lead = b].purged = r.purged
         /\ [r EXCEPT !.transcript = TRUE, !.lead = b].url = r.url
         /\ [r EXCEPT !.transcript = TRUE, !.lead = b].sid = r.sid
BY DEF Rows

(* Every way a handler is moved on leaves it well formed.                  *)
LEMMA HandlerMoves ==
  ASSUME WellTyped, NEW p \in Procs, NEW station \in Stations
  PROVE  /\ Goes(p, station) => proc' \in [Procs -> Handlers]
         /\ Done(p) => proc' \in [Procs -> Handlers]
         /\ \A c \in Calls : Starts(p, station, c) => proc' \in [Procs -> Handlers]
<1>1. Idle \in Handlers
  BY DEF Idle, Handlers, Stations
<1>2. \A c \in Calls : [at |-> station, call |-> c, lead |-> FALSE, tries |-> 0] \in Handlers
  BY DEF Handlers
<1>3. [proc[p] EXCEPT !.at = station] \in Handlers
  BY DEF WellTyped, Handlers
<1> QED
  BY <1>1, <1>2, <1>3 DEF WellTyped, Goes, Done, Starts

-----------------------------------------------------------------------------
LEMMA TypeInit == Init => TypeOK /\ Origin
<1> SUFFICES ASSUME Init PROVE TypeOK /\ Origin
  OBVIOUS
<1> USE DEF Init, Absent, Idle
<1>1. WellTyped
  BY Bounds DEF WellTyped, Outcomes, Stations, Rows, Handlers
<1>2. LeadsAreLinked
  BY DEF LeadsAreLinked
<1>3. Origin
  BY DEF Origin, Finished, Messaging
<1> QED
  BY <1>1, <1>2, <1>3 DEF TypeOK

LEMMA TypeStep == TypeOK /\ Origin /\ [Next]_vars => WellTyped'
<1> SUFFICES ASSUME WellTyped, Origin, [Next]_vars PROVE WellTyped'
  BY DEF TypeOK
<1> USE Bounds DEF world
<1>1. ASSUME NEW c \in Calls, Arrives(c) PROVE WellTyped'
  <2>1. CASE \E outcome \in {"pending", "withheld", "blocked"} : IncomingCall(c, outcome)
    BY <2>1 DEF IncomingCall, WellTyped, Rows, Outcomes
  <2>2. CASE IncomingCallUnrecorded(c)
    BY <2>2 DEF IncomingCallUnrecorded, WellTyped
  <2>3. CASE CallerFinishes(c)
    BY <2>3 DEF CallerFinishes, WellTyped
  <2> QED
    BY <1>1, <2>1, <2>2, <2>3 DEF Arrives
<1>2. ASSUME NEW c \in Calls, Ages(c) PROVE WellTyped'
  BY <1>2 DEF Ages, WellTyped
<1>3. ASSUME NEW k \in Clients, ConnectionChanges(k) PROVE WellTyped'
  BY <1>3 DEF ConnectionChanges, WellTyped
<1>4. ASSUME NEW p \in Workers, NEW c \in Calls, RecordingCallback(p, c) PROVE WellTyped'
  <2>1. AttachRecording(row[c], audio[c]) \in Rows
    BY AttachSets DEF WellTyped
  <2>2. row' = [row EXCEPT ![c] = AttachRecording(row[c], audio[c])]
    BY <1>4 DEF RecordingCallback
  <2>3. row' \in [Calls -> Rows]
    BY <2>1, <2>2 DEF WellTyped
  <2>4. proc' \in [Procs -> Handlers]
    BY <1>4, HandlerMoves DEF RecordingCallback, Procs, Stations
  <2> QED
    BY <1>4, <2>3, <2>4 DEF RecordingCallback, WellTyped
<1>5. ASSUME NEW t \in Ticks, TickStarts(t) PROVE WellTyped'
  <2>1. proc' \in [Procs -> Handlers]
    BY <1>5, HandlerMoves
       DEF TickStarts, TickTranscribes, TickTells, TickPurges, Procs, Stations
  <2>2. UNCHANGED <<row, world>>
    BY <1>5 DEF TickStarts, TickTranscribes, TickTells, TickPurges
  <2> QED
    BY <2>1, <2>2 DEF WellTyped
<1>6. ASSUME NEW p \in Procs, Continue(p) PROVE WellTyped'
  <2>c. proc[p].at # "idle" => proc[p].call \in Calls
    BY DEF Origin
  <2>m. \A station \in Stations : Goes(p, station) \/ Done(p) => proc' \in [Procs -> Handlers]
    BY HandlerMoves
  <2>1. CASE ReadForTranscript(p)
    <3>1. CASE proc' = [proc EXCEPT ![p].at = "whisper", ![p].lead = row[proc[p].call].lead]
      <4>1. row[proc[p].call].lead \in BOOLEAN
        BY <2>c, <2>1 DEF ReadForTranscript, WellTyped, Rows, At
      <4>2. [proc[p] EXCEPT !.at = "whisper", !.lead = row[proc[p].call].lead] \in Handlers
        BY <4>1 DEF WellTyped, Handlers, Stations
      <4> QED
        BY <2>1, <3>1, <4>2 DEF ReadForTranscript, WellTyped
    <3>2. CASE AfterTranscription(p)
      BY <2>1, <2>m, <3>2 DEF ReadForTranscript, AfterTranscription, WellTyped, Stations
    <3> QED
      BY <2>1, <3>1, <3>2 DEF ReadForTranscript
  <2>2. CASE WhisperFails(p)
    BY <2>2, <2>m DEF WhisperFails, AfterTranscription, WellTyped, Stations
  <2>3. CASE WhisperAnswers(p)
    <3> DEFINE c == proc[p].call
               newLead == ~proc[p].lead /\ row[c].outcome # "withheld"
    <3>1. c \in Calls
      BY <2>3, <2>c DEF WhisperAnswers, At
    <3>2. /\ row' = [row EXCEPT ![c].transcript = TRUE, ![c].lead = @ \/ newLead]
          /\ leads' = IF newLead THEN [leads EXCEPT ![c] = @ + 1] ELSE leads
          /\ UNCHANGED <<audio, delivered, age, heard, linked, faults>>
      BY <2>3 DEF WhisperAnswers
    <3>3. row' \in [Calls -> Rows]
      <4> DEFINE b == row[c].lead \/ newLead
      <4>1. b \in BOOLEAN
        OBVIOUS
      <4>2. row' = [row EXCEPT ![c] = [row[c] EXCEPT !.transcript = TRUE, !.lead = b]]
        BY <3>1, <3>2 DEF WellTyped, Rows
      <4> HIDE DEF b
      <4>3. [row[c] EXCEPT !.transcript = TRUE, !.lead = b] \in Rows
        BY <3>1, <4>1, TranscribedRow DEF WellTyped
      <4> QED
        BY <3>1, <4>2, <4>3 DEF WellTyped
    <3>4. leads' \in [Calls -> Nat]
      <4> HIDE DEF newLead
      <4> QED
        BY <3>1, <3>2 DEF WellTyped
    <3>5. proc' \in [Procs -> Handlers]
      BY <2>3, <2>m DEF WhisperAnswers, AfterTranscription, Stations
    <3> QED
      BY <3>2, <3>3, <3>4, <3>5 DEF WellTyped
  <2>4. CASE ReadForOwner(p)
    <3>1. CASE proc' = [proc EXCEPT ![p].at = "send", ![p].tries = row[proc[p].call].tries]
      <4>1. row[proc[p].call].tries \in Nat
        BY <2>c, <2>4 DEF ReadForOwner, WellTyped, Rows, At
      <4>2. [proc[p] EXCEPT !.at = "send", !.tries = row[proc[p].call].tries] \in Handlers
        BY <4>1 DEF WellTyped, Handlers, Stations
      <4> QED
        BY <2>4, <3>1, <4>2 DEF ReadForOwner, WellTyped
    <3>2. CASE Done(p)
      BY <2>4, <2>m, <3>2 DEF ReadForOwner, WellTyped, Stations
    <3> QED
      BY <2>4, <3>1, <3>2 DEF ReadForOwner
  <2>5. CASE SendAccepted(p) \/ DeleteAccepted(p) \/ DeleteRefused(p) \/ DeleteUnheard(p)
    BY <2>5, <2>m DEF SendAccepted, DeleteAccepted, DeleteRefused, DeleteUnheard, WellTyped,
                      Stations
  <2>6. CASE SendRefused(p) \/ SendUnheard(p)
    <3>1. proc[p].tries + 1 \in Nat
      BY DEF WellTyped, Handlers
    <3>2. CASE SendRefused(p)
      BY <2>m, <3>1, <3>2 DEF SendRefused, WellTyped, Stations, Rows
    <3>3. CASE SendUnheard(p)
      BY <2>m, <3>1, <3>3 DEF SendUnheard, WellTyped, Stations, Rows
    <3> QED
      BY <2>6, <3>2, <3>3
  <2>7. CASE StampTold(p)
    BY <2>7, <2>m DEF StampTold, WellTyped, Stations, Rows
  <2>8. CASE Erase(p)
    <3>1. row' \in [Calls -> Rows]
      BY <2>8 DEF Erase, WellTyped, Rows
    <3> QED
      BY <2>8, <2>m, <3>1 DEF Erase, WellTyped, Stations
  <2> QED
    BY <1>6, <2>1, <2>2, <2>3, <2>4, <2>5, <2>6, <2>7, <2>8 DEF Continue
<1>7. CASE Fault
  <2>1. Idle \in Handlers
    BY DEF Idle, Handlers, Stations
  <2>2. proc' \in [Procs -> Handlers]
    BY <1>7, <2>1 DEF Fault, WellTyped
  <2> QED
    BY <1>7, <2>2 DEF Fault, WellTyped
<1>8. CASE UNCHANGED vars
  BY <1>8 DEF vars, WellTyped
<1> QED
  BY <1>1, <1>2, <1>3, <1>4, <1>5, <1>6, <1>7, <1>8 DEF Next

-----------------------------------------------------------------------------
(* Only an answer from Whisper touches leads, and links what it adds.      *)
LEMMA LeadsStep == TypeOK /\ Origin /\ [Next]_vars => LeadsAreLinked'
<1> SUFFICES ASSUME WellTyped, LeadsAreLinked, Origin, [Next]_vars PROVE LeadsAreLinked'
  BY DEF TypeOK
<1> USE DEF LeadsAreLinked
<1>f. ASSUME \A c \in Calls : row'[c].lead = row[c].lead /\ row'[c].transcript = row[c].transcript,
             leads' = leads
      PROVE  LeadsAreLinked'
  BY <1>f
<1>1. ASSUME NEW c \in Calls, Arrives(c) PROVE LeadsAreLinked'
  BY <1>1, <1>f DEF Arrives, IncomingCall, IncomingCallUnrecorded, CallerFinishes,
                    WellTyped, Rows
<1>2. ASSUME NEW c \in Calls, Ages(c) PROVE LeadsAreLinked'
  BY <1>2 DEF Ages
<1>3. ASSUME NEW k \in Clients, ConnectionChanges(k) PROVE LeadsAreLinked'
  BY <1>3 DEF ConnectionChanges
<1>4. ASSUME NEW p \in Workers, NEW c \in Calls, RecordingCallback(p, c) PROVE LeadsAreLinked'
  <2>1. row[c] \in Rows
    BY DEF WellTyped
  <2>2. /\ row' = [row EXCEPT ![c] = AttachRecording(row[c], audio[c])]
        /\ leads' = leads
    BY <1>4 DEF RecordingCallback
  <2> QED
    BY <2>1, <2>2, <1>f, AttachSets DEF WellTyped
<1>5. ASSUME NEW t \in Ticks, TickStarts(t) PROVE LeadsAreLinked'
  BY <1>5 DEF TickStarts, TickTranscribes, TickTells, TickPurges, world
<1>6. ASSUME NEW p \in Procs, Continue(p) PROVE LeadsAreLinked'
  <2>1. CASE ReadForTranscript(p) \/ WhisperFails(p) \/ ReadForOwner(p)
    BY <2>1 DEF ReadForTranscript, WhisperFails, ReadForOwner, world
  <2>2. CASE WhisperAnswers(p)
    <3> DEFINE c == proc[p].call
               newLead == ~proc[p].lead /\ row[c].outcome # "withheld"
               b == row[c].lead \/ newLead
    <3>1. c \in Calls /\ row[c] \in Rows
      BY <2>2 DEF WhisperAnswers, At, Origin, WellTyped
    <3>2. b \in BOOLEAN
      OBVIOUS
    <3>3. /\ row' = [row EXCEPT ![c] = [row[c] EXCEPT !.transcript = TRUE, !.lead = b]]
          /\ newLead => leads' = [leads EXCEPT ![c] = @ + 1]
          /\ ~newLead => leads' = leads
      BY <2>2, <3>1 DEF WhisperAnswers, WellTyped, Rows
    <3>4. row'[c].transcript /\ row'[c].lead = b
      <4> HIDE DEF b
      <4> QED
        BY <3>1, <3>2, <3>3, TranscribedRow DEF WellTyped
    <3>5. \A d \in Calls \ {c} : row'[d] = row[d] /\ leads'[d] = leads[d]
      BY <3>1, <3>3 DEF WellTyped
    <3>6. b <=> leads'[c] > 0
      BY <3>1, <3>3 DEF WellTyped
    <3> QED
      BY <3>1, <3>4, <3>5, <3>6
  <2>3. CASE SendAccepted(p) \/ DeleteAccepted(p) \/ DeleteRefused(p) \/ DeleteUnheard(p)
    BY <2>3 DEF SendAccepted, DeleteAccepted, DeleteRefused, DeleteUnheard, world
  <2>4. CASE SendRefused(p) \/ SendUnheard(p)
    BY <2>4, <1>f DEF SendRefused, SendUnheard, world, WellTyped, Rows
  <2>5. CASE StampTold(p)
    BY <2>5, <1>f DEF StampTold, world, WellTyped, Rows
  <2>6. CASE Erase(p)
    BY <2>6, <1>f DEF Erase, world, WellTyped, Rows
  <2> QED
    BY <1>6, <2>1, <2>2, <2>3, <2>4, <2>5, <2>6 DEF Continue
<1>7. CASE Fault
  BY <1>7 DEF Fault
<1>8. CASE UNCHANGED vars
  BY <1>8 DEF vars
<1> QED
  BY <1>1, <1>2, <1>3, <1>4, <1>5, <1>6, <1>7, <1>8 DEF Next

-----------------------------------------------------------------------------
(* The outcomes and the audio after a step, action by action: every other  *)
(* action leaves both alone.                                               *)
LEMMA OutcomesMove ==
  ASSUME TypeOK, Origin, [Next]_vars, NEW c \in Calls
  PROVE  \/ /\ row'[c].outcome = row[c].outcome
            /\ row'[c].sid = row[c].sid
            /\ audio'[c] = audio[c]
         \/ /\ audio[c] = "none"
            /\ row'[c].sid = row[c].sid
            /\ \/ row'[c].outcome \in {"pending", "withheld"} /\ audio'[c] = "ringing"
               \/ row'[c].outcome = "blocked" /\ audio'[c] = "refused"
               \/ row'[c].outcome = row[c].outcome /\ audio'[c] = "ringing"
         \/ /\ audio[c] = "ringing" /\ audio'[c] \in {"voice", "silence"}
            /\ row'[c] = row[c]
         \/ /\ audio[c] \in {"voice", "silence"} /\ audio'[c] = audio[c]
            /\ row[c].outcome # "none"
            /\ row'[c] = AttachRecording(row[c], audio[c])
         \/ /\ \E p \in Procs : At(p, "delete") /\ proc[p].call = c
            /\ audio'[c] = "deleted" /\ row'[c] = row[c]
<1> DEFINE Moved(d) ==
         \/ /\ row'[d].outcome = row[d].outcome
            /\ row'[d].sid = row[d].sid
            /\ audio'[d] = audio[d]
         \/ /\ audio[d] = "none"
            /\ row'[d].sid = row[d].sid
            /\ \/ row'[d].outcome \in {"pending", "withheld"} /\ audio'[d] = "ringing"
               \/ row'[d].outcome = "blocked" /\ audio'[d] = "refused"
               \/ row'[d].outcome = row[d].outcome /\ audio'[d] = "ringing"
         \/ /\ audio[d] = "ringing" /\ audio'[d] \in {"voice", "silence"}
            /\ row'[d] = row[d]
         \/ /\ audio[d] \in {"voice", "silence"} /\ audio'[d] = audio[d]
            /\ row[d].outcome # "none"
            /\ row'[d] = AttachRecording(row[d], audio[d])
         \/ /\ \E p \in Procs : At(p, "delete") /\ proc[p].call = d
            /\ audio'[d] = "deleted" /\ row'[d] = row[d]
<1> SUFFICES Moved(c)
  OBVIOUS
<1>t. WellTyped
  BY DEF TypeOK
<1>n. ASSUME UNCHANGED <<row, audio>> PROVE Moved(c)
  BY <1>n
<1>1. ASSUME NEW d \in Calls, Arrives(d) PROVE Moved(c)
  <2>1. CASE \E outcome \in {"pending", "withheld", "blocked"} : IncomingCall(d, outcome)
    BY <2>1, <1>t DEF IncomingCall, Rings, WellTyped, Rows
  <2>2. CASE IncomingCallUnrecorded(d)
    BY <2>2, <1>t DEF IncomingCallUnrecorded, Rings, WellTyped
  <2>3. CASE CallerFinishes(d)
    BY <2>3, <1>t DEF CallerFinishes, WellTyped
  <2> QED
    BY <1>1, <2>1, <2>2, <2>3 DEF Arrives
<1>2. ASSUME NEW d \in Calls, Ages(d) PROVE Moved(c)
  BY <1>2, <1>n DEF Ages
<1>3. ASSUME NEW k \in Clients, ConnectionChanges(k) PROVE Moved(c)
  BY <1>3, <1>n DEF ConnectionChanges
<1>4. ASSUME NEW p \in Workers, NEW d \in Calls, RecordingCallback(p, d) PROVE Moved(c)
  BY <1>4, <1>t DEF RecordingCallback, WellTyped
<1>5. ASSUME NEW t \in Ticks, TickStarts(t) PROVE Moved(c)
  BY <1>5, <1>n DEF TickStarts, TickTranscribes, TickTells, TickPurges, world
<1>6. ASSUME NEW p \in Procs, Continue(p) PROVE Moved(c)
  <2>1. CASE ReadForTranscript(p) \/ WhisperFails(p) \/ ReadForOwner(p)
             \/ SendAccepted(p) \/ DeleteRefused(p)
    BY <2>1, <1>n DEF ReadForTranscript, WhisperFails, ReadForOwner, SendAccepted,
                      DeleteRefused, world
  <2>2. CASE WhisperAnswers(p)
    BY <2>2, <1>t DEF WhisperAnswers, WellTyped, Rows
  <2>3. CASE SendRefused(p) \/ SendUnheard(p)
    BY <2>3, <1>t DEF SendRefused, SendUnheard, WellTyped, Rows, world
  <2>4. CASE StampTold(p)
    BY <2>4, <1>t DEF StampTold, WellTyped, Rows, world
  <2>5. CASE Erase(p)
    BY <2>5, <1>t DEF Erase, WellTyped, Rows, world
  <2>6. CASE DeleteAccepted(p) \/ DeleteUnheard(p)
    BY <2>6, <1>t DEF DeleteAccepted, DeleteUnheard, WellTyped
  <2> QED
    BY <1>6, <2>1, <2>2, <2>3, <2>4, <2>5, <2>6 DEF Continue
<1>7. CASE Fault
  BY <1>7, <1>n DEF Fault
<1>8. CASE UNCHANGED vars
  BY <1>8, <1>n DEF vars
<1> QED
  BY <1>1, <1>2, <1>3, <1>4, <1>5, <1>6, <1>7, <1>8 DEF Next

(* A decided outcome stays.                                                *)
LEMMA OutcomeStays ==
  ASSUME TypeOK, Origin, [Next]_vars, NEW c \in Calls,
         row[c].outcome \notin {"none", "pending"}
  PROVE  row'[c].outcome = row[c].outcome
<1>1. row[c] \in Rows /\ row[c].outcome \in Outcomes
  BY DEF TypeOK, WellTyped, Rows
<1>2. CASE audio[c] \in {"voice", "silence"} /\ row'[c] = AttachRecording(row[c], audio[c])
  BY <1>1, <1>2, AttachSets DEF Origin, Outcomes
<1> QED
  BY <1>1, <1>2, OutcomesMove DEF Origin

LEMMA OriginStep == TypeOK /\ Origin /\ [Next]_vars => Origin'
<1> SUFFICES ASSUME TypeOK, Origin, [Next]_vars PROVE Origin'
  OBVIOUS
<1>t. WellTyped
  BY DEF TypeOK
<1>1. ASSUME NEW c \in Calls
      PROVE  /\ audio'[c] = "none" => row'[c].outcome = "none"
             /\ audio'[c] = "deleted" => row'[c].outcome \in Finished
             /\ row'[c].outcome = "recorded" => audio'[c] \in {"voice", "deleted"}
             /\ row'[c].outcome = "no_message" => audio'[c] \in {"silence", "deleted"}
             /\ row'[c].outcome = "blocked" => audio'[c] = "refused"
             /\ row'[c].sid => row'[c].outcome \in Finished
  <2>1. row[c] \in Rows /\ row[c].outcome \in Outcomes
    BY <1>t DEF WellTyped, Rows
  <2>2. CASE audio[c] \in {"voice", "silence"} /\ audio'[c] = audio[c]
             /\ row'[c] = AttachRecording(row[c], audio[c])
    BY <2>1, <2>2, AttachSets DEF Origin, Finished
  <2>3. CASE /\ \E p \in Procs : At(p, "delete") /\ proc[p].call = c
             /\ audio'[c] = "deleted" /\ row'[c] = row[c]
    <3>1. row[c].outcome \in Finished
      BY <2>3 DEF Origin, At
    <3> QED
      BY <2>3, <3>1 DEF Origin, Finished
  <2>4. CASE audio[c] = "ringing" /\ audio'[c] \in {"voice", "silence"} /\ row'[c] = row[c]
    BY <2>4 DEF Origin
  <2>5. CASE row'[c].outcome = row[c].outcome /\ row'[c].sid = row[c].sid
             /\ audio'[c] = audio[c]
    BY <2>5 DEF Origin
  <2>6. CASE /\ audio[c] = "none"
             /\ row'[c].sid = row[c].sid
             /\ \/ row'[c].outcome \in {"pending", "withheld"} /\ audio'[c] = "ringing"
                \/ row'[c].outcome = "blocked" /\ audio'[c] = "refused"
                \/ row'[c].outcome = row[c].outcome /\ audio'[c] = "ringing"
    BY <2>6 DEF Origin, Finished
  <2> QED
    BY <2>2, <2>3, <2>4, <2>5, <2>6, OutcomesMove
<1>2. ASSUME NEW p \in Procs
      PROVE  /\ proc'[p].at # "idle" => proc'[p].call \in Calls
             /\ proc'[p].at \in Messaging => row'[proc'[p].call].outcome \in Finished
             /\ proc'[p].at = "delete" => row'[proc'[p].call].outcome \in Finished
  <2> DEFINE Knows(q) ==
               /\ proc'[q].at # "idle" => proc'[q].call \in Calls
               /\ proc'[q].at \in Messaging \cup {"delete"}
                    => row'[proc'[q].call].outcome \in Finished
  <2> SUFFICES Knows(p)
    OBVIOUS
  <2>k. \A c \in Calls : row[c].outcome \in Finished => row'[c].outcome \in Finished
    BY OutcomeStays DEF Finished
  <2>s. CASE proc'[p] = proc[p]
    BY <2>s, <2>k DEF Origin, Messaging
  <2>d. CASE proc'[p].at = "idle"
    BY <2>d DEF Messaging
  <2>g. CASE /\ proc[p].at # "idle" /\ proc'[p].call = proc[p].call
             /\ proc[p].at \in Messaging /\ proc'[p].at \in Messaging
    BY <2>g, <2>k DEF Origin
  <2>e. CASE proc[p].at = "delete" /\ proc'[p].call = proc[p].call /\ proc'[p].at = "erase"
    BY <2>e DEF Origin, Messaging
  <2>1. ASSUME NEW w \in Workers, NEW c \in Calls, RecordingCallback(w, c) PROVE Knows(p)
    <3>1. CASE p = w
      <4>1. row[c] \in Rows
        BY <1>t DEF WellTyped
      <4>2. proc'[p].call = c /\ proc'[p].at = "read"
        BY <2>1, <3>1, <1>t DEF RecordingCallback, Starts, WellTyped
      <4>3. row'[c].outcome \in Finished
        BY <2>1, <4>1, <1>t, AttachSets DEF RecordingCallback, WellTyped
      <4> QED
        BY <4>2, <4>3
    <3>2. CASE p # w
      BY <2>1, <2>s, <3>2, <1>t DEF RecordingCallback, Starts, WellTyped
    <3> QED
      BY <3>1, <3>2
  <2>2. ASSUME NEW t \in Ticks, NEW c \in Calls,
               TickTranscribes(t, c) \/ TickTells(t, c) \/ TickPurges(t, c)
        PROVE  Knows(p)
    <3>1. row[c].outcome \in Finished /\ UNCHANGED row
      <4>1. CASE TickTranscribes(t, c)
        BY <4>1 DEF TickTranscribes, ToTranscribe, Oldest, Finished
      <4>2. CASE TickTells(t, c)
        BY <4>2 DEF TickTells, ToTell, Oldest, Finished
      <4>3. CASE TickPurges(t, c)
        BY <4>3 DEF TickPurges, ToPurge, Oldest, Origin
      <4> QED
        BY <2>2, <4>1, <4>2, <4>3
    <3>2. CASE p = t
      <4>1. proc'[p].call = c
        BY <2>2, <3>2, <1>t DEF TickTranscribes, TickTells, TickPurges, Starts, WellTyped
      <4> QED
        BY <3>1, <4>1
    <3>3. CASE p # t
      BY <2>2, <2>s, <3>3, <1>t
         DEF TickTranscribes, TickTells, TickPurges, Starts, WellTyped
    <3> QED
      BY <3>2, <3>3
  <2>3. ASSUME NEW q \in Procs, Continue(q) PROVE Knows(p)
    <3>1. CASE p # q
      <4>1. proc'[p] = proc[p]
        BY <2>3, <3>1, <1>t
           DEF Continue, ReadForTranscript, WhisperFails, WhisperAnswers, ReadForOwner,
               SendAccepted, SendRefused, SendUnheard, StampTold, DeleteAccepted,
               DeleteRefused, DeleteUnheard, Erase, AfterTranscription, Goes, Done, WellTyped
      <4> QED
        BY <4>1, <2>s
    <3>2. CASE p = q
      <4>1. CASE ReadForTranscript(p) \/ WhisperFails(p) \/ WhisperAnswers(p)
        <5>1. proc[p].at \in {"read", "whisper"}
          BY <4>1 DEF ReadForTranscript, WhisperFails, WhisperAnswers, At
        <5>2. \/ proc'[p].at = "idle"
              \/ proc'[p].at \in {"whisper", "owner"} /\ proc'[p].call = proc[p].call
          BY <4>1, <1>t DEF ReadForTranscript, WhisperFails, WhisperAnswers,
                            AfterTranscription, Goes, Done, Idle, WellTyped, Handlers
        <5> QED
          BY <5>1, <5>2, <2>d, <2>g DEF Messaging
      <4>2. CASE ReadForOwner(p) \/ SendAccepted(p)
        <5>1. proc[p].at \in {"owner", "send"}
          BY <4>2 DEF ReadForOwner, SendAccepted, At
        <5>2. \/ proc'[p].at = "idle"
              \/ proc'[p].at \in {"send", "stamp"} /\ proc'[p].call = proc[p].call
          BY <4>2, <1>t DEF ReadForOwner, SendAccepted, Goes, Done, Idle, WellTyped, Handlers
        <5> QED
          BY <5>1, <5>2, <2>d, <2>g DEF Messaging
      <4>3. CASE \/ SendRefused(p) \/ SendUnheard(p) \/ StampTold(p)
                 \/ DeleteRefused(p) \/ DeleteUnheard(p) \/ Erase(p)
        BY <4>3, <2>d, <1>t DEF SendRefused, SendUnheard, StampTold, DeleteRefused,
                                DeleteUnheard, Erase, Done, Idle, WellTyped
      <4>4. CASE DeleteAccepted(p)
        BY <4>4, <2>e, <1>t DEF DeleteAccepted, At, Goes, WellTyped, Handlers
      <4> QED
        BY <2>3, <3>2, <4>1, <4>2, <4>3, <4>4 DEF Continue
    <3> QED
      BY <3>1, <3>2
  <2>4. CASE Fault
    BY <2>4, <2>s, <2>d DEF Fault, Idle
  <2>5. CASE proc' = proc
    BY <2>5, <2>s
  <2> QED
    BY <2>1, <2>2, <2>3, <2>4, <2>5
       DEF Next, vars, TickStarts, Arrives, IncomingCall, IncomingCallUnrecorded,
           CallerFinishes, Ages, ConnectionChanges
<1> QED
  BY <1>1, <1>2 DEF Origin

-----------------------------------------------------------------------------
(* The halves of a deletion and of a message.                              *)
LEMMA HalvesInit == Init => Retention /\ Telling
BY DEF Init, Absent, Idle, Retention, ErasureIsReal, Telling, ToldMeansSent

LEMMA RetentionStep ==
  TypeOK /\ Origin /\ Retention /\ [Next]_vars => Retention'
<1> SUFFICES ASSUME TypeOK, Origin, Retention, [Next]_vars PROVE Retention'
  OBVIOUS
<1>t. WellTyped
  BY DEF TypeOK
<1>a. ASSUME NEW c \in Calls, audio[c] = "deleted" PROVE audio'[c] = "deleted"
  BY <1>a, OutcomesMove
<1>f. ASSUME \A c \in Calls : row'[c].purged = row[c].purged /\ row'[c].url = row[c].url,
             \A p \in Procs : At(p, "erase")' => proc'[p] = proc[p]
      PROVE  Retention'
  BY <1>a, <1>f DEF Retention, ErasureIsReal, Origin, At
<1>1. ASSUME NEW c \in Calls, Arrives(c) PROVE Retention'
  BY <1>1, <1>f, <1>t DEF Arrives, IncomingCall, IncomingCallUnrecorded, CallerFinishes,
                          WellTyped, Rows
<1>2. ASSUME NEW c \in Calls, Ages(c) PROVE Retention'
  BY <1>2, <1>f DEF Ages
<1>3. ASSUME NEW k \in Clients, ConnectionChanges(k) PROVE Retention'
  BY <1>3, <1>f DEF ConnectionChanges
<1>4. ASSUME NEW p \in Workers, NEW c \in Calls, RecordingCallback(p, c) PROVE Retention'
  <2>1. row[c] \in Rows /\ audio[c] # "deleted"
    BY <1>4, <1>t DEF RecordingCallback, WellTyped
  <2>2. /\ ~row'[c].purged
        /\ \A d \in Calls \ {c} : row'[d] = row[d]
    BY <1>4, <2>1, <1>t, AttachSets
       DEF RecordingCallback, WellTyped, Retention, ErasureIsReal
  <2>3. \A q \in Procs : proc'[q].at = "erase" => proc'[q] = proc[q]
    BY <1>4, <1>t DEF RecordingCallback, Starts, WellTyped
  <2> QED
    BY <2>2, <2>3, <1>a DEF Retention, ErasureIsReal, Origin
<1>5. ASSUME NEW t \in Ticks, TickStarts(t) PROVE Retention'
  BY <1>5, <1>f, <1>t
     DEF TickStarts, TickTranscribes, TickTells, TickPurges, Starts, At, WellTyped, world
<1>6. ASSUME NEW p \in Procs, Continue(p) PROVE Retention'
  <2>1. CASE ReadForTranscript(p) \/ WhisperFails(p) \/ ReadForOwner(p)
             \/ SendAccepted(p) \/ DeleteRefused(p) \/ DeleteUnheard(p)
    BY <2>1, <1>f, <1>t
       DEF ReadForTranscript, WhisperFails, ReadForOwner, SendAccepted, DeleteRefused,
           DeleteUnheard, AfterTranscription, Goes, Done, Idle, At, WellTyped, Handlers, world
  <2>2. CASE WhisperAnswers(p)
    <3>1. \A c \in Calls : row'[c].purged = row[c].purged /\ row'[c].url = row[c].url
      BY <2>2, <1>t DEF WhisperAnswers, WellTyped, Rows
    <3>2. \A q \in Procs : At(q, "erase")' => proc'[q] = proc[q]
      BY <2>2, <1>t DEF WhisperAnswers, AfterTranscription, Goes, Done, Idle, At, WellTyped,
                        Handlers
    <3> QED
      BY <3>1, <3>2, <1>f
  <2>3. CASE SendRefused(p) \/ SendUnheard(p) \/ StampTold(p)
    <3>1. \A c \in Calls : row'[c].purged = row[c].purged /\ row'[c].url = row[c].url
      <4>1. CASE SendRefused(p)
        BY <4>1, <1>t DEF SendRefused, WellTyped, Rows
      <4>2. CASE SendUnheard(p)
        BY <4>2, <1>t DEF SendUnheard, WellTyped, Rows
      <4>3. CASE StampTold(p)
        BY <4>3, <1>t DEF StampTold, WellTyped, Rows
      <4> QED
        BY <2>3, <4>1, <4>2, <4>3
    <3>2. \A q \in Procs : At(q, "erase")' => proc'[q] = proc[q]
      BY <2>3, <1>t DEF SendRefused, SendUnheard, StampTold, Done, Idle, At, WellTyped
    <3> QED
      BY <3>1, <3>2, <1>f
  <2>4. CASE DeleteAccepted(p)
    <3>1. proc[p].call \in Calls
      BY <2>4 DEF DeleteAccepted, At, Origin
    <3>2. audio'[proc[p].call] = "deleted" /\ row' = row
      BY <2>4, <3>1, <1>t DEF DeleteAccepted, WellTyped
    <3>3. /\ proc'[p].call = proc[p].call
          /\ \A q \in Procs \ {p} : proc'[q] = proc[q]
      BY <2>4, <1>t DEF DeleteAccepted, Goes, WellTyped, Handlers
    <3> QED
      BY <3>1, <3>2, <3>3, <1>a DEF Retention, ErasureIsReal, Origin
  <2>5. CASE Erase(p)
    <3> DEFINE c == proc[p].call
    <3>1. c \in Calls /\ audio[c] = "deleted" /\ UNCHANGED audio
      BY <2>5 DEF Erase, At, Origin, Retention, world
    <3>2. /\ ~row'[c].url
          /\ \A d \in Calls \ {c} : row'[d] = row[d]
      BY <2>5, <3>1, <1>t DEF Erase, WellTyped, Rows
    <3>3. \A q \in Procs : proc'[q].at = "erase" => proc'[q] = proc[q]
      BY <2>5, <1>t DEF Erase, Done, Idle, WellTyped
    <3> QED
      BY <3>1, <3>2, <3>3 DEF Retention, ErasureIsReal
  <2> QED
    BY <1>6, <2>1, <2>2, <2>3, <2>4, <2>5 DEF Continue
<1>7. CASE Fault
  BY <1>7, <1>f DEF Fault, Idle, At
<1>8. CASE UNCHANGED vars
  BY <1>8, <1>f DEF vars
<1> QED
  BY <1>1, <1>2, <1>3, <1>4, <1>5, <1>6, <1>7, <1>8 DEF Next

(* A message reaches the owner, its answer heard or lost.                  *)
Sends(p) == SendAccepted(p) \/ SendUnheard(p)

(* What one step does to the words, the age and the owner's side of a      *)
(* call: words and ages only grow, nothing is unsaid, and only StampTold   *)
(* and an answer or its loss make a call told or heard.                    *)
LEMMA OwnersSide ==
  ASSUME TypeOK, Origin, [Next]_vars, NEW c \in Calls
  PROVE  /\ row[c].transcript => row'[c].transcript
         /\ age[c] > 0 => age'[c] > 0
         /\ heard[c] => heard'[c]
         /\ row'[c].told => \/ row[c].told
                            \/ \E p \in Procs : StampTold(p) /\ proc[p].call = c
         /\ heard'[c] => \/ heard[c]
                         \/ \E p \in Procs : Sends(p) /\ proc[p].call = c
<1> DEFINE Kept(d) ==
         /\ row[d].transcript => row'[d].transcript
         /\ row'[d].told => row[d].told
<1>t. WellTyped
  BY DEF TypeOK
<1>r. row[c] \in Rows /\ age[c] \in 0 .. 2
  BY <1>t DEF WellTyped
<1>1. CASE \E p \in Procs : StampTold(p)
  BY <1>1, <1>t DEF StampTold, At, Origin, WellTyped, Rows, world
<1>2. CASE \E p \in Procs : Sends(p)
  <2>1. CASE \E p \in Procs : SendAccepted(p)
    BY <2>1, <1>t DEF SendAccepted, Sends, WellTyped
  <2>2. CASE \E p \in Procs : SendUnheard(p)
    <3>1. PICK p \in Procs : SendUnheard(p)
      BY <2>2
    <3>2. heard' = [heard EXCEPT ![proc[p].call] = TRUE] /\ age' = age
      BY <3>1 DEF SendUnheard
    <3>3. Kept(c)
      BY <3>1, <1>t DEF SendUnheard, WellTyped, Rows
    <3> QED
      BY <3>1, <3>2, <3>3, <1>t DEF Sends, WellTyped
  <2> QED
    BY <1>2, <2>1, <2>2 DEF Sends
<1>3. CASE \E d \in Calls : Ages(d)
  BY <1>3, <1>t DEF Ages, WellTyped
<1>s. ASSUME Kept(c), age' = age, heard' = heard
      PROVE  /\ row[c].transcript => row'[c].transcript
             /\ age[c] > 0 => age'[c] > 0
             /\ heard[c] => heard'[c]
             /\ row'[c].told => row[c].told
             /\ heard'[c] => heard[c]
  BY <1>s
<1>4. CASE \E d \in Calls : Arrives(d)
  <2>1. ASSUME NEW d \in Calls, Arrives(d) PROVE Kept(c) /\ age' = age /\ heard' = heard
    <3>1. CASE \E outcome \in {"pending", "withheld", "blocked"} : IncomingCall(d, outcome)
      BY <3>1, <1>t DEF IncomingCall, WellTyped, Rows
    <3>2. CASE IncomingCallUnrecorded(d) \/ CallerFinishes(d)
      BY <3>2 DEF IncomingCallUnrecorded, CallerFinishes
    <3> QED
      BY <2>1, <3>1, <3>2 DEF Arrives
  <2> QED
    BY <1>4, <2>1, <1>s
<1>5. CASE \E k \in Clients : ConnectionChanges(k)
  BY <1>5, <1>s DEF ConnectionChanges
<1>6. CASE \E p \in Workers, d \in Calls : RecordingCallback(p, d)
  <2>1. PICK p \in Workers, d \in Calls : RecordingCallback(p, d)
    BY <1>6
  <2>2. row[d] \in Rows
    BY <1>t DEF WellTyped
  <2>3. Kept(c)
    BY <2>1, <2>2, <1>t, AttachSets DEF RecordingCallback, WellTyped
  <2> QED
    BY <2>1, <2>3, <1>s DEF RecordingCallback
<1>7. CASE \E t \in Ticks : TickStarts(t)
  BY <1>7, <1>s DEF TickStarts, TickTranscribes, TickTells, TickPurges, world
<1>8. ASSUME NEW p \in Procs, Continue(p), ~Sends(p), ~StampTold(p)
      PROVE  Kept(c) /\ age' = age /\ heard' = heard
  <2>1. CASE ReadForTranscript(p) \/ WhisperFails(p) \/ ReadForOwner(p)
             \/ DeleteAccepted(p) \/ DeleteRefused(p) \/ DeleteUnheard(p)
    BY <2>1 DEF ReadForTranscript, WhisperFails, ReadForOwner, DeleteAccepted,
                DeleteRefused, DeleteUnheard, world
  <2>2. CASE WhisperAnswers(p)
    BY <2>2, <1>t DEF WhisperAnswers, WellTyped, Rows
  <2>3. CASE SendRefused(p)
    BY <2>3, <1>t DEF SendRefused, WellTyped, Rows, world
  <2>4. CASE Erase(p)
    BY <2>4, <1>t DEF Erase, WellTyped, Rows, world
  <2> QED
    BY <1>8, <2>1, <2>2, <2>3, <2>4 DEF Continue, Sends
<1>9. CASE Fault
  BY <1>9, <1>s DEF Fault
<1>10. CASE UNCHANGED vars
  BY <1>10, <1>s DEF vars
<1> QED
  BY <1>1, <1>2, <1>3, <1>4, <1>5, <1>6, <1>7, <1>8, <1>9, <1>10, <1>s DEF Next

(* How a handler comes to be about to send, or about to stamp.             *)
LEMMA SendersMove ==
  ASSUME TypeOK, Origin, [Next]_vars, NEW p \in Procs, proc'[p].at \in {"send", "stamp"}
  PROVE  \/ proc'[p] = proc[p]
         \/ /\ ReadForOwner(p) /\ OwnerDue(proc[p].call)
            /\ proc'[p].at = "send" /\ proc'[p].call = proc[p].call
         \/ SendAccepted(p) /\ proc'[p].call = proc[p].call
<1>t. WellTyped
  BY DEF TypeOK
<1>1. ASSUME NEW w \in Workers, NEW c \in Calls, RecordingCallback(w, c)
      PROVE  proc'[p] = proc[p]
  BY <1>1, <1>t DEF RecordingCallback, Starts, WellTyped
<1>2. ASSUME NEW t \in Ticks, TickStarts(t) PROVE proc'[p] = proc[p]
  BY <1>2, <1>t
     DEF TickStarts, TickTranscribes, TickTells, TickPurges, Starts, WellTyped
<1>3. ASSUME NEW q \in Procs, Continue(q), q # p PROVE proc'[p] = proc[p]
  BY <1>3, <1>t
     DEF Continue, ReadForTranscript, WhisperFails, WhisperAnswers, ReadForOwner,
         SendAccepted, SendRefused, SendUnheard, StampTold, DeleteAccepted, DeleteRefused,
         DeleteUnheard, Erase, AfterTranscription, Goes, Done, WellTyped
<1>4. ASSUME Continue(p)
      PROVE  \/ /\ ReadForOwner(p) /\ OwnerDue(proc[p].call)
                /\ proc'[p].at = "send" /\ proc'[p].call = proc[p].call
             \/ SendAccepted(p) /\ proc'[p].call = proc[p].call
  <2>1. CASE ReadForOwner(p)
    BY <2>1, <1>t DEF ReadForOwner, Done, Idle, WellTyped, Handlers
  <2>2. CASE SendAccepted(p)
    BY <2>2, <1>t DEF SendAccepted, Goes, WellTyped, Handlers
  <2>3. CASE ReadForTranscript(p) \/ WhisperFails(p) \/ WhisperAnswers(p)
    BY <2>3, <1>t DEF ReadForTranscript, WhisperFails, WhisperAnswers, AfterTranscription,
                      Goes, Done, Idle, WellTyped, Handlers
  <2>4. CASE \/ SendRefused(p) \/ SendUnheard(p) \/ StampTold(p)
             \/ DeleteRefused(p) \/ DeleteUnheard(p) \/ Erase(p)
    BY <2>4, <1>t DEF SendRefused, SendUnheard, StampTold, DeleteRefused, DeleteUnheard,
                      Erase, Done, Idle, WellTyped
  <2>5. CASE DeleteAccepted(p)
    BY <2>5, <1>t DEF DeleteAccepted, Goes, WellTyped, Handlers
  <2> QED
    BY <1>4, <2>1, <2>2, <2>3, <2>4, <2>5 DEF Continue
<1>5. CASE Fault
  BY <1>5 DEF Fault, Idle
<1>6. CASE proc' = proc
  BY <1>6
<1> QED
  BY <1>1, <1>2, <1>3, <1>4, <1>5, <1>6
     DEF Next, vars, Arrives, IncomingCall, IncomingCallUnrecorded, CallerFinishes, Ages,
         ConnectionChanges

LEMMA TellingStep ==
  TypeOK /\ Origin /\ Telling /\ [Next]_vars => Telling'
<1> SUFFICES ASSUME TypeOK, Origin, Telling, [Next]_vars PROVE Telling'
  OBVIOUS
<1>t. WellTyped
  BY DEF TypeOK
<1>o. \A c \in Calls : row[c].outcome \in Finished => row'[c].outcome = row[c].outcome
  BY OutcomeStays DEF Finished
<1>w. \A c \in Calls : row[c].outcome \in Finished /\ Waited(c) => Waited(c)'
  BY <1>o, OwnersSide DEF Waited
<1>1. ASSUME NEW c \in Calls, row'[c].told PROVE heard'[c]
  <2>1. CASE row[c].told
    BY <2>1, OwnersSide DEF Telling, ToldMeansSent
  <2>2. CASE \E p \in Procs : StampTold(p) /\ proc[p].call = c
    BY <2>2, OwnersSide DEF StampTold, At, Telling
  <2> QED
    BY <1>1, <2>1, <2>2, OwnersSide
<1>2. ASSUME NEW c \in Calls, heard'[c] PROVE row'[c].outcome \in Finished /\ Waited(c)'
  <2>1. CASE heard[c]
    BY <2>1, <1>o, <1>w DEF Telling
  <2>2. CASE \E p \in Procs : Sends(p) /\ proc[p].call = c
    BY <2>2, <1>o, <1>w DEF Sends, SendAccepted, SendUnheard, At, Telling, Origin, Messaging
  <2> QED
    BY <1>2, <2>1, <2>2, OwnersSide
<1>3. ASSUME NEW p \in Procs, NEW c \in Calls,
             proc'[p].at \in {"send", "stamp"}, proc'[p].call = c
      PROVE  Waited(c)' /\ (proc'[p].at = "stamp" => heard'[c])
  <2>1. CASE proc'[p] = proc[p]
    <3>1. row[c].outcome \in Finished /\ Waited(c)
      BY <1>3, <2>1 DEF Origin, Messaging, Telling
    <3>2. proc'[p].at = "stamp" => heard'[c]
      BY <1>3, <2>1, OwnersSide DEF Telling
    <3> QED
      BY <3>1, <3>2, <1>w
  <2>2. CASE /\ ReadForOwner(p) /\ OwnerDue(proc[p].call)
             /\ proc'[p].at = "send" /\ proc'[p].call = proc[p].call
    <3>1. age[c] \in 0 .. 2 /\ row' = row /\ age' = age
      BY <2>2, <1>t DEF ReadForOwner, WellTyped, world
    <3>2. row[c].outcome = "recorded" => row[c].transcript \/ age[c] > 0
      BY <1>3, <2>2, <3>1 DEF OwnerDue, AwaitsTranscript
    <3> QED
      BY <2>2, <3>1, <3>2 DEF Waited
  <2>3. CASE SendAccepted(p) /\ proc'[p].call = proc[p].call
    <3>1. row[c].outcome \in Finished /\ Waited(c) /\ heard'[c]
      BY <1>3, <2>3, <1>t DEF SendAccepted, At, Origin, Messaging, Telling, WellTyped
    <3> QED
      BY <3>1, <1>w
  <2> QED
    BY <1>3, <2>1, <2>2, <2>3, SendersMove
<1>4. ASSUME NEW p \in Procs, proc'[p].at \in {"send", "stamp"} PROVE proc'[p].call \in Calls
  BY <1>4, SendersMove DEF Origin, ReadForOwner, SendAccepted, At
<1>5. \A p \in Procs : /\ proc'[p].at \in {"send", "stamp"} => Waited(proc[p].call)'
                       /\ proc'[p].at = "stamp" => heard'[proc'[p].call]
  BY <1>3, <1>4 DEF Waited
<1> QED
  BY <1>1, <1>2, <1>5 DEF Telling, ToldMeansSent

-----------------------------------------------------------------------------
LEMMA Inductive == Spec => []IInv
<1>1. Init => IInv
  BY TypeInit, HalvesInit DEF IInv
<1>2. IInv /\ [Next]_vars => IInv'
  BY TypeStep, LeadsStep, OriginStep, RetentionStep, TellingStep DEF IInv, TypeOK
<1> QED
  BY <1>1, <1>2, PTL DEF Spec

(* Rows, recordings, leads and handlers stay well formed, and a row knows  *)
(* of a lead exactly when the call has one.                                *)
THEOREM TypeCorrect == Spec => []TypeOK
<1>1. IInv => TypeOK
  BY DEF IInv
<1> QED
  BY <1>1, Inductive, PTL

(* A row stamped as purged has no audio left at Twilio (purgeExpired-      *)
(* Recordings, deleteTwilioRecording), with any number of overlapping      *)
(* ticks, redelivered callbacks and crashes.                               *)
THEOREM ErasureHolds == Spec => []ErasureIsReal
<1>1. IInv => ErasureIsReal
  BY DEF IInv, Retention
<1> QED
  BY <1>1, Inductive, PTL

(* notifyOwner only stamps a call as told when a message was accepted.     *)
THEOREM ToldWasSent == Spec => []ToldMeansSent
<1>1. IInv => ToldMeansSent
  BY DEF IInv, Telling
<1> QED
  BY <1>1, Inductive, PTL

(* notifyOwner waits for the words of a recorded call, or out the grace.   *)
THEOREM WordsAreWaitedFor == Spec => []OwnerWaitsForWords
<1>1. IInv => OwnerWaitsForWords
  BY DEF IInv, Telling, Waited, OwnerWaitsForWords
<1> QED
  BY <1>1, Inductive, PTL

(* attachRecording never turns a decided outcome into another.             *)
THEOREM OutcomesAreFinal == Spec => OutcomeIsFinal
<1>1. IInv /\ [Next]_vars =>
        [\A c \in Calls :
           row[c].outcome \notin {"none", "pending"} => row'[c].outcome = row[c].outcome]_row
  BY OutcomeStays DEF IInv
<1> QED
  BY <1>1, Inductive, PTL DEF Spec, OutcomeIsFinal

-----------------------------------------------------------------------------
(* The handlers that wait for Whisper with the leadId of call c unread.    *)
Unaware(c) == {p \in Procs : At(p, "whisper") /\ proc[p].call = c /\ ~proc[p].lead}

(* A call gets at most one lead for every handler there is: once it has    *)
(* one, only those that read the row before can add another.               *)
LeadsAreFew == \A c \in Calls : leads[c] <= Cardinality(Procs)
RoomForLeads ==
  \A c \in Calls : leads[c] = 0 \/ leads[c] + Cardinality(Unaware(c)) <= Cardinality(Procs)

(* No two handlers have a transcription of the same call at Whisper.       *)
OneScribe ==
  \A p, q \in Procs : At(p, "whisper") /\ At(q, "whisper") /\ p # q => proc[p].call # proc[q].call

Informed ==
  /\ OneLeadPerCall
  /\ \A p \in Procs : At(p, "whisper") /\ leads[proc[p].call] > 0 => proc[p].lead

(* A handler comes to Whisper with the leadId just read and no lead is     *)
(* created by that step; a lead is created by one that had read of none,   *)
(* and it leaves Whisper then.                                             *)
LEMMA ScribesMove ==
  ASSUME TypeOK, Origin, [Next]_vars
  PROVE  \/ /\ leads' = leads
            /\ \A p \in Procs : At(p, "whisper")' =>
                 \/ At(p, "whisper") /\ proc'[p] = proc[p]
                 \/ /\ proc'[p].call = proc[p].call /\ proc[p].call \in Calls
                    /\ proc'[p].lead = row[proc[p].call].lead
         \/ \E p \in Procs :
              /\ At(p, "whisper") /\ ~proc[p].lead /\ ~At(p, "whisper")'
              /\ proc[p].call \in Calls
              /\ leads' = [leads EXCEPT ![proc[p].call] = @ + 1]
              /\ \A q \in Procs \ {p} : proc'[q] = proc[q]
<1> USE DEF At, world
<1>t. proc \in [Procs -> Handlers]
  BY DEF TypeOK, WellTyped
<1> DEFINE Kept == /\ leads' = leads
                   /\ \A p \in Procs : proc'[p].at = "whisper" =>
                        \/ proc[p].at = "whisper" /\ proc'[p] = proc[p]
                        \/ /\ proc'[p].call = proc[p].call /\ proc[p].call \in Calls
                           /\ proc'[p].lead = row[proc[p].call].lead
<1>1. ASSUME NEW c \in Calls, Arrives(c) PROVE Kept
  BY <1>1 DEF Arrives, IncomingCall, IncomingCallUnrecorded, CallerFinishes
<1>2. ASSUME NEW c \in Calls, Ages(c) PROVE Kept
  BY <1>2 DEF Ages
<1>3. ASSUME NEW k \in Clients, ConnectionChanges(k) PROVE Kept
  BY <1>3 DEF ConnectionChanges
<1>4. ASSUME NEW p \in Workers, NEW c \in Calls, RecordingCallback(p, c) PROVE Kept
  BY <1>4, <1>t DEF RecordingCallback, Starts, Procs
<1>5. ASSUME NEW t \in Ticks, TickStarts(t) PROVE Kept
  BY <1>5, <1>t DEF TickStarts, TickTranscribes, TickTells, TickPurges, Starts, Procs
<1>6. ASSUME NEW p \in Procs, Continue(p), ~WhisperAnswers(p) PROVE Kept
  <2>1. CASE ReadForTranscript(p)
    <3>1. CASE proc' = [proc EXCEPT ![p].at = "whisper", ![p].lead = row[proc[p].call].lead]
      <4>1. proc[p].call \in Calls
        BY <2>1 DEF ReadForTranscript, Origin
      <4>2. \A q \in Procs \ {p} : proc'[q] = proc[q]
        BY <3>1, <1>t
      <4>3. proc'[p].call = proc[p].call /\ proc'[p].lead = row[proc[p].call].lead
        BY <3>1, <1>t DEF Handlers
      <4> QED
        BY <2>1, <4>1, <4>2, <4>3 DEF ReadForTranscript
    <3>2. CASE AfterTranscription(p)
      BY <2>1, <3>2, <1>t DEF ReadForTranscript, AfterTranscription, Goes, Done, Idle, Handlers
    <3> QED
      BY <2>1, <3>1, <3>2 DEF ReadForTranscript
  <2>2. CASE WhisperFails(p)
    BY <2>2, <1>t DEF WhisperFails, AfterTranscription, Goes, Done, Idle, Handlers
  <2>3. CASE ReadForOwner(p)
    BY <2>3, <1>t DEF ReadForOwner, Done, Idle, Handlers
  <2>4. CASE SendAccepted(p) \/ SendRefused(p) \/ SendUnheard(p) \/ StampTold(p)
    BY <2>4, <1>t DEF SendAccepted, SendRefused, SendUnheard, StampTold, Goes, Done, Idle,
                      Handlers
  <2>5. CASE DeleteAccepted(p) \/ DeleteRefused(p) \/ DeleteUnheard(p) \/ Erase(p)
    BY <2>5, <1>t DEF DeleteAccepted, DeleteRefused, DeleteUnheard, Erase, Goes, Done, Idle,
                      Handlers
  <2> QED
    BY <1>6, <2>1, <2>2, <2>3, <2>4, <2>5 DEF Continue
<1>7. ASSUME NEW p \in Procs, WhisperAnswers(p)
      PROVE  \/ Kept
             \/ /\ proc[p].at = "whisper" /\ ~proc[p].lead /\ proc'[p].at # "whisper"
                /\ proc[p].call \in Calls
                /\ leads' = [leads EXCEPT ![proc[p].call] = @ + 1]
                /\ \A q \in Procs \ {p} : proc'[q] = proc[q]
  <2> DEFINE newLead == ~proc[p].lead /\ row[proc[p].call].outcome # "withheld"
  <2>1. /\ proc[p].at = "whisper"
        /\ leads' = IF newLead THEN [leads EXCEPT ![proc[p].call] = @ + 1] ELSE leads
        /\ AfterTranscription(p)
    BY <1>7 DEF WhisperAnswers
  <2>2. proc[p].call \in Calls
    BY <2>1 DEF Origin
  <2>3. proc'[p].at # "whisper" /\ \A q \in Procs \ {p} : proc'[q] = proc[q]
    BY <2>1, <1>t DEF AfterTranscription, Goes, Done, Idle, Handlers
  <2> QED
    BY <2>1, <2>2, <2>3
<1>8. ASSUME Fault PROVE Kept
  <2>1. Idle.at # "whisper"
    BY DEF Idle
  <2>2. PICK lost \in {Procs} \cup {{p} : p \in Procs} :
          proc' = [p \in Procs |-> IF p \in lost THEN Idle ELSE proc[p]]
    BY <1>8 DEF Fault
  <2>3. \A p \in Procs : proc'[p] = Idle \/ proc'[p] = proc[p]
    BY <2>2
  <2>4. leads' = leads
    BY <1>8 DEF Fault
  <2> QED
    BY <2>1, <2>3, <2>4
<1>9. ASSUME UNCHANGED vars PROVE Kept
  BY <1>9 DEF vars
<1> HIDE DEF Kept
<1>10. Kept \/ \E p \in Procs : WhisperAnswers(p)
  BY <1>1, <1>2, <1>3, <1>4, <1>5, <1>6, <1>8, <1>9 DEF Next
<1> QED
  BY <1>7, <1>10 DEF Kept

LEMMA InformedStep == TypeOK /\ Origin /\ Informed /\ OneScribe /\ [Next]_vars => Informed'
<1> SUFFICES ASSUME TypeOK, Origin, Informed, OneScribe, [Next]_vars PROVE Informed'
  OBVIOUS
<1>t. leads \in [Calls -> Nat]
  BY DEF TypeOK, WellTyped
<1>1. CASE /\ leads' = leads
           /\ \A p \in Procs : At(p, "whisper")' =>
                \/ At(p, "whisper") /\ proc'[p] = proc[p]
                \/ /\ proc'[p].call = proc[p].call /\ proc[p].call \in Calls
                   /\ proc'[p].lead = row[proc[p].call].lead
  BY <1>1 DEF Informed, OneLeadPerCall, TypeOK, LeadsAreLinked
<1>2. ASSUME NEW p \in Procs,
             At(p, "whisper"), ~proc[p].lead, ~At(p, "whisper")',
             proc[p].call \in Calls,
             leads' = [leads EXCEPT ![proc[p].call] = @ + 1],
             \A q \in Procs \ {p} : proc'[q] = proc[q]
      PROVE  Informed'
  <2>1. leads[proc[p].call] = 0
    BY <1>t, <1>2 DEF Informed
  <2>2. OneLeadPerCall'
    BY <1>t, <1>2, <2>1 DEF Informed, OneLeadPerCall
  <2>3. ASSUME NEW q \in Procs, At(q, "whisper")', leads'[proc'[q].call] > 0
        PROVE  proc'[q].lead
    <3>1. q # p /\ proc'[q] = proc[q] /\ At(q, "whisper")
      BY <1>2, <2>3 DEF At
    <3>2. proc[q].call # proc[p].call
      BY <1>2, <3>1 DEF OneScribe
    <3>3. proc[q].call \in Calls
      BY <3>1 DEF Origin, At
    <3>4. leads'[proc[q].call] = leads[proc[q].call]
      BY <1>t, <1>2, <3>2, <3>3
    <3> QED
      BY <2>3, <3>1, <3>4 DEF Informed
  <2> QED
    BY <2>2, <2>3 DEF Informed
<1> QED
  BY <1>1, <1>2, ScribesMove

(* The race alone makes the second lead: as long as no two transcriptions  *)
(* of a call overlap, persistTranscription (recall-transcription.ts)       *)
(* creates at most one lead for it, through redeliveries, failed calls to  *)
(* Whisper, retries by the tick and restarts.                              *)
THEOREM OneLeadWhenAlone == Spec /\ []OneScribe => []OneLeadPerCall
<1>1. Init => Informed
  BY DEF Init, Idle, At, Informed, OneLeadPerCall
<1>2. IInv /\ OneScribe /\ Informed /\ [Next]_vars => Informed'
  BY InformedStep DEF IInv
<1>3. Informed => OneLeadPerCall
  BY DEF Informed
<1> QED
  BY <1>1, <1>2, <1>3, Inductive, PTL DEF Spec

(* However many transcriptions of a call overlap, it never gets more leads *)
(* than there are handlers.                                                *)
THEOREM LeadsAreBounded ==
  ASSUME IsFiniteSet(Procs)
  PROVE  Spec => []LeadsAreFew
<1>f. \A S \in SUBSET Procs : /\ IsFiniteSet(S) /\ Cardinality(S) \in Nat
                              /\ Cardinality(S) <= Cardinality(Procs)
  BY FS_Subset, FS_CardinalityType
<1>u. \A c \in Calls : Unaware(c) \subseteq Procs /\ Unaware(c)' \subseteq Procs
  BY DEF Unaware
<1>1. Init => RoomForLeads
  BY DEF Init, RoomForLeads
<1>2. IInv /\ RoomForLeads /\ [Next]_vars => RoomForLeads'
  <2> SUFFICES ASSUME TypeOK, Origin, RoomForLeads, [Next]_vars, NEW c \in Calls
               PROVE  leads'[c] = 0 \/ leads'[c] + Cardinality(Unaware(c)') <= Cardinality(Procs)
    BY DEF IInv, RoomForLeads
  <2>t. leads \in [Calls -> Nat]
    BY DEF TypeOK, WellTyped
  <2>n. /\ Cardinality(Unaware(c)) \in Nat /\ Cardinality(Unaware(c)') \in Nat
        /\ Cardinality(Procs) \in Nat
        /\ IsFiniteSet(Unaware(c))
        /\ Cardinality(Unaware(c)) <= Cardinality(Procs)
    BY <1>f, <1>u
  <2>s. Unaware(c)' \subseteq Unaware(c) => Cardinality(Unaware(c)') <= Cardinality(Unaware(c))
    BY <2>n, FS_Subset
  <2>1. CASE /\ leads' = leads
             /\ \A p \in Procs : At(p, "whisper")' =>
                  \/ At(p, "whisper") /\ proc'[p] = proc[p]
                  \/ /\ proc'[p].call = proc[p].call /\ proc[p].call \in Calls
                     /\ proc'[p].lead = row[proc[p].call].lead
    <3>1. leads[c] # 0 => Unaware(c)' \subseteq Unaware(c)
      BY <2>1, <2>t DEF Unaware, TypeOK, LeadsAreLinked
    <3> QED
      BY <2>1, <2>t, <2>n, <2>s, <3>1 DEF RoomForLeads
  <2>2. ASSUME NEW p \in Procs,
               At(p, "whisper"), ~proc[p].lead, ~At(p, "whisper")',
               proc[p].call \in Calls,
               leads' = [leads EXCEPT ![proc[p].call] = @ + 1],
               \A q \in Procs \ {p} : proc'[q] = proc[q]
        PROVE  leads'[c] = 0 \/ leads'[c] + Cardinality(Unaware(c)') <= Cardinality(Procs)
    <3>1. Unaware(c)' \subseteq Unaware(c) \ {p}
      BY <2>2 DEF Unaware, At
    <3>2. CASE proc[p].call = c
      <4>1. p \in Unaware(c)
        BY <2>2, <3>2 DEF Unaware
      <4>2. Cardinality(Unaware(c) \ {p}) = Cardinality(Unaware(c)) - 1
        BY <2>n, <4>1, FS_RemoveElement
      <4>3. IsFiniteSet(Unaware(c) \ {p})
        BY <1>f, <1>u
      <4>4. Cardinality(Unaware(c)') <= Cardinality(Unaware(c)) - 1
        BY <3>1, <4>2, <4>3, FS_Subset
      <4>5. leads'[c] = leads[c] + 1 /\ leads[c] \in Nat
        BY <2>2, <2>t, <3>2
      <4>6. leads[c] = 0 \/ leads[c] + Cardinality(Unaware(c)) <= Cardinality(Procs)
        BY DEF RoomForLeads
      <4> QED
        BY <2>n, <4>4, <4>5, <4>6
    <3>3. CASE proc[p].call # c
      <4>1. leads'[c] = leads[c] /\ leads[c] \in Nat
        BY <2>2, <2>t, <3>3
      <4>2. Cardinality(Unaware(c)') <= Cardinality(Unaware(c))
        BY <2>s, <3>1
      <4> QED
        BY <2>n, <4>1, <4>2 DEF RoomForLeads
    <3> QED
      BY <3>2, <3>3
  <2> QED
    BY <2>1, <2>2, ScribesMove
<1>3. IInv /\ RoomForLeads => LeadsAreFew
  <2> SUFFICES ASSUME TypeOK, RoomForLeads, NEW c \in Calls
               PROVE  leads[c] <= Cardinality(Procs)
    BY DEF IInv, LeadsAreFew
  <2>1. leads[c] \in Nat /\ Cardinality(Unaware(c)) \in Nat /\ Cardinality(Procs) \in Nat
    BY <1>f, <1>u DEF TypeOK, WellTyped
  <2> QED
    BY <2>1 DEF RoomForLeads
<1> QED
  BY <1>1, <1>2, <1>3, Inductive, PTL DEF Spec
=============================================================================
