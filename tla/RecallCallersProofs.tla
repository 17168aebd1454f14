------------------------ MODULE RecallCallersProofs ------------------------
(***************************************************************************)
(* Proofs about RecallCallers, for any number of calls, overlapping ticks  *)
(* and desks, any limits and any number of faults.                         *)
(*                                                                         *)
(* The inductive invariant adds to TypeOK what a handler carries at each   *)
(* station, and between a send and its stamp the message it stands for.    *)
(***************************************************************************)
EXTENDS RecallCallers, FiniteSetTheorems, TLAPS

Refusals == {"unreachable", "blocked", "throttled"}

(* A handler at work has a call, and one that refuses has a reason.        *)
Carries ==
  \A t \in Ticks : /\ proc[t].at # "idle" => proc[t].call \in Calls
                   /\ proc[t].at = "refuse" => proc[t].verdict \in Refusals

(* Behind each handler that is to record a message there is the message.   *)
Backed ==
  \A t \in Ticks :
    /\ proc[t].at \in {"evidence", "record"} => ever[proc[t].call] > 0
    /\ proc[t].at = "evidence" => noticed[proc[t].call]
    /\ proc[t].at = "record" /\ proc[t].notice => noticed[proc[t].call]

Evidence == EvidenceIsTrue /\ Backed

IInv == TypeOK /\ Carries /\ Evidence

-----------------------------------------------------------------------------
LEMMA HandlerMoves ==
  ASSUME WellTyped, NEW t \in Ticks, NEW station \in Stations, NEW verdict \in Channels
  PROVE  /\ Goes(t, station) => proc' \in [Ticks -> Handlers]
         /\ Done(t) => proc' \in [Ticks -> Handlers]
         /\ Refuses(t, verdict) => proc' \in [Ticks -> Handlers]
<1>1. Idle \in Handlers
  BY DEF Idle, Handlers, Stations, Channels
<1>2. [proc[t] EXCEPT !.at = station] \in Handlers
  BY DEF WellTyped, Handlers
<1>3. [proc[t] EXCEPT !.at = "refuse", !.verdict = verdict] \in Handlers
  BY DEF WellTyped, Handlers, Stations
<1> QED
  BY <1>1, <1>2, <1>3 DEF WellTyped, Goes, Done, Refuses

(* Where a handler that moves ends up; the others stay.                    *)
LEMMA OthersStay ==
  ASSUME WellTyped, NEW t \in Ticks, NEW station, NEW verdict
  PROVE  /\ Goes(t, station) => proc'[t] = [proc[t] EXCEPT !.at = station]
         /\ Done(t) => proc'[t] = Idle
         /\ Refuses(t, verdict) =>
              proc'[t] = [proc[t] EXCEPT !.at = "refuse", !.verdict = verdict]
         /\ Goes(t, station) \/ Done(t) \/ Refuses(t, verdict) =>
              \A u \in Ticks \ {t} : proc'[u] = proc[u]
BY DEF WellTyped, Goes, Done, Refuses

LEMMA Bounds == MaxFaults \in Nat /\ MaxTries \in Nat /\ CallCount \in Nat
BY CountsAreNat

LEMMA UnderWayIsNat ==
  ASSUME NEW c \in Calls
  PROVE  UnderWay(c) \in Nat
<1> DEFINE W == {t \in Ticks : proc[t].at \in {"throttle", "send", "sms"} /\ proc[t].call = c}
<1>1. IsFiniteSet(W)
  BY TicksAreFinite, FS_Subset
<1>2. Cardinality(W) \in Nat
  BY <1>1, FS_CardinalityType
<1> QED
  BY <1>2 DEF UnderWay

-----------------------------------------------------------------------------
LEMMA InitIInv == Init => IInv
<1> SUFFICES ASSUME Init PROVE IInv
  OBVIOUS
<1> USE DEF Init, Absent, Idle
<1>1. WellTyped
  <2>1. row \in [Calls -> Rows]
    BY DEF Rows, Channels
  <2>2. proc \in [Ticks -> Handlers]
    BY DEF Handlers, Channels, Stations
  <2>3. block \in {"none", "owner", "opt_out"} /\ basis \in Calls \cup {NoCall}
    OBVIOUS
  <2>4. active \in BOOLEAN /\ linked \in BOOLEAN /\ asked \in BOOLEAN
    OBVIOUS
  <2>5. /\ today \in [Calls -> Nat] /\ ever \in [Calls -> Nat]
        /\ unheard \in [Calls -> Nat] /\ excused \in [Calls -> Nat]
    OBVIOUS
  <2>6. noticed \in [Calls -> BOOLEAN] /\ desk \in [Desks -> {"idle", "delete"}]
    OBVIOUS
  <2>7. faults \in 0 .. MaxFaults
    BY Bounds
  <2> QED
    BY ONLY <2>1, <2>2, <2>3, <2>4, <2>5, <2>6, <2>7 DEF WellTyped
<1>2. MessagedIsDated
  BY DEF MessagedIsDated
<1>3. Carries
  BY DEF Carries
<1>4. Evidence
  BY DEF Evidence, EvidenceIsTrue, BasisIsTrue, StampsAreTrue, Backed, NoCall
<1> QED
  BY <1>1, <1>2, <1>3, <1>4 DEF IInv, TypeOK

(* Each action keeps every variable of its type.                           *)
LEMMA TypeStep == WellTyped /\ Carries /\ [Next]_vars => WellTyped'
<1> SUFFICES ASSUME WellTyped, Carries, [Next]_vars PROVE WellTyped'
  OBVIOUS
<1> USE Bounds DEF service, ghosts, person
<1>1. ASSUME NEW c \in Calls,
             CallIsFinished(c) \/ CallSlipsPast(c) \/ CallIsDue(c) \/ DayPasses(c)
      PROVE  WellTyped'
  <2>r. /\ row[c] \in Rows
        /\ \A r \in Rows : row' = [row EXCEPT ![c] = r] => row' \in [Calls -> Rows]
    BY <1>1 DEF WellTyped
  <2>1. CASE CallIsFinished(c)
    <3>1. row' \in [Calls -> Rows]
      BY <2>1, <2>r DEF CallIsFinished, Rows
    <3> QED
      BY <2>1, <3>1 DEF CallIsFinished, WellTyped
  <2>2. CASE CallSlipsPast(c)
    <3>1. row' \in [Calls -> Rows]
      BY <2>2, <2>r DEF CallSlipsPast, Rows
    <3> QED
      BY <2>2, <3>1 DEF CallSlipsPast, WellTyped
  <2>3. CASE CallIsDue(c)
    <3>1. row' \in [Calls -> Rows]
      BY <2>3, <2>r DEF CallIsDue, Rows
    <3> QED
      BY <2>3, <3>1 DEF CallIsDue, WellTyped
  <2>4. CASE DayPasses(c)
    <3>1. row' \in [Calls -> Rows]
      BY <2>4, <2>r DEF DayPasses, Rows
    <3>2. today' \in [Calls -> Nat]
      BY <2>4 DEF DayPasses, WellTyped
    <3> QED
      BY <2>4, <3>1, <3>2 DEF DayPasses, WellTyped
  <2> QED
    BY <1>1, <2>1, <2>2, <2>3, <2>4
<1>2. CASE ServiceChanges
  BY <1>2 DEF ServiceChanges, WellTyped
<1>3. CASE AsksToStop
  <2>1. \A c \in Calls : ever[c] + UnderWay(c) \in Nat
    BY UnderWayIsNat DEF WellTyped
  <2>2. excused' \in [Calls -> Nat]
    BY <1>3, <2>1 DEF AsksToStop, WellTyped
  <2> QED
    BY <1>3, <2>2 DEF AsksToStop, WellTyped
<1>4. CASE BlockNumber
  BY <1>4 DEF BlockNumber, WellTyped
<1>5. ASSUME NEW d \in Desks, BeginUnblock(d) \/ FinishUnblock(d) PROVE WellTyped'
  BY <1>5 DEF BeginUnblock, FinishUnblock, WellTyped
<1>6. ASSUME NEW t \in Ticks, NEW c \in Calls, TickPicks(t, c) PROVE WellTyped'
  <2>1. [Idle EXCEPT !.at = "read", !.call = c] \in Handlers
    BY DEF Idle, Handlers, Stations, Channels
  <2> QED
    BY <1>6, <2>1 DEF TickPicks, WellTyped
<1>7. ASSUME NEW t \in Ticks, Continue(t) PROVE WellTyped'
  <2>c. proc[t].at # "idle" => proc[t].call \in Calls
    BY DEF Carries
  <2>t. proc[t].tries + 1 \in Nat /\ proc[t].verdict \in Channels /\ proc[t].notice \in BOOLEAN
    BY DEF WellTyped, Handlers
  <2>m. /\ \A station \in Stations : Goes(t, station) => proc' \in [Ticks -> Handlers]
        /\ Done(t) => proc' \in [Ticks -> Handlers]
        /\ \A verdict \in Channels : Refuses(t, verdict) => proc' \in [Ticks -> Handlers]
    BY HandlerMoves DEF Stations, Channels
  <2>1. CASE ReadForCaller(t)
    <3> DEFINE r == row[proc[t].call]
               station == IF active THEN "block" ELSE "refuse"
               verdict == IF active THEN "undecided" ELSE "unreachable"
    <3>1. r.tries \in Nat
      BY <2>1, <2>c DEF ReadForCaller, At, WellTyped, Rows
    <3>2. station \in Stations /\ verdict \in Channels
      BY DEF Stations, Channels
    <3>3. [proc[t] EXCEPT !.at = station, !.verdict = verdict,
                          !.tries = r.tries, !.linked = linked] \in Handlers
      <4> HIDE DEF station, verdict, r
      <4> QED
        BY <3>1, <3>2 DEF WellTyped, Handlers
    <3>4. \/ Done(t)
          \/ proc' = [proc EXCEPT ![t].at = station, ![t].verdict = verdict,
                                  ![t].tries = r.tries, ![t].linked = linked]
      BY <2>1 DEF ReadForCaller
    <3>5. proc' \in [Ticks -> Handlers]
      <4> HIDE DEF station, verdict, r
      <4> QED
        BY <2>m, <3>3, <3>4 DEF WellTyped
    <3> QED
      BY <2>1, <3>5 DEF ReadForCaller, WellTyped
  <2>2. CASE CheckBlock(t)
    BY <2>2, <2>m DEF CheckBlock, WellTyped, Stations, Channels
  <2>3. CASE CheckThrottle(t)
    BY <2>3, <2>m DEF CheckThrottle, WellTyped, Stations, Channels
  <2>4. ASSUME NEW channel \in {"whatsapp", "sms"}, NEW carries \in BOOLEAN,
               NEW claims \in BOOLEAN, Accepted(t, channel, carries, claims),
               proc[t].at # "idle"
        PROVE  WellTyped'
    <3> DEFINE station == IF claims THEN "evidence" ELSE "record"
    <3>1. [proc[t] EXCEPT !.at = station, !.notice = claims, !.verdict = channel] \in Handlers
      BY DEF WellTyped, Handlers, Stations, Channels
    <3>2. proc' \in [Ticks -> Handlers]
      BY <2>4, <3>1 DEF Accepted, WellTyped
    <3> QED
      BY <2>4, <2>c, <3>2 DEF Accepted, WellTyped
  <2>5. CASE WhatsAppAccepted(t) \/ SmsAccepted(t)
    BY <2>4, <2>5 DEF WhatsAppAccepted, SmsAccepted, At
  <2>6. CASE WhatsAppUndeliverable(t)
    BY <2>6, <2>m DEF WhatsAppUndeliverable, WellTyped, Stations
  <2>7. ASSUME NEW permanent \in BOOLEAN, FinishCallerFailure(t, permanent)
        PROVE  row' \in [Calls -> Rows] /\ proc' \in [Ticks -> Handlers]
    <3> DEFINE c == proc[t].call
               attempts == proc[t].tries + 1
               channel == IF permanent \/ attempts >= MaxTries
                            THEN "unreachable" ELSE row[c].channel
    <3>1. row' = [row EXCEPT ![c].tries = attempts, ![c].channel = channel]
      BY <2>7 DEF FinishCallerFailure
    <3>2. ASSUME c \in Calls
          PROVE  [row[c] EXCEPT !.tries = attempts, !.channel = channel] \in Rows
      <4>1. row[c] \in Rows
        BY <3>2 DEF WellTyped
      <4>2. channel \in Channels
        BY <4>1 DEF Rows, Channels
      <4> HIDE DEF channel, c
      <4> QED
        BY <4>1, <4>2, <2>t DEF Rows
    <3>3. row' \in [Calls -> Rows]
      <4> HIDE DEF channel, attempts, c
      <4> QED
        BY <3>1, <3>2 DEF WellTyped
    <3> QED
      BY <2>7, <2>m, <3>3 DEF FinishCallerFailure
  <2>8. CASE WhatsAppFails(t) \/ SmsFails(t)
    <3>1. row' \in [Calls -> Rows] /\ proc' \in [Ticks -> Handlers]
      BY <2>7, <2>8 DEF WhatsAppFails, SmsFails
    <3> QED
      BY <2>8, <3>1 DEF WhatsAppFails, SmsFails, FinishCallerFailure, WellTyped
  <2>13. CASE WhatsAppUnheard(t) \/ SmsUnheard(t)
    <3>1. row' \in [Calls -> Rows] /\ proc' \in [Ticks -> Handlers]
      BY <2>7, <2>13 DEF WhatsAppUnheard, SmsUnheard
    <3>2. \E carries \in BOOLEAN : Unheard(proc[t].call, carries)
      BY <2>13 DEF WhatsAppUnheard, SmsUnheard
    <3>3. ever' \in [Calls -> Nat] /\ unheard' \in [Calls -> Nat] /\ today' = today
      <4> DEFINE c == proc[t].call
      <4>1. c \in Calls
        BY <2>13, <2>c DEF WhatsAppUnheard, SmsUnheard, At
      <4>2. /\ ever' = [ever EXCEPT ![c] = @ + 1] /\ unheard' = [unheard EXCEPT ![c] = @ + 1]
            /\ today' = today
        BY <3>2 DEF Unheard
      <4> HIDE DEF c
      <4> QED
        BY <4>1, <4>2 DEF WellTyped
    <3>4. noticed' \in [Calls -> BOOLEAN]
      <4> DEFINE c == proc[t].call
      <4>1. PICK carries \in BOOLEAN : noticed' = [noticed EXCEPT ![c] = @ \/ carries]
        BY <3>2 DEF Unheard
      <4> HIDE DEF c
      <4> QED
        BY <4>1 DEF WellTyped
    <3> QED
      BY <2>13, <3>1, <3>3, <3>4 DEF WhatsAppUnheard, SmsUnheard, FinishCallerFailure, WellTyped
  <2>9. CASE RecordLegalBasis(t)
    BY <2>9, <2>c, <2>m DEF RecordLegalBasis, WellTyped, Stations, At
  <2>10. CASE LegalBasisFails(t)
    BY <2>10, <2>m DEF LegalBasisFails, WellTyped, Stations
  <2>11. CASE ResolveSent(t)
    <3> DEFINE c == proc[t].call
               notice == row[c].notice \/ proc[t].notice
               stamped == [row[c] EXCEPT !.channel = proc[t].verdict, !.sent = "recent",
                                         !.notice = notice]
    <3>1. c \in Calls
      BY <2>11, <2>c DEF ResolveSent, At
    <3>2. stamped \in Rows
      <4>1. notice \in BOOLEAN /\ row[c] \in Rows
        BY <3>1 DEF WellTyped
      <4> HIDE DEF notice, c
      <4> QED
        BY <4>1, <2>t DEF Rows
    <3>3. row' = [row EXCEPT ![c] = stamped]
      BY <2>11, <3>1 DEF ResolveSent, WellTyped
    <3>4. row' \in [Calls -> Rows]
      <4> HIDE DEF stamped
      <4> QED
        BY <3>2, <3>3 DEF WellTyped
    <3> QED
      BY <2>11, <2>m, <3>4 DEF ResolveSent, WellTyped
  <2>12. CASE ResolveRefused(t)
    <3>1. row' \in [Calls -> Rows]
      BY <2>12, <2>t DEF ResolveRefused, WellTyped, Rows
    <3> QED
      BY <2>12, <2>m, <3>1 DEF ResolveRefused, WellTyped
  <2> QED
    BY <1>7, <2>1, <2>2, <2>3, <2>5, <2>6, <2>8, <2>9, <2>10, <2>11, <2>12, <2>13
       DEF Continue
<1>8. CASE Fault
  <2>1. Idle \in Handlers
    BY DEF Idle, Handlers, Stations, Channels
  <2>2. proc' \in [Ticks -> Handlers]
    BY <1>8, <2>1 DEF Fault, WellTyped
  <2> QED
    BY <1>8, <2>2 DEF Fault, WellTyped
<1>9. CASE UNCHANGED vars
  BY <1>9 DEF vars, WellTyped
<1> QED
  BY <1>1, <1>2, <1>3, <1>4, <1>5, <1>6, <1>7, <1>8, <1>9 DEF Next

-----------------------------------------------------------------------------
(* Actions of the calls, the clients and the people; no handler moves.     *)
Outside ==
  \/ \E c \in Calls : CallIsFinished(c) \/ CallSlipsPast(c) \/ CallIsDue(c) \/ DayPasses(c)
  \/ ServiceChanges \/ AsksToStop \/ BlockNumber
  \/ \E d \in Desks : BeginUnblock(d) \/ FinishUnblock(d)

LEMMA OutsideLeavesHandlers ==
  Outside => UNCHANGED <<proc, ever, unheard, noticed, basis>>
BY DEF Outside, CallIsFinished, CallSlipsPast, CallIsDue, DayPasses, ServiceChanges,
       AsksToStop, BlockNumber, BeginUnblock, FinishUnblock, ghosts, service, person

LEMMA NextSplits ==
  [Next]_vars <=> \/ Outside
                  \/ \E t \in Ticks, c \in Calls : TickPicks(t, c)
                  \/ \E t \in Ticks : Continue(t)
                  \/ Fault
                  \/ UNCHANGED vars
BY DEF Next, Outside

(* A message's outcome and its date are written together.                  *)
LEMMA DatedStep ==
  WellTyped /\ MessagedIsDated /\ Carries /\ [Next]_vars => MessagedIsDated'
<1> SUFFICES ASSUME WellTyped, MessagedIsDated, Carries, [Next]_vars PROVE MessagedIsDated'
  OBVIOUS
<1> USE DEF MessagedIsDated, service, ghosts, person
<1>1. CASE Outside
  <2>1. ASSUME NEW c \in Calls, CallIsFinished(c) \/ CallSlipsPast(c) \/ CallIsDue(c)
        PROVE  MessagedIsDated'
    <3>1. \E stage : row' = [row EXCEPT ![c].stage = stage]
      BY <2>1 DEF CallIsFinished, CallSlipsPast, CallIsDue
    <3>2. \A d \in Calls : row'[d].channel = row[d].channel /\ row'[d].sent = row[d].sent
      BY <3>1 DEF WellTyped, Rows
    <3> QED
      BY <3>2
  <2>2. ASSUME NEW c \in Calls, DayPasses(c) PROVE MessagedIsDated'
    BY <2>2 DEF DayPasses, WellTyped, Rows
  <2>3. CASE ServiceChanges \/ AsksToStop \/ BlockNumber
    BY <2>3 DEF ServiceChanges, AsksToStop, BlockNumber
  <2>4. ASSUME NEW d \in Desks, BeginUnblock(d) \/ FinishUnblock(d) PROVE MessagedIsDated'
    BY <2>4 DEF BeginUnblock, FinishUnblock
  <2> QED
    BY <1>1, <2>1, <2>2, <2>3, <2>4 DEF Outside
<1>2. ASSUME NEW t \in Ticks, NEW c \in Calls, TickPicks(t, c) PROVE MessagedIsDated'
  BY <1>2 DEF TickPicks
<1>3. ASSUME NEW t \in Ticks, Continue(t) PROVE MessagedIsDated'
  <2> DEFINE c == proc[t].call
  <2>1. CASE UNCHANGED row
    BY <2>1
  <2>2. ASSUME NEW permanent \in BOOLEAN, FinishCallerFailure(t, permanent)
        PROVE  MessagedIsDated'
    BY <2>2 DEF FinishCallerFailure, WellTyped, Rows
  <2>3. CASE ResolveSent(t)
    <3>1. \A d \in Calls : row'[d].sent = row[d].sent \/ row'[d].sent = "recent"
      BY <2>3 DEF ResolveSent, WellTyped, Rows
    <3>2. \A d \in Calls : d # c => row'[d] = row[d]
      BY <2>3 DEF ResolveSent, WellTyped
    <3>3. c \in Calls => row'[c].sent = "recent"
      BY <2>3 DEF ResolveSent, WellTyped, Rows
    <3> HIDE DEF c
    <3> QED
      BY <3>2, <3>3
  <2>4. CASE ResolveRefused(t)
    <3>1. proc[t].verdict \in Refusals
      BY <2>4 DEF ResolveRefused, At, Carries
    <3>2. \A d \in Calls : d # c => row'[d] = row[d]
      BY <2>4 DEF ResolveRefused, WellTyped
    <3>3. c \in Calls => row'[c].channel = proc[t].verdict
      BY <2>4 DEF ResolveRefused, WellTyped, Rows
    <3> HIDE DEF c
    <3> QED
      BY <3>1, <3>2, <3>3 DEF Refusals
  <2>5. \/ UNCHANGED row \/ ResolveSent(t) \/ ResolveRefused(t)
        \/ \E permanent \in BOOLEAN : FinishCallerFailure(t, permanent)
    BY <1>3 DEF Continue, ReadForCaller, CheckBlock, CheckThrottle, WhatsAppAccepted,
                SmsAccepted, Accepted, WhatsAppUndeliverable, WhatsAppFails, SmsFails,
                WhatsAppUnheard, SmsUnheard,
                RecordLegalBasis, LegalBasisFails
  <2> QED
    BY <2>1, <2>2, <2>3, <2>4, <2>5
<1>4. CASE Fault \/ UNCHANGED vars
  BY <1>4 DEF Fault, vars
<1> QED
  BY <1>1, <1>2, <1>3, <1>4, NextSplits

(* How a handler moves: on with the same call, or off to idle.             *)
LEMMA HandlerKeepsCall ==
  ASSUME WellTyped, NEW t \in Ticks, Continue(t)
  PROVE  /\ proc[t].at # "idle"
         /\ proc'[t] = Idle \/ proc'[t].call = proc[t].call
         /\ \A u \in Ticks \ {t} : proc'[u] = proc[u]
         /\ proc'[t].at = "refuse" => proc'[t].verdict \in Refusals
<1> USE DEF WellTyped, Handlers, At, Goes, Done, Refuses
<1>i. Idle.at = "idle"
  BY DEF Idle
<1>1. CASE ReadForCaller(t)
  <2>1. CASE Done(t)
    BY <1>1, <1>i, <2>1 DEF ReadForCaller
  <2>2. CASE active /\ ~Done(t)
    BY <1>1, <2>2 DEF ReadForCaller
  <2>3. CASE ~active /\ ~Done(t)
    BY <1>1, <2>3 DEF ReadForCaller, Refusals
  <2> QED
    BY <2>1, <2>2, <2>3
<1>2. CASE CheckBlock(t)
  BY <1>2 DEF CheckBlock, Refusals
<1>3. CASE CheckThrottle(t)
  BY <1>3 DEF CheckThrottle, Refusals
<1>4. CASE WhatsAppAccepted(t) \/ SmsAccepted(t)
  <2>1. ASSUME NEW channel, NEW carries \in BOOLEAN, NEW claims \in BOOLEAN,
               Accepted(t, channel, carries, claims), proc[t].at # "idle"
        PROVE  /\ proc'[t].call = proc[t].call
               /\ \A u \in Ticks \ {t} : proc'[u] = proc[u]
               /\ proc'[t].at # "refuse"
    <3> DEFINE station == IF claims THEN "evidence" ELSE "record"
    <3>1. station # "refuse"
      OBVIOUS
    <3>2. proc' = [proc EXCEPT ![t].at = station, ![t].notice = claims, ![t].verdict = channel]
      BY <2>1 DEF Accepted
    <3> HIDE DEF station
    <3> QED
      BY <3>1, <3>2
  <2>2. proc[t].at # "idle"
    BY <1>4 DEF WhatsAppAccepted, SmsAccepted
  <2>3. \E channel : \E carries, claims \in BOOLEAN : Accepted(t, channel, carries, claims)
    BY <1>4 DEF WhatsAppAccepted, SmsAccepted
  <2> QED
    BY <2>1, <2>2, <2>3
<1>5. CASE WhatsAppUndeliverable(t)
  BY <1>5 DEF WhatsAppUndeliverable
<1>6. CASE WhatsAppFails(t) \/ SmsFails(t) \/ WhatsAppUnheard(t) \/ SmsUnheard(t)
  BY <1>6, <1>i DEF WhatsAppFails, SmsFails, WhatsAppUnheard, SmsUnheard,
                    FinishCallerFailure
<1>7. CASE RecordLegalBasis(t) \/ LegalBasisFails(t)
  BY <1>7 DEF RecordLegalBasis, LegalBasisFails
<1>8. CASE ResolveSent(t) \/ ResolveRefused(t)
  BY <1>8, <1>i DEF ResolveSent, ResolveRefused
<1> QED
  BY <1>1, <1>2, <1>3, <1>4, <1>5, <1>6, <1>7, <1>8 DEF Continue

LEMMA CarriesStep == WellTyped /\ Carries /\ [Next]_vars => Carries'
<1> SUFFICES ASSUME WellTyped, Carries, [Next]_vars PROVE Carries'
  OBVIOUS
<1>1. CASE Outside
  BY <1>1, OutsideLeavesHandlers DEF Carries
<1>2. ASSUME NEW t \in Ticks, NEW c \in Calls, TickPicks(t, c) PROVE Carries'
  BY <1>2 DEF TickPicks, Carries, WellTyped, Idle
<1>3. ASSUME NEW t \in Ticks, Continue(t) PROVE Carries'
  BY <1>3, HandlerKeepsCall DEF Carries, Idle
<1>4. CASE Fault
  BY <1>4 DEF Fault, Carries, Idle
<1>5. CASE UNCHANGED vars
  BY <1>5 DEF vars, Carries
<1> QED
  BY <1>1, <1>2, <1>3, <1>4, <1>5, NextSplits

-----------------------------------------------------------------------------
(* What has been received stays received.                                  *)
LEMMA MessagesStay ==
  WellTyped /\ Carries /\ [Next]_vars =>
    \A c \in Calls : ever'[c] >= ever[c] /\ (noticed[c] => noticed'[c])
<1> SUFFICES ASSUME WellTyped, Carries, [Next]_vars
             PROVE  \A c \in Calls : ever'[c] >= ever[c] /\ (noticed[c] => noticed'[c])
  OBVIOUS
<1>t. \A c \in Calls : ever[c] \in Nat
  BY DEF WellTyped
<1>1. CASE UNCHANGED <<ever, noticed>>
  BY <1>1, <1>t
<1>2. ASSUME NEW t \in Ticks, NEW channel, NEW carries \in BOOLEAN, NEW claims \in BOOLEAN,
             Accepted(t, channel, carries, claims)
      PROVE  \A c \in Calls : ever'[c] >= ever[c] /\ (noticed[c] => noticed'[c])
  <2>1. \A c \in Calls : ever'[c] = ever[c] \/ ever'[c] = ever[c] + 1
    BY <1>2 DEF Accepted, WellTyped
  <2>2. \A c \in Calls : noticed[c] => noticed'[c]
    BY <1>2 DEF Accepted, WellTyped
  <2> QED
    BY <1>t, <2>1, <2>2
<1>5. ASSUME NEW c \in Calls, NEW carries \in BOOLEAN, Unheard(c, carries)
      PROVE  \A d \in Calls : ever'[d] >= ever[d] /\ (noticed[d] => noticed'[d])
  <2>1. \A d \in Calls : ever'[d] = ever[d] \/ ever'[d] = ever[d] + 1
    BY <1>5 DEF Unheard, WellTyped
  <2>2. \A d \in Calls : noticed[d] => noticed'[d]
    BY <1>5 DEF Unheard, WellTyped
  <2> QED
    BY <1>t, <2>1, <2>2
<1>3. ASSUME NEW t \in Ticks, Continue(t)
      PROVE  \/ UNCHANGED <<ever, noticed>>
             \/ \E carries \in BOOLEAN : Unheard(proc[t].call, carries)
             \/ \E channel : \E carries, claims \in BOOLEAN :
                  Accepted(t, channel, carries, claims)
  BY <1>3 DEF Continue, ReadForCaller, CheckBlock, CheckThrottle, WhatsAppAccepted,
              SmsAccepted, WhatsAppUndeliverable, WhatsAppFails, SmsFails,
              WhatsAppUnheard, SmsUnheard,
              FinishCallerFailure, RecordLegalBasis, LegalBasisFails, ResolveSent,
              ResolveRefused, ghosts
<1>4. CASE Outside \/ (\E t \in Ticks, c \in Calls : TickPicks(t, c)) \/ Fault \/ UNCHANGED vars
  BY <1>1, <1>4, OutsideLeavesHandlers DEF TickPicks, Fault, vars, ghosts
<1>6. \A t \in Ticks : Continue(t) => proc[t].call \in Calls
  BY HandlerKeepsCall DEF Carries
<1> QED
  BY <1>1, <1>2, <1>3, <1>4, <1>5, <1>6, NextSplits

(* Only a recorded message touches a row's date or notice, but for the     *)
(* date's growing old.                                                     *)
Stamps ==
  \A c \in Calls : /\ row'[c].notice = row[c].notice
                   /\ row'[c].sent = "no" <=> row[c].sent = "no"

LEMMA OutsideStamps == WellTyped /\ Outside => Stamps
<1> SUFFICES ASSUME WellTyped, Outside PROVE Stamps
  OBVIOUS
<1>1. ASSUME NEW c \in Calls, NEW stage, row' = [row EXCEPT ![c].stage = stage] PROVE Stamps
  BY <1>1 DEF Stamps, WellTyped, Rows
<1>2. ASSUME NEW c \in Calls, DayPasses(c) PROVE Stamps
  BY <1>2 DEF DayPasses, Stamps, WellTyped, Rows
<1>3. CASE UNCHANGED row
  BY <1>3 DEF Stamps
<1>4. \/ UNCHANGED row
      \/ \E c \in Calls : DayPasses(c) \/ \E stage : row' = [row EXCEPT ![c].stage = stage]
  BY DEF Outside, CallIsFinished, CallSlipsPast, CallIsDue, ServiceChanges, AsksToStop,
         BlockNumber, BeginUnblock, FinishUnblock
<1> QED
  BY <1>1, <1>2, <1>3, <1>4

LEMMA ContinueStamps ==
  ASSUME WellTyped, NEW t \in Ticks, Continue(t), ~ResolveSent(t)
  PROVE  Stamps
<1>1. CASE UNCHANGED row
  BY <1>1 DEF Stamps
<1>2. ASSUME NEW permanent \in BOOLEAN, FinishCallerFailure(t, permanent) PROVE Stamps
  BY <1>2 DEF FinishCallerFailure, Stamps, WellTyped, Rows
<1>3. CASE ResolveRefused(t)
  BY <1>3 DEF ResolveRefused, Stamps, WellTyped, Rows
<1>4. \/ UNCHANGED row \/ ResolveRefused(t)
      \/ \E permanent \in BOOLEAN : FinishCallerFailure(t, permanent)
  BY DEF Continue, ReadForCaller, CheckBlock, CheckThrottle, WhatsAppAccepted,
         SmsAccepted, Accepted, WhatsAppUndeliverable, WhatsAppFails, SmsFails,
         WhatsAppUnheard, SmsUnheard,
         RecordLegalBasis, LegalBasisFails
<1> QED
  BY <1>1, <1>2, <1>3, <1>4

LEMMA EvidenceStep ==
  WellTyped /\ Carries /\ Evidence /\ [Next]_vars => Evidence'
<1> SUFFICES ASSUME WellTyped, Carries, Evidence, [Next]_vars PROVE Evidence'
  OBVIOUS
<1>m. \A c \in Calls : /\ ever[c] \in Nat /\ ever'[c] \in Nat
                        /\ ever'[c] >= ever[c] /\ (noticed[c] => noticed'[c])
  BY MessagesStay, TypeStep DEF WellTyped
<1>k. basis \in Calls \cup {NoCall}
  BY DEF WellTyped
<1>1. CASE Outside
  <2>1. UNCHANGED <<proc, ever, noticed, basis>> /\ Stamps
    BY <1>1, OutsideLeavesHandlers, OutsideStamps
  <2>b. BasisIsTrue'
    BY <2>1 DEF Evidence, EvidenceIsTrue, BasisIsTrue
  <2>s. StampsAreTrue'
    BY <2>1 DEF Evidence, EvidenceIsTrue, StampsAreTrue, Stamps
  <2>2. EvidenceIsTrue'
    BY <2>b, <2>s DEF EvidenceIsTrue
  <2>3. Backed'
    BY <2>1 DEF Evidence, Backed
  <2> QED
    BY <2>2, <2>3 DEF Evidence
<1>2. ASSUME NEW t \in Ticks, NEW c \in Calls, TickPicks(t, c) PROVE Evidence'
  <2>1. EvidenceIsTrue'
    BY <1>2 DEF TickPicks, Evidence, EvidenceIsTrue, BasisIsTrue, StampsAreTrue, ghosts
  <2>2. Backed'
    BY <1>2 DEF TickPicks, Evidence, Backed, ghosts, WellTyped, Idle
  <2> QED
    BY <2>1, <2>2 DEF Evidence
<1>3. ASSUME NEW t \in Ticks, Continue(t) PROVE Evidence'
  <2> DEFINE c == proc[t].call
  <2>c. c \in Calls
    BY <1>3, HandlerKeepsCall DEF Carries
  <2>o. \A u \in Ticks \ {t} : proc'[u] = proc[u]
    BY <1>3, HandlerKeepsCall
  <2>1. BasisIsTrue'
    <3>1. CASE UNCHANGED basis
      BY <1>k, <1>m, <3>1 DEF Evidence, EvidenceIsTrue, BasisIsTrue, StampsAreTrue
    <3>2. CASE RecordLegalBasis(t)
      <4>1. noticed[c] /\ UNCHANGED noticed
        BY <3>2 DEF RecordLegalBasis, At, Evidence, Backed, ghosts
      <4> QED
        BY <3>2, <4>1 DEF RecordLegalBasis, Evidence, EvidenceIsTrue, BasisIsTrue,
                          StampsAreTrue
    <3>3. UNCHANGED basis \/ RecordLegalBasis(t)
      BY <1>3 DEF Continue, ReadForCaller, CheckBlock, CheckThrottle, WhatsAppAccepted,
                  SmsAccepted, Accepted, WhatsAppUndeliverable, WhatsAppFails, SmsFails,
                  WhatsAppUnheard, SmsUnheard,
                  FinishCallerFailure, LegalBasisFails, ResolveSent, ResolveRefused
    <3> QED
      BY <3>1, <3>2, <3>3
  <2>2. StampsAreTrue'
    <3>1. CASE ResolveSent(t)
      <4>1. ever[c] > 0 /\ (proc[t].notice => noticed[c])
        BY <3>1 DEF ResolveSent, At, Evidence, Backed
      <4>2. \A d \in Calls : d # c => row'[d] = row[d]
        BY <3>1 DEF ResolveSent, WellTyped
      <4>3. row'[c].notice <=> row[c].notice \/ proc[t].notice
        BY <2>c, <3>1 DEF ResolveSent, WellTyped, Rows
      <4>4. UNCHANGED <<ever, noticed>>
        BY <3>1 DEF ResolveSent, ghosts
      <4> HIDE DEF c
      <4> QED
        BY <2>c, <4>1, <4>2, <4>3, <4>4 DEF Evidence, EvidenceIsTrue, BasisIsTrue,
                                            StampsAreTrue
    <3>2. CASE ~ResolveSent(t)
      <4>1. Stamps
        BY <1>3, <3>2, ContinueStamps
      <4> QED
        BY <1>m, <4>1 DEF Stamps, Evidence, EvidenceIsTrue, BasisIsTrue, StampsAreTrue
    <3> QED
      BY <3>1, <3>2
  <2>3. ASSUME NEW u \in Ticks, u # t
        PROVE  /\ proc'[u].at \in {"evidence", "record"} => ever'[proc'[u].call] > 0
               /\ proc'[u].at = "evidence" => noticed'[proc'[u].call]
               /\ proc'[u].at = "record" /\ proc'[u].notice => noticed'[proc'[u].call]
    <3>1. proc'[u] = proc[u]
      BY <2>3, <2>o
    <3>2. proc[u].at \in {"evidence", "record"} => proc[u].call \in Calls
      BY DEF Carries
    <3> QED
      BY <1>m, <3>1, <3>2 DEF Evidence, Backed
  <2>4. /\ proc'[t].at \in {"evidence", "record"} => ever'[proc'[t].call] > 0
        /\ proc'[t].at = "evidence" => noticed'[proc'[t].call]
        /\ proc'[t].at = "record" /\ proc'[t].notice => noticed'[proc'[t].call]
    <3>1. ASSUME NEW channel, NEW carries \in BOOLEAN, NEW claims \in BOOLEAN,
                 claims => carries, Accepted(t, channel, carries, claims)
          PROVE  ever'[c] > 0 /\ (proc'[t].notice => noticed'[c])
                 /\ (proc'[t].at = "evidence" => noticed'[c])
      <4>1. ever'[c] = ever[c] + 1
        BY <2>c, <3>1 DEF Accepted, WellTyped
      <4>2. carries => noticed'[c]
        BY <2>c, <3>1 DEF Accepted, WellTyped
      <4>3. proc'[t].notice = claims /\ proc'[t].at = IF claims THEN "evidence" ELSE "record"
        BY <3>1 DEF Accepted, WellTyped, Handlers
      <4> HIDE DEF c
      <4> QED
        BY <1>m, <2>c, <3>1, <4>1, <4>2, <4>3
    <3>2. CASE WhatsAppAccepted(t) \/ SmsAccepted(t)
      <4>1. \E channel : \E carries, claims \in BOOLEAN :
              (claims => carries) /\ Accepted(t, channel, carries, claims)
        BY <3>2 DEF WhatsAppAccepted, SmsAccepted
      <4>2. proc'[t].at \in {"evidence", "record"} => proc'[t].call = c
        BY <1>3, HandlerKeepsCall DEF Idle
      <4> QED
        BY <3>1, <4>1, <4>2
    <3>3. CASE RecordLegalBasis(t) \/ LegalBasisFails(t)
      <4>1. proc[t].at = "evidence" /\ proc' = [proc EXCEPT ![t].at = "record"]
        BY <3>3 DEF RecordLegalBasis, LegalBasisFails, At, Goes
      <4>2. proc'[t].at = "record" /\ proc'[t].call = c
        BY <4>1 DEF WellTyped, Handlers
      <4>3. ever[c] > 0 /\ noticed[c]
        BY <4>1 DEF Evidence, Backed
      <4> HIDE DEF c
      <4> QED
        BY <1>m, <2>c, <4>2, <4>3
    <3>4. CASE ReadForCaller(t) \/ CheckBlock(t) \/ CheckThrottle(t)
      <4>1. proc'[t].at \in {"idle", "block", "refuse", "throttle", "send", "sms"}
        BY <3>4 DEF ReadForCaller, CheckBlock, CheckThrottle, WellTyped, Handlers, Done,
                    Idle,
                    Goes, Refuses
      <4> QED
        BY <4>1
    <3>5. CASE WhatsAppUndeliverable(t) \/ WhatsAppFails(t) \/ SmsFails(t)
               \/ WhatsAppUnheard(t) \/ SmsUnheard(t)
               \/ ResolveSent(t) \/ ResolveRefused(t)
      <4>1. Done(t) \/ Goes(t, "sms")
        BY <3>5 DEF WhatsAppUndeliverable, WhatsAppFails, SmsFails, WhatsAppUnheard,
                    SmsUnheard, FinishCallerFailure,
                    ResolveSent, ResolveRefused
      <4>2. proc'[t].at \in {"idle", "sms"}
        BY <4>1 DEF WellTyped, Handlers, Done, Idle, Goes
      <4> QED
        BY <4>2
    <3> QED
      BY <1>3, <3>2, <3>3, <3>4, <3>5 DEF Continue
  <2>5. Backed'
    BY <2>3, <2>4 DEF Backed
  <2>6. EvidenceIsTrue'
    BY <2>1, <2>2 DEF EvidenceIsTrue
  <2> QED
    BY <2>5, <2>6 DEF Evidence
<1>4. CASE Fault
  <2>1. EvidenceIsTrue'
    BY <1>4 DEF Fault, Evidence, EvidenceIsTrue, BasisIsTrue, StampsAreTrue, ghosts
  <2>2. Backed'
    BY <1>4 DEF Fault, Evidence, Backed, ghosts, Idle
  <2> QED
    BY <2>1, <2>2 DEF Evidence
<1>5. CASE UNCHANGED vars
  BY <1>5 DEF vars, Evidence, EvidenceIsTrue, BasisIsTrue, StampsAreTrue, Backed
<1> QED
  BY <1>1, <1>2, <1>3, <1>4, <1>5, NextSplits

LEMMA Inductive == Spec => []IInv
<1>1. IInv /\ [Next]_vars => IInv'
  BY TypeStep, DatedStep, CarriesStep, EvidenceStep DEF IInv, TypeOK
<1> QED
  BY InitIInv, <1>1, PTL DEF Spec

(* Rows and handlers stay well formed, and a messaged call has its date.   *)
THEOREM TypeCorrect == Spec => []TypeOK
<1>1. IInv => TypeOK
  BY DEF IInv
<1> QED
  BY <1>1, Inductive, PTL

(* resolveCaller and recordLegalBasis keep evidence of nothing but notices *)
(* that went out, through restarts, failed writes and overlapping ticks.   *)
THEOREM EvidenceHolds == Spec => []EvidenceIsTrue
<1>1. IInv => EvidenceIsTrue
  BY DEF IInv, Evidence
<1> QED
  BY <1>1, Inductive, PTL

-----------------------------------------------------------------------------
LEMMA OptOutStays == [Next]_vars /\ block = "opt_out" => block' = "opt_out"
<1> SUFFICES ASSUME [Next]_vars, block = "opt_out" PROVE block' = "opt_out"
  OBVIOUS
<1>1. CASE Outside
  BY <1>1 DEF Outside, CallIsFinished, CallSlipsPast, CallIsDue, DayPasses,
              ServiceChanges, AsksToStop, BlockNumber, BeginUnblock, FinishUnblock
<1>2. ASSUME NEW t \in Ticks, Continue(t) PROVE UNCHANGED block
  BY <1>2 DEF Continue, ReadForCaller, CheckBlock, CheckThrottle, WhatsAppAccepted,
              SmsAccepted, Accepted, WhatsAppUndeliverable, WhatsAppFails, SmsFails,
              WhatsAppUnheard, SmsUnheard,
              FinishCallerFailure, RecordLegalBasis, LegalBasisFails, ResolveSent,
              ResolveRefused
<1>3. CASE (\E t \in Ticks, c \in Calls : TickPicks(t, c)) \/ Fault \/ UNCHANGED vars
  BY <1>3 DEF TickPicks, Fault, vars
<1> QED
  BY <1>1, <1>2, <1>3, NextSplits

(* unblockNumber's delete spares an opt-out, and nothing else lifts it.    *)
THEOREM OptOutsAreFinal == Spec => OptOutIsFinal
<1>1. [Next]_vars => [block = "opt_out" => block' = "opt_out"]_block
  BY OptOutStays
<1> QED
  BY <1>1, PTL DEF Spec, OptOutIsFinal

(* recordLegalBasis leaves a contact's first evidence alone.               *)
THEOREM FirstEvidenceIsKept == Spec => FirstEvidenceStays
<1>1. [Next]_vars => [basis # NoCall => basis' = basis]_basis
  <2> SUFFICES ASSUME [Next]_vars, basis # NoCall PROVE UNCHANGED basis
    OBVIOUS
  <2>1. CASE Outside
    BY <2>1, OutsideLeavesHandlers
  <2>2. ASSUME NEW t \in Ticks, Continue(t) PROVE UNCHANGED basis
    BY <2>2 DEF Continue, ReadForCaller, CheckBlock, CheckThrottle, WhatsAppAccepted,
                SmsAccepted, Accepted, WhatsAppUndeliverable, WhatsAppFails, SmsFails,
                WhatsAppUnheard, SmsUnheard,
                FinishCallerFailure, RecordLegalBasis, LegalBasisFails, ResolveSent,
                ResolveRefused
  <2>3. CASE (\E t \in Ticks, c \in Calls : TickPicks(t, c)) \/ Fault \/ UNCHANGED vars
    BY <2>3 DEF TickPicks, Fault, vars
  <2> QED
    BY <2>1, <2>2, <2>3, NextSplits
<1> QED
  BY <1>1, PTL DEF Spec, FirstEvidenceStays

-----------------------------------------------------------------------------
(* The handlers that may still send a message about call c.                *)
Way(c) == {t \in Ticks : proc[t].at \in {"throttle", "send", "sms"} /\ proc[t].call = c}

(* Once asked, the number is sealed and what may still come is excused.    *)
Alone ==
  asked => /\ block = "opt_out"
           /\ \A c \in Calls : ever[c] + Cardinality(Way(c)) <= excused[c]

LEMMA Fewer ==
  ASSUME NEW S \in SUBSET Ticks, NEW T \in SUBSET S
  PROVE  /\ Cardinality(S) \in Nat /\ Cardinality(T) \in Nat
         /\ Cardinality(T) <= Cardinality(S)
         /\ \A t \in S : T \subseteq S \ {t} => Cardinality(T) + 1 <= Cardinality(S)
<1>1. IsFiniteSet(S) /\ IsFiniteSet(T)
  BY TicksAreFinite, FS_Subset
<1>2. Cardinality(S) \in Nat /\ Cardinality(T) \in Nat
  BY <1>1, FS_CardinalityType
<1>3. Cardinality(T) <= Cardinality(S)
  BY <1>1, FS_Subset
<1>4. ASSUME NEW t \in S, T \subseteq S \ {t} PROVE Cardinality(T) + 1 <= Cardinality(S)
  <2>1. IsFiniteSet(S \ {t}) /\ Cardinality(S \ {t}) = Cardinality(S) - 1
    BY <1>1, FS_RemoveElement
  <2>2. Cardinality(T) <= Cardinality(S \ {t})
    BY <1>4, <2>1, FS_Subset
  <2> QED
    BY <1>2, <2>1, <2>2
<1> QED
  BY <1>2, <1>3, <1>4

(* With the number sealed a handler only ever leaves the way.              *)
LEMMA WayEmpties ==
  ASSUME WellTyped, [Next]_vars, block = "opt_out", NEW c \in Calls
  PROVE  Way(c)' \subseteq Way(c)
<1>1. CASE Outside \/ UNCHANGED vars
  BY <1>1, OutsideLeavesHandlers DEF Way, vars
<1>2. ASSUME NEW t \in Ticks, NEW d \in Calls, TickPicks(t, d) PROVE Way(c)' \subseteq Way(c)
  BY <1>2 DEF TickPicks, Way, WellTyped, Idle
<1>3. ASSUME NEW t \in Ticks, Continue(t) PROVE Way(c)' \subseteq Way(c)
  <2>1. \A u \in Ticks \ {t} : proc'[u] = proc[u]
    BY <1>3, HandlerKeepsCall
  <2>2. proc'[t] = Idle \/ proc'[t].call = proc[t].call
    BY <1>3, HandlerKeepsCall
  <2>3. proc'[t].at \in {"throttle", "send", "sms"} => proc[t].at \in {"throttle", "send", "sms"}
    <3> USE DEF WellTyped, Handlers, At, Goes, Done, Refuses
    <3>i. Idle.at = "idle"
      BY DEF Idle
    <3>1. CASE ReadForCaller(t)
      <4>1. proc'[t].at \in {"idle", "block", "refuse"}
        BY <3>1, <3>i DEF ReadForCaller
      <4> QED
        BY <4>1
    <3>2. CASE CheckBlock(t)
      BY <3>2 DEF CheckBlock
    <3>3. CASE CheckThrottle(t)
      BY <3>3 DEF CheckThrottle
    <3>4. CASE At(t, "send") \/ At(t, "sms")
      BY <3>4
    <3>5. CASE RecordLegalBasis(t) \/ LegalBasisFails(t)
      BY <3>5 DEF RecordLegalBasis, LegalBasisFails
    <3>6. CASE ResolveSent(t) \/ ResolveRefused(t)
      BY <3>6, <3>i DEF ResolveSent, ResolveRefused
    <3> QED
      BY <1>3, <3>1, <3>2, <3>3, <3>4, <3>5, <3>6
         DEF Continue, WhatsAppAccepted, WhatsAppUndeliverable, WhatsAppFails, SmsAccepted,
             SmsFails, WhatsAppUnheard, SmsUnheard
  <2> QED
    BY <2>1, <2>2, <2>3 DEF Way, Idle
<1>4. CASE Fault
  BY <1>4 DEF Fault, Way, Idle
<1> QED
  BY <1>1, <1>2, <1>3, <1>4, NextSplits

LEMMA AloneStep ==
  ASSUME Normalises(Sender)
  PROVE  WellTyped /\ Carries /\ Alone /\ [Next]_vars => Alone'
<1> SUFFICES ASSUME WellTyped, Carries, Alone, [Next]_vars PROVE Alone'
  OBVIOUS
<1>t. \A c \in Calls : /\ ever[c] \in Nat /\ ever'[c] \in Nat /\ excused[c] \in Nat
                        /\ Cardinality(Way(c)) \in Nat /\ Cardinality(Way(c)') \in Nat
  BY TypeStep, Fewer DEF WellTyped, Way
<1>1. CASE AsksToStop
  <2>1. UNCHANGED <<proc, ever>> /\ block' = "opt_out"
    BY <1>1 DEF AsksToStop, ghosts
  <2>2. \A c \in Calls : Way(c)' = Way(c)
    BY <2>1 DEF Way
  <2>3. CASE asked
    BY <1>1, <2>1, <2>2, <2>3 DEF AsksToStop, Alone
  <2>4. CASE ~asked
    <3>1. \A c \in Calls : excused'[c] = ever[c] + Cardinality(Way(c))
      BY <1>1, <2>4 DEF AsksToStop, UnderWay, Way
    <3> QED
      BY <1>t, <2>1, <2>2, <3>1 DEF Alone
  <2> QED
    BY <2>3, <2>4
<1>2. CASE ~AsksToStop /\ asked
  <2>1. UNCHANGED <<asked, excused>>
    BY <1>2 DEF Next, Continue, CallIsFinished, CallSlipsPast, CallIsDue, DayPasses,
                ServiceChanges, BlockNumber, BeginUnblock, FinishUnblock, TickPicks,
                ReadForCaller, CheckBlock, CheckThrottle, WhatsAppAccepted, SmsAccepted,
                Accepted, WhatsAppUndeliverable, WhatsAppFails, SmsFails,
                WhatsAppUnheard, SmsUnheard,
                FinishCallerFailure, RecordLegalBasis, LegalBasisFails, ResolveSent,
                ResolveRefused, Fault, person, vars
  <2>2. block = "opt_out" /\ block' = "opt_out"
    BY <1>2, OptOutStays DEF Alone
  <2>3. \A c \in Calls : Way(c)' \subseteq Way(c)
    BY <2>2, WayEmpties
  <2>4. ASSUME NEW c \in Calls
        PROVE  ever'[c] + Cardinality(Way(c)') <= excused[c]
    <3>1. ever[c] + Cardinality(Way(c)) <= excused[c]
      BY <1>2 DEF Alone
    <3>2. Way(c) \in SUBSET Ticks /\ Way(c)' \in SUBSET Way(c)
      BY <2>3 DEF Way
    <3>3. CASE ever'[c] = ever[c]
      <4>1. Cardinality(Way(c)') <= Cardinality(Way(c))
        BY <3>2, Fewer
      <4> QED
        BY <1>t, <3>1, <3>3, <4>1
    <3>4. ASSUME NEW t \in Ticks, NEW channel, NEW carries \in BOOLEAN, NEW claims \in BOOLEAN,
                 Accepted(t, channel, carries, claims), proc[t].at \in {"send", "sms"},
                 ever'[c] # ever[c]
          PROVE  ever'[c] + Cardinality(Way(c)') <= excused[c]
      <4>1. proc[t].call = c /\ ever'[c] = ever[c] + 1
        BY <3>4 DEF Accepted, WellTyped
      <4>2. t \in Way(c)
        BY <3>4, <4>1 DEF Way
      <4>3. t \notin Way(c)'
        <5> DEFINE station == IF claims THEN "evidence" ELSE "record"
        <5>1. proc'[t].at = station
          BY <3>4 DEF Accepted, WellTyped, Handlers
        <5> QED
          BY <5>1 DEF Way
      <4>4. Cardinality(Way(c)') + 1 <= Cardinality(Way(c))
        BY <3>2, <4>2, <4>3, Fewer
      <4> QED
        BY <1>t, <3>1, <4>1, <4>4
    <3>6. ASSUME NEW t \in Ticks, NEW carries \in BOOLEAN, Unheard(proc[t].call, carries),
                 Done(t), proc[t].at \in {"send", "sms"}, ever'[c] # ever[c]
          PROVE  ever'[c] + Cardinality(Way(c)') <= excused[c]
      <4>1. proc[t].call = c /\ ever'[c] = ever[c] + 1
        BY <3>6 DEF Unheard, WellTyped
      <4>2. t \in Way(c)
        BY <3>6, <4>1 DEF Way
      <4>3. t \notin Way(c)'
        BY <3>6 DEF Done, Idle, Way, WellTyped
      <4>4. Cardinality(Way(c)') + 1 <= Cardinality(Way(c))
        BY <3>2, <4>2, <4>3, Fewer
      <4> QED
        BY <1>t, <3>1, <4>1, <4>4
    <3>5. \/ UNCHANGED ever
          \/ \E t \in Ticks : \E carries \in BOOLEAN :
               Unheard(proc[t].call, carries) /\ Done(t) /\ proc[t].at \in {"send", "sms"}
          \/ \E t \in Ticks : \E channel : \E carries, claims \in BOOLEAN :
               Accepted(t, channel, carries, claims) /\ proc[t].at \in {"send", "sms"}
      <4>1. CASE Outside \/ Fault \/ UNCHANGED vars \/ \E t \in Ticks, d \in Calls : TickPicks(t, d)
        BY <4>1, OutsideLeavesHandlers DEF Fault, vars, TickPicks, ghosts
      <4>2. ASSUME NEW t \in Ticks, Continue(t), ~UNCHANGED ever
            PROVE  \/ \E channel : \E carries, claims \in BOOLEAN :
                        Accepted(t, channel, carries, claims) /\ proc[t].at \in {"send", "sms"}
                   \/ \E carries \in BOOLEAN :
                        Unheard(proc[t].call, carries) /\ Done(t) /\ proc[t].at \in {"send", "sms"}
        BY <4>2 DEF Continue, ReadForCaller, CheckBlock, CheckThrottle, WhatsAppAccepted,
                    SmsAccepted, WhatsAppUndeliverable, WhatsAppFails, SmsFails,
                    WhatsAppUnheard, SmsUnheard,
                    FinishCallerFailure, RecordLegalBasis, LegalBasisFails, ResolveSent,
                    ResolveRefused, ghosts, At
      <4> QED
        BY <4>1, <4>2, NextSplits
    <3> QED
      BY <3>3, <3>4, <3>5, <3>6
  <2> QED
    BY <2>1, <2>2, <2>4 DEF Alone
<1>3. CASE ~AsksToStop /\ ~asked
  <2>1. UNCHANGED asked
    BY <1>3 DEF Next, Continue, CallIsFinished, CallSlipsPast, CallIsDue, DayPasses,
                ServiceChanges, BlockNumber, BeginUnblock, FinishUnblock, TickPicks,
                ReadForCaller, CheckBlock, CheckThrottle, WhatsAppAccepted, SmsAccepted,
                Accepted, WhatsAppUndeliverable, WhatsAppFails, SmsFails,
                WhatsAppUnheard, SmsUnheard,
                FinishCallerFailure, RecordLegalBasis, LegalBasisFails, ResolveSent,
                ResolveRefused, Fault, person, vars
  <2> QED
    BY <1>3, <2>1 DEF Alone
<1> QED
  BY <1>1, <1>2, <1>3

(* applyOptOut and the checks of notifyCaller leave a person alone who     *)
(* asked for it, if his number arrives in a form normaliseE164 knows.      *)
THEOREM WhoeverAskedIsLeftAlone ==
  ASSUME Normalises(Sender)
  PROVE  Spec => []PersonLeftAlone
<1>1. Init => Alone
  BY DEF Init, Alone
<1>2. IInv /\ Alone /\ [Next]_vars => Alone'
  BY AloneStep DEF IInv, TypeOK
<1>3. TypeOK /\ Alone => PersonLeftAlone
  <2> SUFFICES ASSUME WellTyped, Alone, asked, NEW c \in Calls PROVE ever[c] <= excused[c]
    BY DEF PersonLeftAlone, TypeOK
  <2>1. Cardinality(Way(c)) \in Nat /\ ever[c] \in Nat /\ excused[c] \in Nat
    BY Fewer DEF WellTyped, Way
  <2>2. ever[c] + Cardinality(Way(c)) <= excused[c]
    BY DEF Alone
  <2> QED
    BY <2>1, <2>2
<1> QED
  BY <1>1, <1>2, <1>3, Inductive, TypeCorrect, PTL DEF Spec

-----------------------------------------------------------------------------
(* One tick at a time, and nothing lost so far.                            *)
Orderly == Cardinality(Ticks) = 1 /\ faults = 0

(* Behind each message of the day stands its date, or the handler that is  *)
(* about to write it; whoever passed the throttle found no message at all. *)
Paced ==
  /\ \A c, d \in Calls : today[c] <= 1 /\ (today[c] = 1 /\ today[d] = 1 => c = d)
  /\ \A c \in Calls : today[c] > 0 =>
       \/ row[c].sent = "recent"
       \/ \E t \in Ticks : proc[t].at \in {"evidence", "record"} /\ proc[t].call = c
  /\ \A t \in Ticks : proc[t].at \in {"block", "throttle", "send", "sms"} =>
       row[proc[t].call].sent = "no"
  /\ \A t \in Ticks : proc[t].at \in {"send", "sms"} => \A c \in Calls : today[c] = 0

LEMMA OneTick == Cardinality(Ticks) = 1 => \A t, u \in Ticks : t = u
BY TicksAreFinite, FS_Singleton

(* A step that leaves the messages and the dates alone only has to account *)
(* for its handler's new station.                                          *)
LEMMA QuietStep ==
  ASSUME WellTyped, Paced, NEW t \in Ticks, \A u \in Ticks : u = t,
         UNCHANGED today, \A c \in Calls : row'[c].sent = row[c].sent,
         proc[t].at \notin {"evidence", "record"},
         proc'[t].at \in {"block", "throttle", "send", "sms"} =>
           proc'[t].call \in Calls /\ row[proc'[t].call].sent = "no",
         proc'[t].at \in {"send", "sms"} => \A c \in Calls : today[c] = 0
  PROVE  Paced'
<1>1. (\A c, d \in Calls : today[c] <= 1 /\ (today[c] = 1 /\ today[d] = 1 => c = d))'
  BY DEF Paced
<1>2. \A c \in Calls : today'[c] > 0 => row'[c].sent = "recent"
  BY DEF Paced
<1>3. \A u \in Ticks : proc'[u].at \in {"block", "throttle", "send", "sms"} =>
        row'[proc'[u].call].sent = "no"
  OBVIOUS
<1>4. \A u \in Ticks : proc'[u].at \in {"send", "sms"} => \A c \in Calls : today'[c] = 0
  OBVIOUS
<1> QED
  BY <1>1, <1>2, <1>3, <1>4 DEF Paced

LEMMA OutsidePaces ==
  WellTyped /\ Carries /\ Orderly /\ Paced /\ Outside /\ faults' = 0 => Paced'
<1> SUFFICES ASSUME WellTyped, Carries, Orderly, Paced, Outside, faults' = 0 PROVE Paced'
  OBVIOUS
<1>1. ASSUME UNCHANGED <<proc, today>>, \A c \in Calls : row'[c].sent = row[c].sent
      PROVE  Paced'
  <2>1. (\A c, d \in Calls : today[c] <= 1 /\ (today[c] = 1 /\ today[d] = 1 => c = d))'
    BY <1>1 DEF Paced
  <2>2. (\A c \in Calls : today[c] > 0 =>
          \/ row[c].sent = "recent"
          \/ \E t \in Ticks : proc[t].at \in {"evidence", "record"} /\ proc[t].call = c)'
    BY <1>1 DEF Paced
  <2>3. (\A t \in Ticks : proc[t].at \in {"block", "throttle", "send", "sms"} =>
          row[proc[t].call].sent = "no")'
    BY <1>1 DEF Paced, Carries
  <2>4. (\A t \in Ticks : proc[t].at \in {"send", "sms"} => \A c \in Calls : today[c] = 0)'
    BY <1>1 DEF Paced
  <2> QED
    BY <2>1, <2>2, <2>3, <2>4 DEF Paced
<1>2. ASSUME NEW c \in Calls, NEW stage, row' = [row EXCEPT ![c].stage = stage]
      PROVE  \A d \in Calls : row'[d].sent = row[d].sent
  BY <1>2 DEF WellTyped, Rows
<1>3. ASSUME NEW c \in Calls, DayPasses(c) PROVE Paced'
  <2>1. \A d \in Calls : d # c => today'[d] = today[d] /\ row'[d] = row[d]
    BY <1>3 DEF DayPasses, WellTyped
  <2>2. today'[c] = 0
    BY <1>3 DEF DayPasses, WellTyped
  <2>3. \A t \in Ticks : proc[t].at = "idle" /\ proc'[t].at = "idle"
    BY <1>3 DEF DayPasses, At
  <2>4. (\A d, e \in Calls : today[d] <= 1 /\ (today[d] = 1 /\ today[e] = 1 => d = e))'
    BY <2>1, <2>2 DEF Paced
  <2>5. \A d \in Calls : today'[d] > 0 => row'[d].sent = "recent"
    BY <2>1, <2>2, <2>3 DEF Paced
  <2> QED
    BY <2>3, <2>4, <2>5 DEF Paced
<1>4. \/ \E c \in Calls : DayPasses(c)
      \/ /\ UNCHANGED <<proc, today>>
         /\ \/ UNCHANGED row
            \/ \E c \in Calls : \E stage : row' = [row EXCEPT ![c].stage = stage]
  BY DEF Outside, CallIsFinished, CallSlipsPast, CallIsDue, ServiceChanges, AsksToStop,
         BlockNumber, BeginUnblock, FinishUnblock, ghosts
<1> QED
  BY <1>1, <1>2, <1>3, <1>4

LEMMA PacedStep ==
  WellTyped /\ Carries /\ (Orderly => Paced) /\ [Next]_vars => (Orderly => Paced)'
<1> SUFFICES ASSUME WellTyped, Carries, Orderly => Paced, [Next]_vars, Orderly'
             PROVE  Paced'
  OBVIOUS
<1> USE DEF WellTyped, Handlers
<1>f. faults \in Nat
  BY Bounds
<1>1. CASE Fault \/ \E t \in Ticks : LegalBasisFails(t)
  BY <1>1, <1>f DEF Fault, LegalBasisFails, Orderly
<1>2. CASE UNCHANGED vars
  BY <1>2 DEF vars, Orderly, Paced
<1>3. CASE Outside
  <2>1. faults' = faults \/ faults' = faults + 1
    BY <1>3 DEF Outside, CallIsFinished, CallSlipsPast, CallIsDue, DayPasses,
                ServiceChanges, AsksToStop, BlockNumber, BeginUnblock, FinishUnblock
  <2>2. Orderly
    BY <1>f, <2>1 DEF Orderly
  <2> QED
    BY <1>3, <2>2, OutsidePaces DEF Orderly
<1>4. ASSUME NEW t \in Ticks, NEW c \in Calls, TickPicks(t, c) PROVE Paced'
  <2>1. Orderly /\ Paced /\ UNCHANGED <<row, today>>
    BY <1>4 DEF TickPicks, Orderly, ghosts
  <2>2. \A u \in Ticks : u = t
    BY <2>1, OneTick DEF Orderly
  <2>3. proc[t].at = "idle" /\ proc'[t].at = "read"
    BY <1>4 DEF TickPicks, At, Idle
  <2> QED
    BY <2>1, <2>2, <2>3, QuietStep
<1>5. ASSUME NEW t \in Ticks, Continue(t), ~LegalBasisFails(t) PROVE Paced'
  <2> DEFINE c == proc[t].call
  <2>c. c \in Calls
    BY <1>5, HandlerKeepsCall DEF Carries
  <2>1. Orderly
    BY <1>5 DEF Orderly, Continue, ReadForCaller, CheckBlock, CheckThrottle,
                WhatsAppAccepted, SmsAccepted, Accepted, WhatsAppUndeliverable,
                WhatsAppFails, SmsFails, WhatsAppUnheard, SmsUnheard,
                FinishCallerFailure, RecordLegalBasis,
                ResolveSent, ResolveRefused
  <2>2. Paced /\ \A u \in Ticks : u = t
    BY <2>1, OneTick DEF Orderly
  <2>i. Idle.at = "idle"
    BY DEF Idle
  <2>k. proc'[t] = Idle \/ proc'[t].call = c
    BY <1>5, HandlerKeepsCall
  <2>3. CASE ReadForCaller(t)
    <3>1. proc'[t].at = "block" => row[c].sent = "no"
      BY <2>3, <2>i DEF ReadForCaller, Done
    <3>2. proc'[t].at \in {"idle", "block", "refuse"} /\ proc[t].at = "read"
      BY <2>3, <2>i DEF ReadForCaller, Done, At
    <3>3. UNCHANGED <<row, today>>
      BY <2>3 DEF ReadForCaller, ghosts
    <3> QED
      BY <2>2, <2>c, <2>i, <2>k, <3>1, <3>2, <3>3, QuietStep
  <2>4. CASE CheckBlock(t)
    <3>1. proc[t].at = "block" /\ proc'[t].at \in {"refuse", "throttle"}
      BY <2>4 DEF CheckBlock, Refuses, Goes, At
    <3>2. UNCHANGED <<row, today>> /\ row[c].sent = "no"
      BY <2>2, <2>4, <3>1 DEF CheckBlock, ghosts, Paced
    <3> QED
      BY <2>2, <2>c, <2>i, <2>k, <3>1, <3>2, QuietStep
  <2>5. CASE CheckThrottle(t)
    <3>1. proc[t].at = "throttle" /\ proc'[t].at \in {"refuse", "send", "sms"}
      BY <2>5 DEF CheckThrottle, Refuses, Goes, At
    <3>2. UNCHANGED <<row, today>> /\ row[c].sent = "no"
      BY <2>2, <2>5, <3>1 DEF CheckThrottle, ghosts, Paced
    <3>3. ASSUME proc'[t].at \in {"send", "sms"}, NEW d \in Calls PROVE today[d] = 0
      <4>1. ~Throttled(c)
        BY <2>5, <3>3 DEF CheckThrottle, Refuses
      <4>2. row[d].sent # "recent"
        BY <3>2, <4>1 DEF Throttled
      <4>3. ~(today[d] > 0)
        BY <2>2, <3>1, <4>2 DEF Paced
      <4> QED
        BY <4>3
    <3> QED
      BY <2>2, <2>c, <2>i, <2>k, <3>1, <3>2, <3>3, QuietStep
  <2>6. CASE WhatsAppUndeliverable(t)
    <3>1. proc[t].at = "send" /\ proc'[t].at = "sms" /\ UNCHANGED <<row, today>>
      BY <2>6 DEF WhatsAppUndeliverable, Goes, At, ghosts
    <3>2. row[c].sent = "no" /\ \A d \in Calls : today[d] = 0
      BY <2>2, <3>1 DEF Paced
    <3> QED
      BY <2>2, <2>c, <2>i, <2>k, <3>1, <3>2, QuietStep
  <2>7. CASE WhatsAppFails(t) \/ SmsFails(t) \/ WhatsAppUnheard(t) \/ SmsUnheard(t)
               \/ ResolveRefused(t)
    <3>1. proc[t].at \in {"send", "sms", "refuse"} /\ proc'[t].at = "idle" /\ UNCHANGED today
      BY <2>7, <2>i DEF WhatsAppFails, SmsFails, WhatsAppUnheard, SmsUnheard,
                        ResolveRefused, Unheard, FinishCallerFailure,
                        Done, At, ghosts
    <3>2. \A d \in Calls : row'[d].sent = row[d].sent
      <4>1. \/ \E channel : row' = [row EXCEPT ![c].channel = channel]
            \/ \E tries, channel : row' = [row EXCEPT ![c].tries = tries, ![c].channel = channel]
        BY <2>7 DEF WhatsAppFails, SmsFails, WhatsAppUnheard, SmsUnheard, ResolveRefused,
                    FinishCallerFailure
      <4>2. ASSUME NEW channel, row' = [row EXCEPT ![c].channel = channel]
            PROVE  \A d \in Calls : row'[d].sent = row[d].sent
        BY <2>c, <4>2 DEF Rows
      <4>3. ASSUME NEW tries, NEW channel,
                   row' = [row EXCEPT ![c].tries = tries, ![c].channel = channel]
            PROVE  \A d \in Calls : row'[d].sent = row[d].sent
        <5>1. \A d \in Calls : d # c => row'[d] = row[d]
          BY <4>3
        <5>2. row'[c].sent = row[c].sent
          BY <2>c, <4>3 DEF Rows
        <5> QED
          BY <5>1, <5>2
      <4> QED
        BY <4>1, <4>2, <4>3
    <3> QED
      BY <2>2, <3>1, <3>2, QuietStep
  <2>8. ASSUME NEW channel, NEW carries \in BOOLEAN, NEW claims \in BOOLEAN,
               Accepted(t, channel, carries, claims), proc[t].at \in {"send", "sms"}
        PROVE  Paced'
    <3> DEFINE station == IF claims THEN "evidence" ELSE "record"
    <3>1. \A d \in Calls : today[d] = 0
      BY <2>2, <2>8 DEF Paced
    <3>2. \A d \in Calls : today'[d] = IF d = c THEN 1 ELSE 0
      BY <2>8, <2>c, <3>1 DEF Accepted
    <3>3. proc'[t].at = station /\ proc'[t].call = c
      BY <2>8 DEF Accepted
    <3>4. proc'[t].at \in {"evidence", "record"} /\ proc'[t].call = c
      BY <3>3
    <3> HIDE DEF station, c
    <3>5. (\A d, e \in Calls : today[d] <= 1 /\ (today[d] = 1 /\ today[e] = 1 => d = e))'
      BY <3>2
    <3>6. \A d \in Calls : today'[d] > 0 =>
            \E u \in Ticks : proc'[u].at \in {"evidence", "record"} /\ proc'[u].call = d
      BY <3>2, <3>4
    <3> QED
      BY <2>2, <3>4, <3>5, <3>6 DEF Paced
  <2>9. CASE WhatsAppAccepted(t) \/ SmsAccepted(t)
    BY <2>8, <2>9 DEF WhatsAppAccepted, SmsAccepted, At
  <2>10. CASE RecordLegalBasis(t)
    <3>1. proc'[t].at = "record" /\ proc'[t].call = c /\ UNCHANGED <<row, today>>
      BY <2>10 DEF RecordLegalBasis, Goes, ghosts
    <3>2. proc[t].at = "evidence"
      BY <2>10 DEF RecordLegalBasis, At
    <3>3. (\A d, e \in Calls : today[d] <= 1 /\ (today[d] = 1 /\ today[e] = 1 => d = e))'
      BY <2>2, <3>1 DEF Paced
    <3>4. \A d \in Calls : today'[d] > 0 =>
            \/ row'[d].sent = "recent"
            \/ \E u \in Ticks : proc'[u].at \in {"evidence", "record"} /\ proc'[u].call = d
      BY <2>2, <3>1 DEF Paced
    <3> QED
      BY <2>2, <3>1, <3>3, <3>4 DEF Paced
  <2>11. CASE ResolveSent(t)
    <3>1. proc[t].at = "record" /\ proc'[t].at = "idle" /\ UNCHANGED today
      BY <2>11, <2>i DEF ResolveSent, At, Done, ghosts
    <3>2. row'[c].sent = "recent" /\ \A d \in Calls : d # c => row'[d] = row[d]
      BY <2>11, <2>c DEF ResolveSent, Rows
    <3> HIDE DEF c
    <3>3. (\A d, e \in Calls : today[d] <= 1 /\ (today[d] = 1 /\ today[e] = 1 => d = e))'
      BY <2>2, <3>1 DEF Paced
    <3>4. \A d \in Calls : today'[d] > 0 => row'[d].sent = "recent"
      BY <2>2, <3>1, <3>2 DEF Paced, c
    <3> QED
      BY <2>2, <3>1, <3>3, <3>4 DEF Paced
  <2> QED
    BY <1>5, <2>3, <2>4, <2>5, <2>6, <2>7, <2>9, <2>10, <2>11 DEF Continue
<1> QED
  BY <1>1, <1>2, <1>3, <1>4, <1>5, NextSplits

(* The stations before a message and those after it.                       *)
Writing == {"block", "throttle", "send", "sms"}
Noting == {"evidence", "record"}
On(t, stations, c) == proc[t].at \in stations /\ proc[t].call = c

LEMMA FaultsAreCounted ==
  ASSUME WellTyped, [Next]_vars
  PROVE  /\ faults' = faults \/ faults' = faults + 1
         /\ Fault => faults' = faults + 1 /\ UNCHANGED <<ever, unheard>>
<1>1. ASSUME NEW t \in Ticks, Continue(t) PROVE faults' = faults \/ faults' = faults + 1
  BY <1>1 DEF Continue, ReadForCaller, CheckBlock, CheckThrottle, WhatsAppAccepted,
              SmsAccepted,
              Accepted, WhatsAppUndeliverable, WhatsAppFails, SmsFails, WhatsAppUnheard,
              SmsUnheard, FinishCallerFailure,
              RecordLegalBasis, LegalBasisFails, ResolveSent, ResolveRefused
<1>2. Outside => faults' = faults \/ faults' = faults + 1
  BY DEF Outside, CallIsFinished, CallSlipsPast, CallIsDue, DayPasses, ServiceChanges,
         AsksToStop, BlockNumber, BeginUnblock, FinishUnblock
<1>3. (\E t \in Ticks, c \in Calls : TickPicks(t, c)) \/ UNCHANGED vars => faults' = faults
  BY DEF TickPicks, vars
<1>4. Fault => faults' = faults + 1 /\ UNCHANGED <<ever, unheard>>
  BY DEF Fault, ghosts
<1> QED
  BY <1>1, <1>2, <1>3, <1>4, NextSplits

(* A message about a call is one of its attempts, counted or about to be:  *)
(* while nothing is on its way into the row, the attempts counted are at   *)
(* least the messages, and whoever may send has an attempt left.           *)
Tried ==
  /\ \A c \in Calls : ever[c] <= MaxTries
  /\ \A c \in Calls : row[c].sent = "no" /\ (\A t \in Ticks : ~On(t, Noting, c)) =>
       ever[c] <= row[c].tries
  /\ \A t \in Ticks : proc[t].at = "read" => row[proc[t].call].tries < MaxTries
  /\ \A t \in Ticks : proc[t].at \in Writing =>
       /\ proc[t].tries = row[proc[t].call].tries /\ proc[t].tries < MaxTries
       /\ row[proc[t].call].sent = "no"

(* How the rows' attempts and dates move outside the handlers.             *)
LEMMA OutsideTries ==
  WellTyped /\ Outside =>
    /\ \A c \in Calls : row'[c].tries = row[c].tries /\ (row'[c].sent = "no" <=> row[c].sent = "no")
    /\ UNCHANGED <<proc, ever>>
<1> SUFFICES ASSUME WellTyped, Outside
             PROVE  /\ \A c \in Calls : row'[c].tries = row[c].tries
                    /\ \A c \in Calls : row'[c].sent = "no" <=> row[c].sent = "no"
                    /\ UNCHANGED <<proc, ever>>
  OBVIOUS
<1>1. ASSUME NEW c \in Calls, NEW stage, row' = [row EXCEPT ![c].stage = stage]
      PROVE  \A d \in Calls : row'[d].tries = row[d].tries
  BY <1>1 DEF WellTyped, Rows
<1>2. ASSUME NEW c \in Calls, DayPasses(c) PROVE \A d \in Calls : row'[d].tries = row[d].tries
  BY <1>2 DEF DayPasses, WellTyped, Rows
<1>3. \/ UNCHANGED row
      \/ \E c \in Calls : DayPasses(c) \/ \E stage : row' = [row EXCEPT ![c].stage = stage]
  BY DEF Outside, CallIsFinished, CallSlipsPast, CallIsDue, ServiceChanges, AsksToStop,
         BlockNumber, BeginUnblock, FinishUnblock
<1> QED
  BY <1>1, <1>2, <1>3, OutsideStamps, OutsideLeavesHandlers DEF Stamps

LEMMA TriedStep ==
  WellTyped /\ Carries /\ (Orderly => Tried) /\ [Next]_vars => (Orderly => Tried)'
<1> SUFFICES ASSUME WellTyped, Carries, Orderly => Tried, [Next]_vars, Orderly'
             PROVE  Tried'
  OBVIOUS
<1>f. faults \in Nat /\ MaxTries \in Nat
  BY Bounds DEF WellTyped
<1>g. faults' = faults \/ faults' = faults + 1
  BY FaultsAreCounted
<1>o. Orderly /\ Tried /\ \A t, u \in Ticks : t = u
  BY <1>f, <1>g, OneTick DEF Orderly
<1>t. \A c \in Calls : ever[c] \in Nat /\ row[c].tries \in Nat
  BY DEF WellTyped, Rows
<1>1. CASE Fault
  BY <1>1, <1>f, FaultsAreCounted DEF Orderly
<1>2. CASE UNCHANGED vars
  BY <1>2, <1>o DEF vars, Tried, On
<1>3. CASE Outside
  <2>1. /\ \A c \in Calls : row'[c].tries = row[c].tries 
        /\ \A c \in Calls : row'[c].sent = "no" <=> row[c].sent = "no"
        /\ proc' = proc /\ ever' = ever
    BY <1>3, OutsideTries
  <2>2. \A t \in Ticks : proc[t].at \in Writing \cup {"read"} => proc[t].call \in Calls
    BY DEF Carries, Writing
  <2> QED
    BY <1>o, <2>1, <2>2 DEF Tried, On
<1>4. ASSUME NEW t \in Ticks, NEW c \in Calls, TickPicks(t, c) PROVE Tried'
  <2>1. row' = row /\ ever' = ever /\ c \in Listed /\ proc[t].at = "idle"
    BY <1>4 DEF TickPicks, ToNotify, ghosts, At
  <2>2. proc'[t].at = "read" /\ proc'[t].call = c
    BY <1>4 DEF TickPicks, WellTyped, Idle
  <2>3. \A d \in Calls : On(t, Noting, d) => FALSE
    BY <2>1 DEF On, Noting
  <2> QED
    BY <1>o, <2>1, <2>2, <2>3 DEF Tried, On, Noting, Writing, Listed
<1>5. ASSUME NEW t \in Ticks, Continue(t) PROVE Tried'
  <2> DEFINE c == proc[t].call
  <2>c. c \in Calls
    BY <1>5, HandlerKeepsCall DEF Carries
  <2>k. proc'[t] = Idle \/ proc'[t].call = c
    BY <1>5, HandlerKeepsCall
  <2>u. \A u \in Ticks : u = t
    BY <1>o
  <2>i. Idle.at = "idle" /\ "idle" \notin Noting \cup Writing \cup {"read"}
    BY DEF Idle, Noting, Writing
  <2>s. ASSUME proc[t].at \in Writing
        PROVE  /\ proc[t].tries = row[c].tries /\ row[c].tries < MaxTries /\ row[c].sent = "no"
               /\ \A d \in Calls : ~On(t, Noting, d)
               /\ \A d \in Calls : row[d].sent = "no" => ever[d] <= row[d].tries
    <3>1. \A d \in Calls : ~On(t, Noting, d)
      BY <2>s DEF On, Noting, Writing
    <3>2. /\ proc[t].tries = row[c].tries /\ row[c].tries < MaxTries /\ row[c].sent = "no"
      BY <1>o, <2>s DEF Tried
    <3>3. \A d \in Calls : row[d].sent = "no" => ever[d] <= row[d].tries
      BY <1>o, <2>u, <3>1 DEF Tried
    <3> QED
      BY <3>1, <3>2, <3>3
  <2>1. CASE ReadForCaller(t)
    <3>1. proc[t].at = "read" /\ row' = row /\ ever' = ever
      BY <2>1 DEF ReadForCaller, At, ghosts
    <3>2. proc'[t].at \in {"idle", "block", "refuse"}
      BY <2>1, <2>i DEF ReadForCaller, Done, WellTyped, Handlers
    <3>3. proc'[t].at = "block" => proc'[t].tries = row[c].tries /\ row[c].sent = "no"
      BY <2>1, <2>i DEF ReadForCaller, Done, WellTyped, Handlers
    <3>4. row[c].tries < MaxTries
      BY <1>o, <3>1 DEF Tried
    <3>5. \A d \in Calls : row[d].sent = "no" => ever[d] <= row[d].tries
      BY <1>o, <2>u, <3>1 DEF Tried, On, Noting
    <3>6. \A d \in Calls : ever[d] <= MaxTries
      BY <1>o DEF Tried
    <3>7. proc'[t].at \in Writing => proc'[t].at = "block" /\ proc'[t].call = c
      BY <2>k, <2>i, <3>2 DEF Writing
    <3> QED
      BY <2>u, <3>1, <3>2, <3>3, <3>4, <3>5, <3>6, <3>7 DEF Tried
  <2>2. CASE CheckBlock(t) \/ CheckThrottle(t) \/ WhatsAppUndeliverable(t)
    <3>1. proc[t].at \in Writing /\ row' = row /\ ever' = ever
      BY <2>2 DEF CheckBlock, CheckThrottle, WhatsAppUndeliverable, At, ghosts, Writing
    <3>2. \/ \E station \in Writing : Goes(t, station)
          \/ \E verdict : Refuses(t, verdict)
      BY <2>2 DEF CheckBlock, CheckThrottle, WhatsAppUndeliverable, Writing
    <3>3. proc'[t].tries = proc[t].tries /\ proc'[t].call = c
      BY <3>2 DEF WellTyped, Handlers, Goes, Refuses
    <3>4. proc'[t].at \in Writing \cup {"refuse"}
      BY <3>2 DEF WellTyped, Handlers, Goes, Refuses
    <3>5. \A d \in Calls : ever[d] <= MaxTries
      BY <1>o DEF Tried
    <3>6. proc'[t].at # "read"
      BY <3>4 DEF Writing
    <3> QED
      BY <2>u, <2>s, <3>1, <3>3, <3>4, <3>5, <3>6 DEF Tried
  <2>3. ASSUME NEW channel, NEW carries \in BOOLEAN, NEW claims \in BOOLEAN,
               Accepted(t, channel, carries, claims), proc[t].at \in {"send", "sms"}
        PROVE  Tried'
    <3> DEFINE station == IF claims THEN "evidence" ELSE "record"
    <3>1. proc'[t].at = station /\ proc'[t].call = c
      BY <2>3 DEF Accepted, WellTyped, Handlers
    <3>2. proc'[t].at \in Noting /\ proc'[t].at \notin Writing \cup {"read"}
      BY <3>1 DEF Noting, Writing
    <3>3. proc[t].at \in Writing /\ row' = row
      BY <2>3 DEF Accepted, Writing
    <3>4. ever' = [ever EXCEPT ![c] = @ + 1]
      BY <2>3 DEF Accepted
    <3> HIDE DEF c, station
    <3>5. ever[c] < MaxTries /\ \A d \in Calls : ever[d] <= MaxTries
      BY <1>f, <1>o, <1>t, <2>c, <2>s, <3>3 DEF Tried
    <3>6. \A d \in Calls : ever'[d] <= MaxTries
      BY <1>f, <1>t, <2>c, <3>4, <3>5 DEF WellTyped
    <3>7. \A d \in Calls : row'[d].sent = "no" /\ ~On(t, Noting, d)' => ever'[d] <= row'[d].tries
      BY <2>c, <2>s, <3>1, <3>2, <3>3, <3>4 DEF On, WellTyped
    <3> QED
      BY <2>u, <3>2, <3>6, <3>7 DEF Tried
  <2>4. CASE WhatsAppAccepted(t) \/ SmsAccepted(t)
    BY <2>3, <2>4 DEF WhatsAppAccepted, SmsAccepted, At
  <2>5. ASSUME NEW permanent \in BOOLEAN, FinishCallerFailure(t, permanent),
               proc[t].at \in {"send", "sms"},
               \/ UNCHANGED ever
               \/ ever' = [ever EXCEPT ![c] = @ + 1]
        PROVE  Tried'
    <3> DEFINE attempts == proc[t].tries + 1
               channel == IF permanent \/ attempts >= MaxTries
                            THEN "unreachable" ELSE row[c].channel
    <3>1. row' = [row EXCEPT ![c].tries = attempts, ![c].channel = channel]
      BY <2>5 DEF FinishCallerFailure
    <3>2. proc'[t].at = "idle" /\ proc[t].at \in Writing
      BY <2>5, <2>i DEF FinishCallerFailure, Done, WellTyped, Writing
    <3>3. \A d \in Calls : d # c => row'[d] = row[d]
      BY <3>1 DEF WellTyped
    <3>4. row'[c].tries = attempts /\ row'[c].sent = row[c].sent
      <4> HIDE DEF attempts, channel
      <4> QED
        BY <2>c, <3>1 DEF WellTyped, Rows
    <3> HIDE DEF c
    <3>5. ever[c] < MaxTries /\ ever[c] <= row[c].tries /\ \A d \in Calls : ever[d] <= MaxTries
      BY <1>f, <1>o, <1>t, <2>c, <2>s, <3>2 DEF Tried
    <3>6. \A d \in Calls : ever'[d] <= MaxTries
      BY <1>f, <1>t, <2>c, <2>5, <3>5 DEF WellTyped
    <3>7. ever'[c] <= row[c].tries + 1 /\ \A d \in Calls : d # c => ever'[d] = ever[d]
      BY <1>t, <2>c, <2>5, <3>5 DEF WellTyped
    <3>8. row'[c].tries = row[c].tries + 1
      BY <2>s, <3>2, <3>4
    <3>9. \A d \in Calls : row'[d].sent = "no" => ever'[d] <= row'[d].tries
      BY <2>s, <3>2, <3>3, <3>4, <3>7, <3>8
    <3> QED
      BY <2>u, <2>i, <3>2, <3>6, <3>9 DEF Tried
  <2>6. CASE WhatsAppFails(t) \/ SmsFails(t)
    BY <2>5, <2>6 DEF WhatsAppFails, SmsFails, At, ghosts
  <2>7. CASE WhatsAppUnheard(t) \/ SmsUnheard(t)
    BY <2>5, <2>7 DEF WhatsAppUnheard, SmsUnheard, Unheard, At
  <2>8. CASE RecordLegalBasis(t) \/ LegalBasisFails(t)
    <3>1. row' = row /\ ever' = ever /\ proc[t].at = "evidence" /\ Goes(t, "record")
      BY <2>8 DEF RecordLegalBasis, LegalBasisFails, At, ghosts
    <3>2. proc'[t].at = "record" /\ proc'[t].call = c
      BY <3>1 DEF Goes, WellTyped, Handlers
    <3>3. \A d \in Calls : On(t, Noting, d)' <=> On(t, Noting, d)
      BY <3>1, <3>2 DEF On, Noting
    <3> QED
      BY <1>o, <2>u, <3>1, <3>2, <3>3 DEF Tried, Writing
  <2>9. CASE ResolveSent(t)
    <3>1. proc[t].at = "record" /\ proc'[t].at = "idle" /\ ever' = ever
      BY <2>9, <2>i DEF ResolveSent, At, Done, ghosts, WellTyped
    <3>2. row'[c].sent = "recent" /\ \A d \in Calls : d # c => row'[d] = row[d]
      BY <2>9, <2>c DEF ResolveSent, WellTyped, Rows
    <3> HIDE DEF c
    <3>3. \A d \in Calls : d # c => ~On(t, Noting, d)
      BY DEF On, c
    <3> QED
      BY <1>o, <2>u, <2>i, <3>1, <3>2, <3>3 DEF Tried
  <2>10. CASE ResolveRefused(t)
    <3>1. proc[t].at = "refuse" /\ proc'[t].at = "idle" /\ ever' = ever
      BY <2>10, <2>i DEF ResolveRefused, At, Done, ghosts, WellTyped
    <3>2. \A d \in Calls : row'[d].sent = row[d].sent /\ row'[d].tries = row[d].tries
      BY <2>10 DEF ResolveRefused, WellTyped, Rows
    <3>3. \A d \in Calls : ~On(t, Noting, d)
      BY <3>1 DEF On, Noting
    <3> QED
      BY <1>o, <2>u, <2>i, <3>1, <3>2, <3>3 DEF Tried
  <2> QED
    BY <1>5, <2>1, <2>2, <2>4, <2>6, <2>7, <2>8, <2>9, <2>10 DEF Continue
<1> QED
  BY <1>1, <1>2, <1>3, <1>4, <1>5, NextSplits

(* isThrottled keeps a person to one message a day that is known of, across*)
(* all his calls, and the counted attempts bound those sent again after a  *)
(* lost answer, while ticks do not overlap and no stamp is lost.           *)
THEOREM OncePerDay == Spec => []OneMessagePerDay
<1>1. Init => (Orderly => Paced)
  BY DEF Init, Idle, Paced
<1>2. IInv /\ (Orderly => Paced) /\ [Next]_vars => (Orderly => Paced)'
  BY PacedStep DEF IInv, TypeOK
<1>3. Init => (Orderly => Tried)
  BY Bounds DEF Init, Idle, Absent, Tried, Writing
<1>4. IInv /\ (Orderly => Tried) /\ [Next]_vars => (Orderly => Tried)'
  BY TriedStep DEF IInv, TypeOK
<1>5. (Orderly => Paced) /\ (Orderly => Tried) => OneMessagePerDay
  BY DEF Orderly, Paced, Tried, OneMessagePerDay
<1> QED
  BY <1>1, <1>2, <1>3, <1>4, <1>5, Inductive, PTL DEF Spec

-----------------------------------------------------------------------------
(* What a tick may still add to the messages about a call: until the call  *)
(* is dated, one by each tick but those that have just sent theirs; once   *)
(* it is dated, one by each that has read it before.                       *)
MayWrite(c) ==
  {t \in Ticks : IF row[c].sent = "no" THEN ~On(t, Noting, c) ELSE On(t, Writing, c)}

Allowance(c) == Cardinality(Ticks) * (1 + faults) + unheard[c]
Counted == \A c \in Calls : ever[c] + Cardinality(MayWrite(c)) <= Allowance(c)

(* Overlapping ticks and restarts repeat a message, but each tick only     *)
(* once and each restart no more than once for each tick; beyond that only *)
(* a message whose answer was lost is sent again.                          *)
MessagesBounded == \A c \in Calls : ever[c] <= Allowance(c)

(* A handler writes before it notes, and only about a call without a date. *)
LEMMA HandlerAdvances ==
  ASSUME WellTyped, NEW t \in Ticks, Continue(t)
  PROVE  /\ proc'[t].at \in Writing =>
              \/ proc[t].at \in Writing
              \/ proc[t].at = "read" /\ row[proc[t].call].sent = "no"
         /\ proc[t].at \in Noting => proc'[t].at \in Noting \/ ResolveSent(t)
<1> USE DEF WellTyped, Handlers, At, Goes, Done, Refuses, Writing, Noting
<1>i. Idle.at = "idle"
  BY DEF Idle
<1>1. CASE ReadForCaller(t)
  <2>1. proc'[t].at = "block" => row[proc[t].call].sent = "no"
    BY <1>1, <1>i DEF ReadForCaller
  <2>2. proc'[t].at \in {"idle", "block", "refuse"} /\ proc[t].at = "read"
    BY <1>1, <1>i DEF ReadForCaller
  <2> QED
    BY <2>1, <2>2
<1>2. CASE CheckBlock(t)
  BY <1>2 DEF CheckBlock
<1>3. CASE CheckThrottle(t)
  BY <1>3 DEF CheckThrottle
<1>4. CASE WhatsAppAccepted(t) \/ SmsAccepted(t) \/ WhatsAppUndeliverable(t)
  BY <1>4 DEF WhatsAppAccepted, SmsAccepted, WhatsAppUndeliverable
<1>5. CASE WhatsAppFails(t) \/ SmsFails(t) \/ WhatsAppUnheard(t) \/ SmsUnheard(t)
  BY <1>5, <1>i DEF WhatsAppFails, SmsFails, WhatsAppUnheard, SmsUnheard,
                    FinishCallerFailure
<1>6. CASE RecordLegalBasis(t) \/ LegalBasisFails(t)
  BY <1>6 DEF RecordLegalBasis, LegalBasisFails
<1>7. CASE ResolveSent(t) \/ ResolveRefused(t)
  BY <1>7, <1>i DEF ResolveSent, ResolveRefused
<1> QED
  BY <1>1, <1>2, <1>3, <1>4, <1>5, <1>6, <1>7 DEF Continue

(* Whoever has a message accepted is next to note it.                      *)
Sends(t, c) ==
  /\ On(t, Writing, c)
  /\ ever' = [ever EXCEPT ![c] = @ + 1]
  /\ UNCHANGED <<row, unheard, faults>>
  /\ proc'[t].at \in Noting /\ proc'[t].call = c

LEMMA MessagesAreSent ==
  ASSUME WellTyped, [Next]_vars
  PROVE  \/ UNCHANGED <<ever, unheard>>
         \/ \E t \in Ticks : \/ Sends(t, proc[t].call)
                            \/ \E carries \in BOOLEAN : Unheard(proc[t].call, carries)
<1>1. ASSUME NEW t \in Ticks, NEW channel, NEW carries \in BOOLEAN, NEW claims \in BOOLEAN,
             Accepted(t, channel, carries, claims), proc[t].at \in {"send", "sms"}
      PROVE  Sends(t, proc[t].call)
  <2> DEFINE station == IF claims THEN "evidence" ELSE "record"
  <2>1. proc'[t].at = station /\ proc'[t].call = proc[t].call
    BY <1>1 DEF Accepted, WellTyped, Handlers
  <2>2. proc'[t].at \in Noting
    BY <2>1 DEF Noting
  <2> QED
    BY <1>1, <2>1, <2>2 DEF Sends, On, Writing, Accepted
<1>2. ASSUME NEW t \in Ticks, Continue(t)
      PROVE  \/ UNCHANGED <<ever, unheard>>
             \/ Sends(t, proc[t].call)
             \/ \E carries \in BOOLEAN : Unheard(proc[t].call, carries)
  <2>1. CASE WhatsAppAccepted(t) \/ SmsAccepted(t)
    BY <1>1, <2>1 DEF WhatsAppAccepted, SmsAccepted, At
  <2>2. CASE ~(WhatsAppAccepted(t) \/ SmsAccepted(t))
    BY <1>2, <2>2 DEF Continue, ReadForCaller, CheckBlock, CheckThrottle,
                      WhatsAppUndeliverable,
          WhatsAppFails, SmsFails, WhatsAppUnheard, SmsUnheard, FinishCallerFailure,
          RecordLegalBasis, LegalBasisFails,
          ResolveSent, ResolveRefused, ghosts
  <2> QED
    BY <2>1, <2>2
<1>3. CASE Outside \/ (\E t \in Ticks, c \in Calls : TickPicks(t, c)) \/ Fault \/ UNCHANGED vars
  BY <1>3, OutsideLeavesHandlers DEF TickPicks, Fault, vars, ghosts
<1> QED
  BY <1>2, <1>3, NextSplits

(* A call gets its date from the handler that records its message.         *)
LEMMA DatesAreRecorded ==
  ASSUME WellTyped, Carries, [Next]_vars, NEW c \in Calls
  PROVE  \/ row'[c].sent = "no" <=> row[c].sent = "no"
         \/ row'[c].sent # "no" /\ \E t \in Ticks : ResolveSent(t) /\ On(t, Noting, c)
<1>1. ASSUME NEW t \in Ticks, ResolveSent(t)
      PROVE  row'[c] = row[c] \/ (row'[c].sent # "no" /\ On(t, Noting, c))
  <2> DEFINE d == proc[t].call
  <2>1. proc[t].at = "record" /\ d \in Calls
    BY <1>1 DEF ResolveSent, At, Carries
  <2>2. /\ row'[d].sent = "recent"
        /\ \A e \in Calls : e # d => row'[e] = row[e]
    BY <1>1, <2>1 DEF ResolveSent, WellTyped, Rows
  <2> QED
    BY <2>1, <2>2 DEF On, Noting
<1>2. CASE Outside
  BY <1>2, OutsideStamps DEF Stamps
<1>3. ASSUME NEW t \in Ticks, Continue(t), ~ResolveSent(t) PROVE row'[c].sent = "no" <=> row[c].sent = "no"
  BY <1>3, ContinueStamps DEF Stamps
<1>4. CASE (\E t \in Ticks, d \in Calls : TickPicks(t, d)) \/ Fault \/ UNCHANGED vars
  BY <1>4 DEF TickPicks, Fault, vars
<1> QED
  BY <1>1, <1>2, <1>3, <1>4, NextSplits

(* Without a fault, no tick is added to those that may still write.        *)
LEMMA FewerMayWrite ==
  ASSUME WellTyped, Carries, [Next]_vars, ~Fault, NEW c \in Calls, NEW t \in Ticks, t \in MayWrite(c)'
  PROVE  t \in MayWrite(c) /\ ~Sends(t, c)
<1>m. IF row'[c].sent = "no" THEN ~On(t, Noting, c)' ELSE On(t, Writing, c)'
  BY DEF MayWrite
<1>d. \A u \in Ticks : ~(On(u, Writing, c) /\ On(u, Noting, c))
  BY DEF On, Writing, Noting
<1>p. \/ proc'[t] = proc[t]
      \/ proc[t].at = "idle" /\ proc'[t].at = "read"
      \/ Continue(t)
  <2>1. ASSUME NEW u \in Ticks, NEW e \in Calls, TickPicks(u, e)
        PROVE  proc'[t] = proc[t] \/ (proc[t].at = "idle" /\ proc'[t].at = "read")
    <3>1. At(u, "idle") /\ proc' = [proc EXCEPT ![u] = [Idle EXCEPT !.at = "read", !.call = e]]
      BY <2>1 DEF TickPicks
    <3> QED
      BY <3>1 DEF WellTyped, At, Idle
  <2>2. ASSUME NEW u \in Ticks, u # t, Continue(u) PROVE proc'[t] = proc[t]
    BY <2>2, HandlerKeepsCall
  <2>3. CASE Outside \/ UNCHANGED vars
    BY <2>3, OutsideLeavesHandlers DEF vars
  <2> QED
    BY <2>1, <2>2, <2>3, NextSplits
<1>1. ~Sends(t, c)
  <2> SUFFICES ASSUME Sends(t, c) PROVE FALSE
    OBVIOUS
  <2>1. proc'[t].at \in Noting /\ proc'[t].call = c
    BY DEF Sends
  <2> QED
    BY <1>m, <2>1 DEF On, Writing, Noting
<1>2. CASE row'[c].sent # "no"
  <2>1. proc'[t].at \in Writing /\ proc'[t].call = c
    BY <1>2, <1>m DEF On
  <2>2. ASSUME proc'[t] = proc[t] PROVE t \in MayWrite(c)
    BY <1>d, <2>1, <2>2 DEF MayWrite, On
  <2>3. ASSUME Continue(t) PROVE t \in MayWrite(c)
    <3>1. proc[t].call = c
      BY <2>1, <2>3, HandlerKeepsCall DEF Idle, Writing
    <3>2. CASE proc[t].at \in Writing
      BY <1>d, <3>1, <3>2 DEF MayWrite, On
    <3>3. CASE proc[t].at = "read" /\ row[c].sent = "no"
      BY <3>3 DEF MayWrite, On, Noting
    <3> QED
      BY <2>1, <2>3, <3>1, <3>2, <3>3, HandlerAdvances
  <2> QED
    BY <1>1, <1>p, <2>1, <2>2, <2>3 DEF Writing
<1>3. CASE row'[c].sent = "no"
  <2>1. row[c].sent = "no"
    BY <1>3, DatesAreRecorded
  <2>2. ASSUME On(t, Noting, c) PROVE FALSE
    <3>1. proc[t].at \in Noting /\ proc[t].call = c /\ ~(proc'[t].at \in Noting /\ proc'[t].call = c)
      BY <1>3, <1>m, <2>2 DEF On
    <3>2. Continue(t)
      BY <1>p, <3>1 DEF Noting
    <3>3. ~ResolveSent(t)
      BY <1>3, <3>1 DEF ResolveSent, WellTyped, Rows
    <3>4. proc'[t].at \in Noting
      BY <3>1, <3>2, <3>3, HandlerAdvances
    <3>5. proc'[t].call = c
      BY <3>1, <3>2, <3>4, HandlerKeepsCall DEF Idle, Noting
    <3> QED
      BY <3>1, <3>4, <3>5
  <2> QED
    BY <1>1, <2>1, <2>2 DEF MayWrite
<1> QED
  BY <1>1, <1>2, <1>3

LEMMA PartOfTicks ==
  ASSUME NEW S \in SUBSET Ticks
  PROVE  /\ IsFiniteSet(S) /\ Cardinality(S) \in Nat /\ Cardinality(Ticks) \in Nat
         /\ Cardinality(S) <= Cardinality(Ticks)
BY TicksAreFinite, FS_Subset, FS_CardinalityType

LEMMA CountedStep == WellTyped /\ Carries /\ Counted /\ [Next]_vars => Counted'
<1> SUFFICES ASSUME WellTyped, Carries, Counted, [Next]_vars, NEW c \in Calls
             PROVE  (ever[c] + Cardinality(MayWrite(c)) <= Allowance(c))'
  BY DEF Counted
<1> DEFINE n == Cardinality(Ticks)
           m == Cardinality(MayWrite(c))
<1>t. /\ faults \in Nat /\ ever[c] \in Nat /\ ever'[c] \in Nat
      /\ unheard[c] \in Nat /\ unheard'[c] \in Nat
  BY Bounds, TypeStep DEF WellTyped
<1>n. /\ MayWrite(c) \subseteq Ticks /\ MayWrite(c)' \subseteq Ticks /\ IsFiniteSet(MayWrite(c))
      /\ n \in Nat /\ m \in Nat /\ m <= n /\ m' \in Nat /\ m' <= n
  <2>1. MayWrite(c) \subseteq Ticks /\ MayWrite(c)' \subseteq Ticks
    BY DEF MayWrite
  <2> QED
    BY <2>1, PartOfTicks
<1>c. ever[c] + m <= n * (1 + faults) + unheard[c]
  BY DEF Counted, Allowance
<1>f. faults' = faults \/ faults' = faults + 1
  BY FaultsAreCounted
<1>x. n * (1 + (faults + 1)) = n * (1 + faults) + n /\ n * (1 + faults) \in Nat
  BY <1>n, <1>t
<1>g. n * (1 + faults) <= n * (1 + faults') /\ n * (1 + faults') \in Nat
  BY <1>n, <1>t, <1>f, <1>x
<1>a. (ever[c] + Cardinality(MayWrite(c)) <= Allowance(c))' <=>
        ever'[c] + m' <= n * (1 + faults') + unheard'[c]
  BY DEF Allowance
<1> HIDE DEF n, m
<1>1. CASE Fault
  <2>1. faults' = faults + 1 /\ ever' = ever /\ unheard' = unheard
    BY <1>1, FaultsAreCounted
  <2>2. ever[c] + m' <= n * (1 + (faults + 1)) + unheard[c]
    BY <1>n, <1>c, <1>t, <1>x
  <2> QED
    BY <1>a, <2>1, <2>2
<1>2. CASE ~Fault
  <2>1. MayWrite(c)' \subseteq MayWrite(c)
    BY <1>2, <1>n, FewerMayWrite
  <2>m. m' <= m
    BY <1>n, <2>1, FS_Subset DEF m
  <2>2. CASE ever'[c] = ever[c] /\ unheard'[c] = unheard[c]
    <3>1. ever[c] + m' <= n * (1 + faults') + unheard[c]
      BY <1>n, <1>c, <1>t, <1>x, <1>g, <2>m
    <3> QED
      BY <1>a, <2>2, <3>1
  <2>3. CASE ever'[c] = ever[c] + 1 /\ unheard'[c] = unheard[c] + 1
    <3>1. ever[c] + 1 + m' <= n * (1 + faults') + (unheard[c] + 1)
      BY <1>n, <1>c, <1>t, <1>x, <1>g, <2>m
    <3> QED
      BY <1>a, <2>3, <3>1
  <2>4. ASSUME NEW t \in Ticks, Sends(t, c)
        PROVE  (ever[c] + Cardinality(MayWrite(c)) <= Allowance(c))'
    <3>1. t \in MayWrite(c)
      BY <2>4 DEF Sends, MayWrite, On, Writing, Noting
    <3>2. MayWrite(c)' \subseteq MayWrite(c) \ {t}
      BY <1>2, <2>1, <2>4, FewerMayWrite
    <3>3. Cardinality(MayWrite(c) \ {t}) = m - 1 /\ IsFiniteSet(MayWrite(c) \ {t})
      BY <1>n, <3>1, FS_RemoveElement DEF m
    <3>4. Cardinality(MayWrite(c)') <= Cardinality(MayWrite(c) \ {t})
      BY <3>2, <3>3, FS_Subset
    <3>5. m' <= m - 1
      BY <3>3, <3>4 DEF m
    <3>6. ever'[c] = ever[c] + 1 /\ unheard' = unheard
      BY <2>4 DEF Sends, WellTyped
    <3>7. ever[c] + 1 + m' <= n * (1 + faults') + unheard[c]
      BY <1>n, <1>c, <1>t, <1>x, <1>g, <3>5
    <3> QED
      BY <1>a, <3>6, <3>7
  <2>5. \/ ever'[c] = ever[c] /\ unheard'[c] = unheard[c]
        \/ ever'[c] = ever[c] + 1 /\ unheard'[c] = unheard[c] + 1
        \/ \E t \in Ticks : Sends(t, c)
    <3>1. ASSUME NEW t \in Ticks, Sends(t, proc[t].call), proc[t].call # c
          PROVE  ever'[c] = ever[c] /\ unheard'[c] = unheard[c]
      BY <3>1 DEF Sends, WellTyped
    <3>2. ASSUME NEW d, NEW carries \in BOOLEAN, Unheard(d, carries)
          PROVE  \/ ever'[c] = ever[c] /\ unheard'[c] = unheard[c]
                 \/ ever'[c] = ever[c] + 1 /\ unheard'[c] = unheard[c] + 1
      BY <3>2 DEF Unheard, WellTyped
    <3>3. CASE UNCHANGED <<ever, unheard>>
      BY <3>3
    <3>4. ASSUME NEW t \in Ticks, Sends(t, proc[t].call) \/
                   \E carries \in BOOLEAN : Unheard(proc[t].call, carries)
          PROVE  \/ ever'[c] = ever[c] /\ unheard'[c] = unheard[c]
                 \/ ever'[c] = ever[c] + 1 /\ unheard'[c] = unheard[c] + 1
                 \/ \E u \in Ticks : Sends(u, c)
      BY <3>1, <3>2, <3>4
    <3> QED
      BY <3>3, <3>4, MessagesAreSent
  <2> QED
    BY <2>2, <2>3, <2>4, <2>5
<1> QED
  BY <1>1, <1>2

(* Nobody is written to about one call more often than there are ticks at  *)
(* once, and again for each fault and each lost answer: a failed stamp     *)
(* repeats a message only through a tick that dies or one that had read    *)
(* the call before.                                                        *)
THEOREM MessagesAreBounded == Spec => []MessagesBounded
<1>1. Init => Counted
  <2> SUFFICES ASSUME Init, NEW c \in Calls
               PROVE  ever[c] + Cardinality(MayWrite(c)) <= Allowance(c)
    BY DEF Counted
  <2>1. ever[c] = 0 /\ unheard[c] = 0 /\ faults = 0
    BY DEF Init
  <2>2. MayWrite(c) \subseteq Ticks
    BY DEF MayWrite
  <2> QED
    BY <2>1, <2>2, PartOfTicks DEF Allowance
<1>2. IInv /\ Counted => MessagesBounded
  <2> SUFFICES ASSUME WellTyped, Counted, NEW c \in Calls PROVE ever[c] <= Allowance(c)
    BY DEF IInv, TypeOK, MessagesBounded
  <2>1. MayWrite(c) \subseteq Ticks
    BY DEF MayWrite
  <2>2. ever[c] \in Nat /\ unheard[c] \in Nat /\ faults \in Nat
    BY Bounds DEF WellTyped
  <2>3. Cardinality(MayWrite(c)) \in Nat /\ Cardinality(Ticks) \in Nat
    BY <2>1, PartOfTicks
  <2>4. ever[c] + Cardinality(MayWrite(c)) <= Allowance(c)
    BY DEF Counted
  <2>5. Cardinality(Ticks) * (1 + faults) \in Nat
    BY <2>2, <2>3
  <2>6. Allowance(c) \in Nat
    BY <2>2, <2>5 DEF Allowance
  <2> QED
    BY <2>2, <2>3, <2>4, <2>6
<1>3. IInv /\ Counted /\ [Next]_vars => Counted'
  BY CountedStep DEF IInv, TypeOK
<1> QED
  BY <1>1, <1>2, <1>3, Inductive, PTL DEF Spec
=============================================================================
