---------------------------- MODULE StripeWebhook ----------------------------
(***************************************************************************)
(* The ledger of Stripe events that makes the webhook idempotent.  Stripe  *)
(* delivers an event until it is answered with success, and now and then   *)
(* once more; each delivery first takes the event's row, then runs the     *)
(* handler, then closes the row.                                           *)
(*                                                                         *)
(* What the handler does is the business of the module that instantiates   *)
(* this one: a worker is at "apply" while it runs.  Signature checks are   *)
(* taken as passed.                                                        *)
(***************************************************************************)
EXTENDS Naturals

CONSTANTS Events,
          Workers,     \* deliveries being handled at once
          MaxFaults,   \* bound: handlers that throw or die, answers that get lost
          NoEvent      \* no member of Events

VARIABLES entry,    \* event -> its StripeWebhookEvent row
          stale,    \* events whose row has been pending for ten minutes
          owed,     \* events Stripe still has to deliver
          early,    \* events answered as duplicates while their row was pending
          worker, faults

hook == <<entry, stale, owed, early, worker, faults>>

Statuses == {"none", "pending", "processed", "failed"}
Stations == {"idle", "apply", "settle"}
Idle == [at |-> "idle", event |-> NoEvent]

At(w, station) == worker[w].at = station
Working(w) == At(w, "apply") \/ At(w, "settle")
Goes(w, station) == worker' = [worker EXCEPT ![w].at = station]
Rests(w) == worker' = [worker EXCEPT ![w] = Idle]

InitWith(processed) ==
  /\ entry = [e \in Events |-> IF e \in processed THEN "processed" ELSE "none"]
  /\ stale = {}
  /\ owed = {}
  /\ early = {}
  /\ worker = [w \in Workers |-> Idle]
  /\ faults = 0

(* Something happened at Stripe.                                           *)
Reports(happened) ==
  /\ owed' = owed \cup happened
  /\ UNCHANGED <<entry, stale, early, worker, faults>>

(* Slip: a pending row is taken over whatever its age.                     *)
ClaimableAnyAge(e) == entry[e] \in {"failed", "pending"}

(* Slip: the row of a handler that threw is not taken back.                *)
ClaimableStaleOnly(e) == entry[e] = "pending" /\ e \in stale

(* claimForRetry, for an event whose row is there already.  The insert     *)
(* that fails before it changes nothing: the two are one step.             *)
Claimable(e) == entry[e] = "failed" \/ (entry[e] = "pending" /\ e \in stale)

Deliver(w, e) ==
  /\ At(w, "idle") /\ e \in owed
  /\ entry[e] = "none" \/ Claimable(e)
  /\ entry' = [entry EXCEPT ![e] = "pending"]
  /\ stale' = stale \ {e}
  /\ worker' = [worker EXCEPT ![w] = [at |-> "apply", event |-> e]]
  /\ UNCHANGED <<owed, early, faults>>

(* Answered with success: Stripe does not come back.                       *)
AnswerDuplicate(e) ==
  /\ e \in owed
  /\ entry[e] # "none" /\ ~Claimable(e)
  /\ owed' = owed \ {e}
  /\ early' = IF entry[e] = "pending" THEN early \cup {e} ELSE early
  /\ UNCHANGED <<entry, stale, worker, faults>>

(* The handler has run.  Stripe may miss the answer, and deliver the event *)
(* once more.                                                              *)
Close(w) ==
  /\ At(w, "settle")
  /\ entry' = [entry EXCEPT ![worker[w].event] = "processed"]
  /\ Rests(w)
  /\ UNCHANGED <<stale, early>>

Settle(w) == Close(w) /\ owed' = owed \ {worker[w].event} /\ UNCHANGED faults

SettleUnheard(w) == Close(w) /\ faults < MaxFaults /\ faults' = faults + 1 /\ UNCHANGED owed

(* The handler threw, or the write that closes the row did: the row says   *)
(* so and the answer is a 500.                                             *)
Reject(w) ==
  /\ Working(w)
  /\ entry' = [entry EXCEPT ![worker[w].event] = "failed"]
  /\ Rests(w)
  /\ UNCHANGED <<stale, owed, early>>

Throws(w) == faults < MaxFaults /\ faults' = faults + 1 /\ Reject(w)

(* The process ends, or the database is gone for the closing write too.    *)
Dies(w) ==
  /\ ~At(w, "idle")
  /\ faults < MaxFaults
  /\ faults' = faults + 1
  /\ Rests(w)
  /\ UNCHANGED <<entry, stale, owed, early>>

(* STALE_PENDING_MS.  No handler runs that long.                           *)
GrowsStale(e) ==
  /\ entry[e] = "pending" /\ e \notin stale
  /\ \A w \in Workers : Working(w) => worker[w].event # e
  /\ stale' = stale \cup {e}
  /\ UNCHANGED <<entry, owed, early, worker, faults>>

-----------------------------------------------------------------------------
WellTyped ==
  /\ entry \in [Events -> Statuses]
  /\ stale \subseteq Events
  /\ owed \subseteq Events
  /\ early \subseteq Events
  /\ worker \in [Workers -> [at : Stations, event : Events \cup {NoEvent}]]
  /\ faults \in 0 .. MaxFaults

(* An event is never run by two deliveries at once: the row, claimed by a  *)
(* conditional update, admits one - although Stripe delivers an event      *)
(* again while its first delivery is still at work.                        *)
OneWorkerPerEvent ==
  \A v, w \in Workers :
    v # w /\ Working(v) /\ Working(w) => worker[v].event # worker[w].event
=============================================================================
