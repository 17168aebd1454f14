----------------------------- MODULE NumberLease -----------------------------
(***************************************************************************)
(* What the virtual-number pool promises, with no handler, no stale read   *)
(* and no provider in sight: a number is listed once, is leased to at most *)
(* one subscription, never passes from one subscription to another, and is *)
(* never listed again once it was given back.  A subscription holds at     *)
(* most one number.  RecallOnboarding implements this.                     *)
(***************************************************************************)
CONSTANTS Subs, Numbers, NoSub

VARIABLES phase,    \* number -> where it is in its life
          tenant    \* number -> the subscription it is leased to, or NoSub

leaseVars == <<phase, tenant>>

Phases == {"unlisted", "available", "assigned", "released"}

LeaseInit ==
  /\ phase = [n \in Numbers |-> "unlisted"]
  /\ tenant = [n \in Numbers |-> NoSub]

(* A bought number enters the pool.                                        *)
List(n) ==
  /\ phase[n] = "unlisted"
  /\ phase' = [phase EXCEPT ![n] = "available"]
  /\ UNCHANGED tenant

(* A free number goes to a subscription that has none.                     *)
Lease(n, s) ==
  /\ phase[n] = "available"
  /\ \A m \in Numbers : tenant[m] # s
  /\ phase' = [phase EXCEPT ![n] = "assigned"]
  /\ tenant' = [tenant EXCEPT ![n] = s]

(* A number, leased or not, is given back for good.                        *)
Return(n) ==
  /\ phase[n] \in {"available", "assigned"}
  /\ phase' = [phase EXCEPT ![n] = "released"]
  /\ tenant' = [tenant EXCEPT ![n] = NoSub]

LeaseNext ==
  \/ \E n \in Numbers : List(n)
  \/ \E n \in Numbers, s \in Subs : Lease(n, s)
  \/ \E n \in Numbers : Return(n)

LeaseSpec == LeaseInit /\ [][LeaseNext]_leaseVars
==============================================================================
