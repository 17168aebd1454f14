----------------------- MODULE RecallOnboardingProofs -----------------------
(***************************************************************************)
(* Proofs about RecallOnboarding, for any number of subscriptions, numbers *)
(* and concurrent requests, any retry bound and any number of restarts.    *)
(*                                                                         *)
(* The inductive invariant has four parts, each proved with the help of    *)
(* the ones before it: Shape (types, which fields a handler has filled in  *)
(* at each station, who is buying which number), Pool (how the database    *)
(* and the provider may disagree), Walk (every status a handler has ever   *)
(* read is backed by milestones that really happened, so a stale write     *)
(* cannot skip one) and Behind (an assignment is stamped behind a claim).  *)
(***************************************************************************)
EXTENDS RecallOnboarding, TLAPS

(* What a handler carries at each station.                                 *)
Carries ==
  \A p \in Procs :
    /\ proc[p].at \in {"sign", "bind", "find", "claim", "advance", "templates",
                       "forwarding", "verify", "activate"} => proc[p].sub \in Subs
    /\ proc[p].at \in {"claim", "release", "unlist", "list"} => proc[p].num \in Numbers
    /\ proc[p].at = "sign" => proc[p].seen = "paid"
    /\ proc[p].at = "advance" => proc[p].seen = "meta_connected"
    /\ proc[p].at = "templates" => proc[p].seen = "number_assigned"
    /\ proc[p].at = "forwarding" => proc[p].seen = "templates_approved"
    /\ proc[p].at = "activate" => proc[p].seen = "forwarding_verified"
    /\ proc[p].sub = NoSub => proc[p].seen = "absent"

(* A number being bought is on our account with no row yet, and is bought  *)
(* by one handler only; a number being released has a row.                 *)
Buying ==
  \A p \in Procs :
    /\ At(p, "list") => held[proc[p].num] /\ phase[proc[p].num] = "unlisted"
    /\ At(p, "release") => phase[proc[p].num] # "unlisted"
    /\ At(p, "unlist") => phase[proc[p].num] # "unlisted"
    /\ \A q \in Procs : At(p, "list") /\ At(q, "list") /\ p # q
                          => proc[p].num # proc[q].num

Shape == TypeOK /\ Carries /\ Buying

(* The two ways the database and the provider may disagree, and what a     *)
(* handler between the halves of a release knows.                          *)
Pool ==
  /\ ReleasedIsGivenBack
  /\ ListedIsOurs
  /\ \A p \in Procs : At(p, "unlist") => ~held[proc[p].num]

(* The milestones up to the status a handler read are reached for good.    *)
SeenIsReached ==
  \A p \in Procs, m \in Milestones :
    Rank(m) <= Rank(proc[p].seen) => m \in reached[proc[p].sub]

Walk == NothingSkipped /\ SeenIsReached

-----------------------------------------------------------------------------
(* The positions in the onboarding sequence.                               *)
LEMMA RankValues ==
  /\ Rank("absent") = 0
  /\ Rank("paid") = 1
  /\ Rank("contract_signed") = 2
  /\ Rank("meta_connected") = 3
  /\ Rank("number_assigned") = 4
  /\ Rank("templates_approved") = 5
  /\ Rank("forwarding_pending") = 6
  /\ Rank("forwarding_verified") = 7
  /\ Rank("active") = 8
BY DEF Rank

(* Whatever ranks no higher than the next status is that status or ranks   *)
(* no higher than the one before it.                                       *)
LEMMA NextCovers ==
  ASSUME NEW from \in Statuses, NEW to \in Milestones, NEW m \in Milestones,
         IsNext(from, to) \/ (from = "absent" /\ to = "paid"),
         Rank(m) <= Rank(to)
  PROVE  m = to \/ Rank(m) <= Rank(from)
BY RankValues DEF IsNext, Statuses, Milestones

(* Only meta_connected comes right before number_assigned, and so on: the  *)
(* sequence has one predecessor for each status.                           *)
LEMMA Predecessors ==
  ASSUME NEW from \in Statuses
  PROVE  /\ IsNext(from, "contract_signed") => from = "paid"
         /\ IsNext(from, "meta_connected") => from = "contract_signed"
         /\ IsNext(from, "number_assigned") => from = "meta_connected"
BY RankValues DEF IsNext, Statuses, Milestones

-----------------------------------------------------------------------------
LEMMA ShapeInit == Init => Shape
BY NoneAreNone, BoundsAreNat
   DEF Init, Shape, TypeOK, Carries, Buying, At, Idle, Stations, Statuses, Milestones

LEMMA ShapeStep == Shape /\ [Next]_vars => Shape'
<1> SUFFICES ASSUME Shape, [Next]_vars PROVE Shape'
  OBVIOUS
<1> USE NoneAreNone, TickIsNoWorker, BoundsAreNat
        DEF Shape, TypeOK, Carries, Buying, Procs, Stations, Statuses, Milestones,
            subVars, poolVars, account, At, Done, Starts, Idle
<1>1. ASSUME NEW s \in Subs, EnsureSubscription(s) PROVE Shape'
  BY <1>1 DEF EnsureSubscription, Advance
<1>2. ASSUME NEW s \in Subs, TemplateReview(s) PROVE Shape'
  BY <1>2 DEF TemplateReview
<1>3. ASSUME NEW p \in Procs, NEW s \in Subs, BeginSign(p, s) PROVE Shape'
  BY <1>3, Predecessors DEF BeginSign, CanSignContract
<1>4. ASSUME NEW p \in Procs, NEW s \in Subs, BeginConnect(p, s) PROVE Shape'
  BY <1>4 DEF BeginConnect
<1>5. ASSUME NEW p \in Procs, NEW s \in Subs, BeginAssign(p, s) PROVE Shape'
  BY <1>5 DEF BeginAssign
<1>6. ASSUME NEW p \in Procs, NEW n \in Numbers, BeginRelease(p, n) PROVE Shape'
  BY <1>6 DEF BeginRelease
<1>7. ASSUME NEW p \in Procs, NEW n \in Numbers, BuyNumber(p, n) PROVE Shape'
  BY <1>7 DEF BuyNumber
<1>8. ASSUME NEW p \in Procs, NEW n \in Numbers, IncomingCall(p, n) PROVE Shape'
  BY <1>8 DEF IncomingCall
<1>9. ASSUME NEW p \in Procs, NEW s \in Subs, BeginTemplates(p, s) PROVE Shape'
  BY <1>9 DEF BeginTemplates
<1>10. ASSUME NEW p \in Procs, Continue(p) PROVE Shape'
  <2>1. CASE FinishSign(p)
    BY <2>1 DEF FinishSign, Advance
  <2>2. CASE FinishConnect(p)
    BY <2>2 DEF FinishConnect
  <2>3. CASE ConnectFails(p) \/ PoolEmpty(p) \/ ClaimCollides(p)
             \/ ProviderRefuses(p) \/ ListingFails(p) \/ AlreadyVerified(p)
    BY <2>3 DEF ConnectFails, PoolEmpty, ClaimCollides, ProviderRefuses,
                ListingFails, AlreadyVerified
  <2>4. CASE FindNumber(p)
    BY <2>4 DEF FindNumber, Available
  <2>5. CASE ClaimNumber(p)
    <3>1. CASE IsNext(proc[p].seen, "number_assigned")
      BY <2>5, <3>1, Predecessors DEF ClaimNumber
    <3>2. CASE ~IsNext(proc[p].seen, "number_assigned")
      BY <2>5, <3>2 DEF ClaimNumber
    <3> QED
      BY <3>1, <3>2
  <2>6. CASE LoseClaim(p)
    BY <2>6 DEF LoseClaim
  <2>7. CASE AdvanceAssigned(p)
    BY <2>7 DEF AdvanceAssigned, Advance
  <2>8. CASE ProviderReleases(p)
    BY <2>8 DEF ProviderReleases
  <2>9. CASE Unlist(p)
    BY <2>9 DEF Unlist
  <2>15. CASE ReleaseUnheard(p)
    BY <2>15 DEF ReleaseUnheard
  <2>10. CASE ListNumber(p)
    BY <2>10 DEF ListNumber
  <2>11. CASE MarkTemplates(p)
    BY <2>11 DEF MarkTemplates, Advance
  <2>12. CASE OpenForwarding(p)
    BY <2>12 DEF OpenForwarding, Advance
  <2>13. CASE VerifyForwarding(p)
    BY <2>13 DEF VerifyForwarding, Advance
  <2>14. CASE Activate(p)
    BY <2>14 DEF Activate, Advance
  <2> QED
    BY <1>10, <2>1, <2>2, <2>3, <2>4, <2>5, <2>6, <2>7, <2>8, <2>9, <2>10,
       <2>11, <2>12, <2>13, <2>14, <2>15 DEF Continue
<1>11. CASE Crash
  BY <1>11 DEF Crash
<1>12. CASE UNCHANGED vars
  BY <1>12 DEF vars
<1> QED
  BY <1>1, <1>2, <1>3, <1>4, <1>5, <1>6, <1>7, <1>8, <1>9, <1>10, <1>11, <1>12
     DEF Next, Begin, TickBegins, SweepAssigns

THEOREM TypeCorrect == Spec => []TypeOK
<1>1. Spec => []Shape
  BY ShapeInit, ShapeStep, PTL DEF Spec
<1> QED
  BY <1>1, PTL DEF Shape

-----------------------------------------------------------------------------
(* A step that neither touches the pool nor puts a handler at, or takes it *)
(* from, the second half of a release.                                     *)
LEMMA PoolFrame ==
  ASSUME Shape, Pool, UNCHANGED <<phase, held, adrift>>,
         \A p \in Procs : At(p, "unlist")' <=> At(p, "unlist"),
         \A p \in Procs : At(p, "unlist") => proc'[p].num = proc[p].num
  PROVE  Pool'
BY DEF Shape, TypeOK, Pool, ReleasedIsGivenBack, ListedIsOurs, At

LEMMA PoolInit == Init => Pool
BY DEF Init, Pool, ReleasedIsGivenBack, ListedIsOurs, Idle, At

LEMMA PoolStep == Shape /\ Pool /\ [Next]_vars => Pool'
<1> SUFFICES ASSUME Shape, Pool, [Next]_vars PROVE Pool'
  OBVIOUS
<1>t. TypeOK /\ Carries /\ Buying
  BY DEF Shape
<1>1. ASSUME NEW s \in Subs, EnsureSubscription(s) \/ TemplateReview(s) PROVE Pool'
  BY <1>1, PoolFrame DEF EnsureSubscription, TemplateReview, poolVars, account, At
<1>2. ASSUME NEW p \in Procs, NEW s \in Subs,
             BeginSign(p, s) \/ BeginConnect(p, s) \/ BeginAssign(p, s)
             \/ BeginTemplates(p, s)
      PROVE  Pool'
  BY <1>2, <1>t, PoolFrame
     DEF BeginSign, BeginConnect, BeginAssign, BeginTemplates, Starts, At,
         TypeOK, poolVars, account
<1>3. ASSUME NEW p \in Procs, NEW n \in Numbers,
             BeginRelease(p, n) \/ IncomingCall(p, n)
      PROVE  Pool'
  BY <1>3, <1>t, PoolFrame DEF BeginRelease, IncomingCall, Starts, At, TypeOK, poolVars, account
<1>4. ASSUME NEW p \in Procs, NEW n \in Numbers, BuyNumber(p, n) PROVE Pool'
  <2>1. phase[n] = "unlisted" /\ UNCHANGED <<phase, adrift>>
        /\ held' = [held EXCEPT ![n] = TRUE]
    BY <1>4 DEF BuyNumber
  <2>2. \A q \in Procs : At(q, "unlist") <=> At(q, "unlist")'
    BY <1>4, <1>t DEF BuyNumber, Starts, At, TypeOK
  <2>3. \A q \in Procs : At(q, "unlist") => proc'[q].num = proc[q].num /\ proc[q].num \in Numbers
    BY <1>4, <1>t DEF BuyNumber, Starts, At, TypeOK, Carries
  <2> QED
    BY <2>1, <2>2, <2>3, <1>t
       DEF Pool, ReleasedIsGivenBack, ListedIsOurs, TypeOK, Buying, At
<1>5. ASSUME NEW p \in Procs, Continue(p) PROVE Pool'
  <2>1. CASE FinishSign(p) \/ FinishConnect(p) \/ ConnectFails(p) \/ AdvanceAssigned(p)
    BY <2>1, <1>t, PoolFrame
       DEF FinishSign, FinishConnect, ConnectFails, AdvanceAssigned, Done, Idle, At,
           TypeOK, poolVars, account
  <2>2. CASE FindNumber(p) \/ PoolEmpty(p) \/ LoseClaim(p) \/ ClaimCollides(p)
    BY <2>2, <1>t, PoolFrame
       DEF FindNumber, PoolEmpty, LoseClaim, ClaimCollides, Done, Idle, At, TypeOK, poolVars, account
  <2>3. CASE ProviderRefuses(p) \/ ListingFails(p) \/ MarkTemplates(p) \/ OpenForwarding(p)
    BY <2>3, <1>t, PoolFrame
       DEF ProviderRefuses, ListingFails, MarkTemplates, OpenForwarding, Done, Idle, At,
           TypeOK, poolVars, account
  <2>4. CASE VerifyForwarding(p) \/ AlreadyVerified(p) \/ Activate(p)
    BY <2>4, <1>t, PoolFrame
       DEF VerifyForwarding, AlreadyVerified, Activate, Done, Idle, At, TypeOK, poolVars, account
  <2>5. CASE ClaimNumber(p)
    <3> DEFINE n == proc[p].num
    <3>1. /\ n \in Numbers
          /\ phase[n] = "available"
          /\ phase' = [phase EXCEPT ![n] = "assigned"]
          /\ UNCHANGED <<held, adrift>>
      BY <2>5, <1>t DEF ClaimNumber, Carries, At, account
    <3>2. \A q \in Procs : At(q, "unlist")' <=> At(q, "unlist")
      BY <2>5, <1>t DEF ClaimNumber, Done, Idle, At, TypeOK
    <3>3. \A q \in Procs : At(q, "unlist") => proc'[q].num = proc[q].num
      BY <2>5, <1>t DEF ClaimNumber, Done, Idle, At, TypeOK
    <3> QED
      BY <3>1, <3>2, <3>3, <1>t
         DEF Pool, ReleasedIsGivenBack, ListedIsOurs, TypeOK, At
  <2>6. CASE ProviderReleases(p)
    <3> DEFINE n == proc[p].num
    <3>1. /\ n \in Numbers
          /\ held' = [held EXCEPT ![n] = FALSE]
          /\ UNCHANGED <<phase, adrift>>
      BY <2>6, <1>t DEF ProviderReleases, Carries, At
    <3>2. At(p, "unlist")' /\ proc'[p].num = n
      BY <2>6, <1>t DEF ProviderReleases, At, TypeOK
    <3>3. \A q \in Procs \ {p} : proc'[q] = proc[q]
      BY <2>6, <1>t DEF ProviderReleases, TypeOK
    <3> QED
      BY <3>1, <3>2, <3>3, <1>t
         DEF Pool, ReleasedIsGivenBack, ListedIsOurs, TypeOK, At
  <2>7. CASE Unlist(p)
    <3> DEFINE n == proc[p].num
    <3>1. /\ n \in Numbers
          /\ ~held[n]
          /\ phase' = [phase EXCEPT ![n] = "released"]
          /\ adrift' = adrift \ {n}
          /\ UNCHANGED held
      BY <2>7, <1>t DEF Unlist, Carries, At, Pool
    <3>2. ~At(p, "unlist")'
      BY <2>7, <1>t DEF Unlist, Done, Idle, At, TypeOK
    <3>3. \A q \in Procs \ {p} : proc'[q] = proc[q]
      BY <2>7, <1>t DEF Unlist, Done, TypeOK
    <3> QED
      BY <3>1, <3>2, <3>3, <1>t
         DEF Pool, ReleasedIsGivenBack, ListedIsOurs, TypeOK, At
  <2>8. CASE ListNumber(p)
    <3> DEFINE n == proc[p].num
    <3>1. /\ n \in Numbers
          /\ held[n]
          /\ phase' = [phase EXCEPT ![n] = "available"]
          /\ UNCHANGED <<held, adrift>>
      BY <2>8, <1>t DEF ListNumber, Carries, Buying, At, account
    <3>2. \A q \in Procs : At(q, "unlist")' <=> At(q, "unlist")
      BY <2>8, <1>t DEF ListNumber, Done, Idle, At, TypeOK
    <3>3. \A q \in Procs : At(q, "unlist") => proc'[q].num = proc[q].num
      BY <2>8, <1>t DEF ListNumber, Done, Idle, At, TypeOK
    <3> QED
      BY <3>1, <3>2, <3>3, <1>t
         DEF Pool, ReleasedIsGivenBack, ListedIsOurs, TypeOK, At
  <2>9. CASE ReleaseUnheard(p)
    <3> DEFINE n == proc[p].num
    <3>1. /\ n \in Numbers
          /\ held' = [held EXCEPT ![n] = FALSE]
          /\ adrift' = adrift \cup {n}
          /\ UNCHANGED phase
      BY <2>9, <1>t DEF ReleaseUnheard, Carries, At
    <3>2. \A q \in Procs : At(q, "unlist")' <=> At(q, "unlist")
      BY <2>9, <1>t DEF ReleaseUnheard, Done, Idle, At, TypeOK
    <3>3. \A q \in Procs : At(q, "unlist") => proc'[q].num = proc[q].num
      BY <2>9, <1>t DEF ReleaseUnheard, Done, Idle, At, TypeOK
    <3> QED
      BY <3>1, <3>2, <3>3, <1>t
         DEF Pool, ReleasedIsGivenBack, ListedIsOurs, TypeOK, At
  <2> QED
    BY <1>5, <2>1, <2>2, <2>3, <2>4, <2>5, <2>6, <2>7, <2>8, <2>9 DEF Continue
<1>6. CASE Crash
  BY <1>6, <1>t DEF Crash, Pool, ReleasedIsGivenBack, ListedIsOurs, TypeOK, Idle, At,
                    poolVars, account, Procs
<1>7. CASE UNCHANGED vars
  BY <1>7, <1>t, PoolFrame DEF vars, At, TypeOK
<1> QED
  BY <1>1, <1>2, <1>3, <1>4, <1>5, <1>6, <1>7
     DEF Next, Begin, TickBegins, SweepAssigns, Procs

(* No interleaving drops a number from the inventory while it still bills. *)
THEOREM ReleasedNumbersAreGivenBack == Spec => []ReleasedIsGivenBack
<1>1. Spec => [](Shape /\ Pool)
  BY ShapeInit, ShapeStep, PoolInit, PoolStep, PTL DEF Spec
<1> QED
  BY <1>1, PTL DEF Pool

(* A listed number is ours, but for a release the provider has done and    *)
(* our handler has not yet written, died on, or never heard of.            *)
THEOREM ListedNumbersAreOurs == Spec => []ListedIsOurs
<1>1. Spec => [](Shape /\ Pool)
  BY ShapeInit, ShapeStep, PoolInit, PoolStep, PTL DEF Spec
<1> QED
  BY <1>1, PTL DEF Pool

-----------------------------------------------------------------------------
(* A status write that follows the sequence keeps Walk, however old the    *)
(* read it rests on: what counts is that every milestone below the new     *)
(* status has been reached, and milestones are never taken back.           *)
LEMMA AdvanceWalks ==
  ASSUME Shape, Walk, NEW s \in Subs, NEW to \in Milestones, Advance(s, to),
         \A m \in Milestones : Rank(m) <= Rank(to) => m = to \/ m \in reached[s],
         \A q \in Procs, m \in Milestones :
           Rank(m) <= Rank(proc'[q].seen) => m \in reached'[proc'[q].sub]
  PROVE  Walk'
BY DEF Shape, TypeOK, Walk, NothingSkipped, SeenIsReached, Advance

(* A step that writes no status and lets handlers know nothing new.        *)
LEMMA WalkFrame ==
  ASSUME Shape, Walk, UNCHANGED <<status, reached>>,
         \A q \in Procs : \/ proc'[q].seen = "absent"
                          \/ /\ proc'[q].seen = proc[q].seen
                             /\ proc'[q].sub = proc[q].sub
                          \/ /\ proc'[q].sub \in Subs
                             /\ proc'[q].seen = status[proc'[q].sub]
  PROVE  Walk'
<1>1. NothingSkipped'
  BY DEF Walk, NothingSkipped
<1>2. ASSUME NEW q \in Procs, NEW m \in Milestones, Rank(m) <= Rank(proc'[q].seen)
      PROVE  m \in reached'[proc'[q].sub]
  <2>1. CASE proc'[q].seen = "absent"
    BY <1>2, <2>1, RankValues DEF Milestones
  <2>2. CASE proc'[q].seen = proc[q].seen /\ proc'[q].sub = proc[q].sub
    BY <1>2, <2>2 DEF Walk, SeenIsReached
  <2>3. CASE proc'[q].sub \in Subs /\ proc'[q].seen = status[proc'[q].sub]
    BY <1>2, <2>3 DEF Walk, NothingSkipped
  <2> QED
    BY <2>1, <2>2, <2>3
<1> QED
  BY <1>1, <1>2 DEF Walk, SeenIsReached

(* A handler that writes a status and ends.                                *)
LEMMA LastWriteWalks ==
  ASSUME Shape, Walk, NEW p \in Procs, NEW to \in Milestones,
         proc[p].sub \in Subs, Advance(proc[p].sub, to), Done(p),
         IsNext(proc[p].seen, to)
  PROVE  Walk'
<1> DEFINE s == proc[p].sub
<1>t. TypeOK
  BY DEF Shape
<1>1. \A m \in Milestones : Rank(m) <= Rank(to) => m = to \/ m \in reached[s]
  BY <1>t, NextCovers DEF Walk, SeenIsReached, TypeOK
<1>2. ASSUME NEW q \in Procs, NEW m \in Milestones, Rank(m) <= Rank(proc'[q].seen)
      PROVE  m \in reached'[proc'[q].sub]
  <2>1. CASE q = p
    BY <1>2, <2>1, <1>t, RankValues DEF Done, Idle, TypeOK, Milestones
  <2>2. CASE q # p
    <3>1. proc'[q] = proc[q]
      BY <2>2, <1>t DEF Done, TypeOK
    <3>2. m \in reached[proc[q].sub] /\ proc[q].sub \in Subs
      <4>1. proc[q].sub # NoSub
        BY <1>2, <3>1, RankValues DEF Shape, Carries, Milestones
      <4> QED
        BY <1>2, <3>1, <4>1, <1>t DEF Walk, SeenIsReached, TypeOK
    <3> QED
      BY <3>1, <3>2, <1>t DEF Advance, TypeOK
  <2> QED
    BY <2>1, <2>2
<1> QED
  BY <1>1, <1>2, AdvanceWalks

(* A handler that writes a status and stays, knowing the one it wrote.     *)
LEMMA MidWriteWalks ==
  ASSUME Shape, Walk, NEW p \in Procs, NEW to \in Milestones,
         proc[p].sub \in Subs, Advance(proc[p].sub, to),
         \A q \in Procs \ {p} : proc'[q] = proc[q],
         proc'[p].sub = proc[p].sub, proc'[p].seen = to,
         \A m \in Milestones :
           Rank(m) <= Rank(to) => m = to \/ m \in reached[proc[p].sub]
  PROVE  Walk'
<1>t. TypeOK
  BY DEF Shape
<1>1. ASSUME NEW q \in Procs, NEW m \in Milestones, Rank(m) <= Rank(proc'[q].seen)
      PROVE  m \in reached'[proc'[q].sub]
  <2>1. CASE q = p
    BY <1>1, <2>1, <1>t DEF Advance, TypeOK
  <2>2. CASE q # p
    <3>1. proc'[q] = proc[q]
      BY <2>2
    <3>2. proc[q].sub # NoSub
      BY <1>1, <3>1, RankValues DEF Shape, Carries, Milestones
    <3>3. m \in reached[proc[q].sub] /\ proc[q].sub \in Subs
      BY <1>1, <3>1, <3>2, <1>t DEF Walk, SeenIsReached, TypeOK
    <3> QED
      BY <3>1, <3>3, <1>t DEF Advance, TypeOK
  <2> QED
    BY <2>1, <2>2
<1> QED
  BY <1>1, AdvanceWalks

LEMMA WalkInit == Init => Walk
BY RankValues DEF Init, Walk, NothingSkipped, SeenIsReached, Idle, Milestones

LEMMA WalkStep == Shape /\ Walk /\ [Next]_vars => Walk'
<1> SUFFICES ASSUME Shape, Walk, [Next]_vars PROVE Walk'
  OBVIOUS
<1>t. TypeOK /\ Carries
  BY DEF Shape
<1>1. ASSUME NEW s \in Subs, EnsureSubscription(s) PROVE Walk'
  <2>1. \A m \in Milestones : Rank(m) <= Rank("paid") => m = "paid"
    BY RankValues DEF Milestones
  <2>2. ASSUME NEW q \in Procs, NEW m \in Milestones, Rank(m) <= Rank(proc'[q].seen)
        PROVE  m \in reached'[proc'[q].sub]
    <3>1. UNCHANGED proc
      BY <1>1 DEF EnsureSubscription
    <3>2. proc[q].sub # NoSub
      BY <2>2, <3>1, <1>t, RankValues DEF Carries, Milestones
    <3>3. m \in reached[proc[q].sub] /\ proc[q].sub \in Subs
      BY <2>2, <3>1, <3>2, <1>t DEF Walk, SeenIsReached, TypeOK
    <3> QED
      BY <1>1, <3>1, <3>3, <1>t DEF EnsureSubscription, Advance, TypeOK
  <2>3. "paid" \in Milestones /\ Advance(s, "paid")
    BY <1>1 DEF Milestones, EnsureSubscription
  <2> QED
    BY <2>1, <2>2, <2>3, AdvanceWalks
<1>2. ASSUME NEW s \in Subs, TemplateReview(s) PROVE Walk'
  BY <1>2, WalkFrame DEF TemplateReview
<1>3. ASSUME NEW p \in Procs, NEW s \in Subs,
             BeginSign(p, s) \/ BeginConnect(p, s) \/ BeginAssign(p, s)
             \/ BeginTemplates(p, s)
      PROVE  Walk'
  BY <1>3, <1>t, WalkFrame
     DEF BeginSign, BeginConnect, BeginAssign, BeginTemplates, Starts, TypeOK, subVars
<1>4. ASSUME NEW p \in Procs, NEW n \in Numbers,
             BeginRelease(p, n) \/ BuyNumber(p, n) \/ IncomingCall(p, n)
      PROVE  Walk'
  BY <1>4, <1>t, WalkFrame
     DEF BeginRelease, BuyNumber, IncomingCall, Starts, TypeOK, subVars
<1>5. ASSUME NEW p \in Procs, Continue(p) PROVE Walk'
  <2>1. CASE FinishSign(p)
    <3>1. proc[p].sub \in Subs /\ IsNext(proc[p].seen, "contract_signed")
      BY <2>1, <1>t, RankValues DEF FinishSign, Carries, At, IsNext
    <3> QED
      BY <2>1, <3>1, LastWriteWalks DEF FinishSign, Milestones
  <2>2. CASE FinishConnect(p)
    <3>1. CASE IsNext(proc[p].seen, "meta_connected")
      <4>1. proc[p].sub \in Subs
        BY <2>2, <1>t DEF FinishConnect, Carries, At
      <4>2. /\ status' = [status EXCEPT ![proc[p].sub] = "meta_connected"]
            /\ reached' = [reached EXCEPT ![proc[p].sub] = @ \cup {"meta_connected"}]
            /\ Done(p)
        BY <2>2, <3>1 DEF FinishConnect
      <4>3. \A m \in Milestones : Rank(m) <= Rank("meta_connected")
              => m = "meta_connected" \/ m \in reached[proc[p].sub]
        BY <3>1, <1>t, NextCovers DEF Walk, SeenIsReached, TypeOK, Milestones
      <4>4. ASSUME NEW q \in Procs, NEW m \in Milestones, Rank(m) <= Rank(proc'[q].seen)
            PROVE  m \in reached'[proc'[q].sub]
        <5>1. q # p
          BY <4>2, <4>4, <1>t, RankValues DEF Done, Idle, TypeOK, Milestones
        <5>2. proc'[q] = proc[q]
          BY <4>2, <5>1, <1>t DEF Done, TypeOK
        <5>3. proc[q].sub # NoSub
          BY <4>4, <5>2, <1>t, RankValues DEF Carries, Milestones
        <5>4. m \in reached[proc[q].sub] /\ proc[q].sub \in Subs
          BY <4>4, <5>2, <5>3, <1>t DEF Walk, SeenIsReached, TypeOK
        <5> QED
          BY <4>1, <4>2, <5>2, <5>4, <1>t DEF TypeOK
      <4>5. NothingSkipped'
        BY <4>1, <4>2, <4>3, <1>t DEF Walk, NothingSkipped, TypeOK
      <4> QED
        BY <4>4, <4>5 DEF Walk, SeenIsReached
    <3>2. CASE ~IsNext(proc[p].seen, "meta_connected")
      BY <2>2, <3>2, <1>t, WalkFrame DEF FinishConnect, Done, Idle, TypeOK
    <3> QED
      BY <3>1, <3>2
  <2>3. CASE ConnectFails(p) \/ PoolEmpty(p) \/ ClaimCollides(p)
             \/ ProviderRefuses(p) \/ ReleaseUnheard(p) \/ ListingFails(p) \/ AlreadyVerified(p)
             \/ Unlist(p) \/ ListNumber(p)
    BY <2>3, <1>t, WalkFrame
       DEF ConnectFails, PoolEmpty, ClaimCollides, ProviderRefuses, ReleaseUnheard, ListingFails,
           AlreadyVerified, Unlist, ListNumber, Done, Idle, TypeOK, subVars
  <2>4. CASE FindNumber(p) \/ LoseClaim(p) \/ ProviderReleases(p)
    BY <2>4, <1>t, WalkFrame
       DEF FindNumber, LoseClaim, ProviderReleases, TypeOK, subVars
  <2>5. CASE ClaimNumber(p)
    <3>1. CASE IsNext(proc[p].seen, "number_assigned")
      BY <2>5, <3>1, <1>t, WalkFrame DEF ClaimNumber, TypeOK, subVars
    <3>2. CASE ~IsNext(proc[p].seen, "number_assigned")
      BY <2>5, <3>2, <1>t, WalkFrame DEF ClaimNumber, Done, Idle, TypeOK, subVars
    <3> QED
      BY <3>1, <3>2
  <2>6. CASE AdvanceAssigned(p)
    <3>1. proc[p].sub \in Subs /\ IsNext(proc[p].seen, "number_assigned")
      BY <2>6, <1>t, RankValues DEF AdvanceAssigned, Carries, At, IsNext
    <3> QED
      BY <2>6, <3>1, LastWriteWalks DEF AdvanceAssigned, Milestones
  <2>7. CASE MarkTemplates(p)
    <3>1. proc[p].sub \in Subs /\ IsNext(proc[p].seen, "templates_approved")
      BY <2>7, <1>t, RankValues DEF MarkTemplates, Carries, At, IsNext
    <3>2. \A m \in Milestones : Rank(m) <= Rank("templates_approved")
            => m = "templates_approved" \/ m \in reached[proc[p].sub]
      BY <3>1, <1>t, NextCovers DEF Walk, SeenIsReached, TypeOK, Milestones
    <3>3. /\ \A q \in Procs \ {p} : proc'[q] = proc[q]
          /\ proc'[p].sub = proc[p].sub
          /\ proc'[p].seen = "templates_approved"
      BY <2>7, <1>t DEF MarkTemplates, TypeOK
    <3> QED
      BY <2>7, <3>1, <3>2, <3>3, MidWriteWalks DEF MarkTemplates, Milestones
  <2>8. CASE OpenForwarding(p)
    <3>1. proc[p].sub \in Subs /\ IsNext(proc[p].seen, "forwarding_pending")
      BY <2>8, <1>t, RankValues DEF OpenForwarding, Carries, At, IsNext
    <3> QED
      BY <2>8, <3>1, LastWriteWalks DEF OpenForwarding, Milestones
  <2>9. CASE VerifyForwarding(p)
    <3>1. proc[p].sub \in Subs /\ status[proc[p].sub] = "forwarding_pending"
      BY <2>9, <1>t DEF VerifyForwarding, Carries, At
    <3>2. \A m \in Milestones : Rank(m) <= Rank("forwarding_verified")
            => m = "forwarding_verified" \/ m \in reached[proc[p].sub]
      <4>1. IsNext(status[proc[p].sub], "forwarding_verified")
        BY <3>1, RankValues DEF IsNext
      <4> QED
        BY <3>1, <4>1, <1>t, NextCovers DEF Walk, NothingSkipped, TypeOK, Milestones
    <3>3. /\ \A q \in Procs \ {p} : proc'[q] = proc[q]
          /\ proc'[p].sub = proc[p].sub
          /\ proc'[p].seen = "forwarding_verified"
      BY <2>9, <1>t DEF VerifyForwarding, TypeOK
    <3> QED
      BY <2>9, <3>1, <3>2, <3>3, MidWriteWalks DEF VerifyForwarding, Milestones
  <2>10. CASE Activate(p)
    <3>1. proc[p].sub \in Subs /\ IsNext(proc[p].seen, "active")
      BY <2>10, <1>t, RankValues DEF Activate, Carries, At, IsNext
    <3> QED
      BY <2>10, <3>1, LastWriteWalks DEF Activate, Milestones
  <2> QED
    BY <1>5, <2>1, <2>2, <2>3, <2>4, <2>5, <2>6, <2>7, <2>8, <2>9, <2>10 DEF Continue
<1>6. CASE Crash
  BY <1>6, WalkFrame DEF Crash, Idle, subVars
<1>7. CASE UNCHANGED vars
  BY <1>7, WalkFrame DEF vars
<1> QED
  BY <1>1, <1>2, <1>3, <1>4, <1>5, <1>6, <1>7
     DEF Next, Begin, TickBegins, SweepAssigns, Procs

(* No subscription is ever at a status whose earlier milestones did not    *)
(* all happen, whatever handlers overlap and wherever the app restarts.    *)
THEOREM NoMilestoneSkipped == Spec => []NothingSkipped
<1>1. Spec => [](Shape /\ Walk)
  BY ShapeInit, ShapeStep, WalkInit, WalkStep, PTL DEF Spec
<1> QED
  BY <1>1, PTL DEF Walk

-----------------------------------------------------------------------------
(* A listing is List, a claim is Lease, the second half of a release is    *)
(* Return, and every other step leaves the leases alone.                   *)
LEMMA StepIsLeaseStep == Shape /\ [Next]_vars => [Lease!LeaseNext]_(Lease!leaseVars)
<1> SUFFICES ASSUME Shape, [Next]_vars
             PROVE  Lease!LeaseNext \/ UNCHANGED <<phase, tenant>>
  BY DEF Lease!leaseVars
<1>t. TypeOK /\ Carries /\ Buying
  BY DEF Shape
<1>1. ASSUME NEW p \in Procs, ClaimNumber(p) PROVE Lease!LeaseNext
  <2>1. proc[p].num \in Numbers /\ proc[p].sub \in Subs
    BY <1>1, <1>t DEF ClaimNumber, Carries, At
  <2>2. Lease!Lease(proc[p].num, proc[p].sub)
    BY <1>1 DEF ClaimNumber, HasNumber, Lease!Lease
  <2> QED
    BY <2>1, <2>2 DEF Lease!LeaseNext
<1>2. ASSUME NEW p \in Procs, ListNumber(p) PROVE Lease!LeaseNext
  <2>1. proc[p].num \in Numbers /\ Lease!List(proc[p].num)
    BY <1>2, <1>t DEF ListNumber, Carries, Buying, At, Lease!List
  <2> QED
    BY <2>1 DEF Lease!LeaseNext
<1>3. ASSUME NEW p \in Procs, Unlist(p)
      PROVE  Lease!LeaseNext \/ UNCHANGED <<phase, tenant>>
  <2> DEFINE n == proc[p].num
  <2>1. n \in Numbers /\ phase[n] # "unlisted"
    BY <1>3, <1>t DEF Unlist, Carries, Buying, At
  <2>2. /\ phase' = [phase EXCEPT ![n] = "released"]
        /\ tenant' = [tenant EXCEPT ![n] = NoSub]
    BY <1>3 DEF Unlist
  <2>3. CASE phase[n] = "released"
    <3>1. tenant[n] = NoSub
      BY <2>1, <2>3, <1>t DEF TypeOK
    <3> QED
      BY <2>1, <2>2, <2>3, <3>1, <1>t DEF TypeOK
  <2>4. CASE phase[n] # "released"
    <3>1. phase[n] \in {"available", "assigned"}
      BY <2>1, <2>4, <1>t DEF TypeOK
    <3>2. Lease!Return(n)
      BY <2>2, <3>1 DEF Lease!Return
    <3> QED
      BY <2>1, <3>2 DEF Lease!LeaseNext
  <2> QED
    BY <2>3, <2>4
<1>4. ASSUME NEW p \in Procs, Continue(p)
      PROVE  Lease!LeaseNext \/ UNCHANGED <<phase, tenant>>
  BY <1>1, <1>2, <1>3, <1>4
     DEF Continue, FinishSign, FinishConnect, ConnectFails, FindNumber, PoolEmpty,
         LoseClaim, ClaimCollides, AdvanceAssigned, ProviderReleases,
         ProviderRefuses, ReleaseUnheard, ListingFails, MarkTemplates, OpenForwarding,
         VerifyForwarding, AlreadyVerified, Activate, poolVars, account
<1>5. ASSUME NEW p \in Procs, Begin(p) PROVE UNCHANGED <<phase, tenant>>
  BY <1>5 DEF Begin, BeginSign, BeginConnect, BeginAssign, BeginRelease, BuyNumber,
              IncomingCall, poolVars, account
<1> QED
  BY <1>4, <1>5 DEF Next, Procs, TickBegins, SweepAssigns, BeginAssign, BeginTemplates,
                    EnsureSubscription, TemplateReview, Crash, vars, poolVars, account

(* The handlers of the pool implement NumberLease: no claim, release or    *)
(* restart does what the abstract pool would not.                          *)
THEOREM PoolImplementsLease == Spec => LeaseSpec
<1>1. Init => Lease!LeaseInit
  BY DEF Init, Lease!LeaseInit
<1> QED
  BY <1>1, StepIsLeaseStep, ShapeInit, ShapeStep, PTL DEF Spec, LeaseSpec, Lease!LeaseSpec

-----------------------------------------------------------------------------
(* A client with a number, or with a release to blame.                     *)
Covered(s) == HasNumber(s) \/ \E n \in Numbers : phase[n] = "released"

(* A handler advances a client, and a client was advanced, only behind a   *)
(* claim that was won.                                                     *)
Behind ==
  \A s \in Subs :
    \/ "number_assigned" \in reached[s]
    \/ \E p \in Procs : At(p, "advance") /\ proc[p].sub = s
    => Covered(s)

LEMMA CoveredStays ==
  ASSUME Shape, [Next]_vars, NEW s \in Subs, Covered(s)
  PROVE  Covered(s)'
<1>t. /\ phase \in [Numbers -> {"unlisted", "available", "assigned", "released"}]
      /\ tenant \in [Numbers -> Subs \cup {NoSub}]
      /\ \A n \in Numbers : tenant[n] \in Subs <=> phase[n] = "assigned"
  BY DEF Shape, TypeOK
<1>1. ASSUME NEW n \in Numbers, Lease!List(n) PROVE Covered(s)'
  BY <1>t, <1>1 DEF Lease!List, Covered, HasNumber
<1>2. ASSUME NEW n \in Numbers, NEW u \in Subs, Lease!Lease(n, u) PROVE Covered(s)'
  BY <1>t, <1>2 DEF Lease!Lease, Covered, HasNumber
<1>3. ASSUME NEW n \in Numbers, Lease!Return(n) PROVE Covered(s)'
  BY <1>t, <1>3 DEF Lease!Return, Covered
<1>4. CASE UNCHANGED <<phase, tenant>>
  BY <1>4 DEF Covered, HasNumber
<1> QED
  BY <1>1, <1>2, <1>3, <1>4, StepIsLeaseStep DEF Lease!LeaseNext, Lease!leaseVars

(* Only the end of an assignment stamps number_assigned.                   *)
LEMMA StampedByAdvance ==
  ASSUME Shape, [Next]_vars, NEW s \in Subs,
         "number_assigned" \in reached'[s], "number_assigned" \notin reached[s]
  PROVE  \E p \in Procs : At(p, "advance") /\ proc[p].sub = s
<1>1. ASSUME NEW u \in Subs, NEW to \in Milestones \ {"number_assigned"},
             reached' = [reached EXCEPT ![u] = @ \cup {to}]
      PROVE  FALSE
  BY <1>1 DEF Shape, TypeOK
<1>2. CASE UNCHANGED reached
  BY <1>2
<1>3. ASSUME NEW u \in Subs, EnsureSubscription(u) PROVE FALSE
  BY <1>1, <1>3 DEF EnsureSubscription, Advance, Milestones
<1>4. ASSUME NEW p \in Procs, Continue(p)
      PROVE  At(p, "advance") /\ proc[p].sub = s
  <2>1. CASE AdvanceAssigned(p)
    BY <2>1 DEF AdvanceAssigned, Advance, Shape, TypeOK
  <2>2. ASSUME NEW to \in Milestones \ {"number_assigned"}, NEW u,
               u \in Subs, Advance(u, to)
        PROVE  FALSE
    BY <1>1, <2>2 DEF Advance
  <2>3. CASE FinishSign(p) \/ MarkTemplates(p) \/ OpenForwarding(p)
             \/ VerifyForwarding(p) \/ Activate(p)
    <3>1. proc[p].sub \in Subs
      BY <2>3 DEF FinishSign, MarkTemplates, OpenForwarding, VerifyForwarding, Activate,
                  Shape, Carries, At
    <3> QED
      BY <2>2, <2>3, <3>1
         DEF FinishSign, MarkTemplates, OpenForwarding, VerifyForwarding, Activate, Milestones
  <2>4. CASE FinishConnect(p)
    <3>1. proc[p].sub \in Subs
      BY <2>4 DEF FinishConnect, Shape, Carries, At
    <3> QED
      BY <1>1, <1>2, <2>4, <3>1 DEF FinishConnect, Milestones
  <2>5. CASE UNCHANGED reached
    BY <2>5
  <2> QED
    BY <1>4, <2>1, <2>3, <2>4, <2>5
       DEF Continue, ConnectFails, FindNumber, PoolEmpty, ClaimNumber, LoseClaim,
           ClaimCollides, ProviderReleases, ProviderRefuses, ReleaseUnheard, Unlist, ListNumber,
           ListingFails, AlreadyVerified, subVars
<1>5. ASSUME NEW p \in Procs, Begin(p) PROVE UNCHANGED reached
  BY <1>5 DEF Begin, BeginSign, BeginConnect, BeginAssign, BeginRelease, BuyNumber,
              IncomingCall, subVars
<1> QED
  BY <1>2, <1>3, <1>4, <1>5
     DEF Next, Procs, TickBegins, SweepAssigns, BeginAssign, BeginTemplates,
         TemplateReview, Crash, vars, subVars

(* A handler gets to advance a client only by winning a claim for him.     *)
LEMMA AdvancesAfterClaim ==
  ASSUME Shape, [Next]_vars, NEW p \in Procs, At(p, "advance")', ~At(p, "advance")
  PROVE  ClaimNumber(p)
<1> USE DEF Shape, TypeOK, At
<1>1. ASSUME NEW q \in Procs, NEW station \in Stations \ {"advance"}, NEW s, NEW n, NEW st,
             Starts(q, station, s, n, st)
      PROVE  FALSE
  BY <1>1 DEF Starts
<1>2. CASE UNCHANGED proc
  BY <1>2
<1>3. ASSUME NEW q \in Procs, Begin(q) PROVE FALSE
  BY <1>1, <1>3 DEF Begin, BeginSign, BeginConnect, BeginAssign, BeginRelease, BuyNumber,
                    IncomingCall, Stations
<1>4. CASE TickBegins
  BY <1>1, <1>4 DEF TickBegins, SweepAssigns, BeginAssign, BeginTemplates, Stations, Procs
<1>5. ASSUME NEW q \in Procs, Continue(q) PROVE ClaimNumber(p)
  <2>i. Idle.at = "idle"
    BY DEF Idle
  <2>1. CASE Done(q)
    BY <2>1, <2>i DEF Done
  <2>2. CASE ClaimNumber(q)
    BY <2>2, <2>i DEF ClaimNumber, Done
  <2>3. CASE \/ FindNumber(q) \/ LoseClaim(q) \/ ProviderReleases(q) \/ MarkTemplates(q)
             \/ VerifyForwarding(q)
    BY <2>3 DEF FindNumber, LoseClaim, ProviderReleases, MarkTemplates, VerifyForwarding
  <2> QED
    BY <1>5, <2>1, <2>2, <2>3
       DEF Continue, FinishSign, FinishConnect, ConnectFails, PoolEmpty, ClaimCollides,
           AdvanceAssigned, ProviderRefuses, ReleaseUnheard, Unlist, ListNumber, ListingFails,
           OpenForwarding, AlreadyVerified, Activate
<1>6. CASE Crash
  BY <1>6 DEF Crash, Idle
<1> QED
  BY <1>2, <1>3, <1>4, <1>5, <1>6
     DEF Next, Procs, EnsureSubscription, TemplateReview, vars

LEMMA AdvanceKeepsSub ==
  ASSUME Shape, [Next]_vars, NEW p \in Procs, At(p, "advance"), At(p, "advance")'
  PROVE  proc'[p].sub = proc[p].sub
<1> USE DEF Shape, TypeOK, At
<1>1. CASE UNCHANGED proc
  BY <1>1
<1>2. ASSUME NEW q \in Procs, NEW station \in Stations, NEW s, NEW n, NEW st,
             At(q, "idle"), Starts(q, station, s, n, st)
      PROVE  proc'[p].sub = proc[p].sub
  BY <1>2 DEF Starts
<1>3. ASSUME NEW q \in Procs, Begin(q) PROVE proc'[p].sub = proc[p].sub
  BY <1>2, <1>3 DEF Begin, BeginSign, BeginConnect, BeginAssign, BeginRelease, BuyNumber,
                    IncomingCall, Stations
<1>4. CASE TickBegins
  BY <1>2, <1>4 DEF TickBegins, SweepAssigns, BeginAssign, BeginTemplates, Stations, Procs
<1>5. ASSUME NEW q \in Procs, Continue(q) PROVE proc'[p].sub = proc[p].sub
  <2>i. Idle.at = "idle"
    BY DEF Idle
  <2>1. CASE Done(q)
    BY <2>1, <2>i DEF Done
  <2>2. CASE \E to : proc' = [proc EXCEPT ![q].at = to]
    BY <2>2
  <2>3. CASE \/ FindNumber(q) \/ LoseClaim(q) \/ MarkTemplates(q) \/ VerifyForwarding(q)
    BY <2>3 DEF FindNumber, LoseClaim, MarkTemplates, VerifyForwarding
  <2> QED
    BY <1>5, <2>1, <2>2, <2>3
       DEF Continue, FinishSign, FinishConnect, ConnectFails, PoolEmpty, ClaimNumber,
           ClaimCollides, AdvanceAssigned, ProviderReleases, ProviderRefuses, ReleaseUnheard, Unlist,
           ListNumber, ListingFails, OpenForwarding, AlreadyVerified, Activate
<1>6. CASE Crash
  BY <1>6 DEF Crash, Idle
<1> QED
  BY <1>1, <1>3, <1>4, <1>5, <1>6
     DEF Next, Procs, EnsureSubscription, TemplateReview, vars

LEMMA BehindStep == Shape /\ Behind /\ [Next]_vars => Behind'
<1> SUFFICES ASSUME Shape, Behind, [Next]_vars PROVE Behind'
  OBVIOUS
<1>1. ASSUME NEW s \in Subs, "number_assigned" \in reached'[s] PROVE Covered(s)'
  <2>1. Covered(s)
    BY <1>1, StampedByAdvance DEF Behind
  <2> QED
    BY <2>1, CoveredStays
<1>2. ASSUME NEW s \in Subs, NEW p \in Procs, At(p, "advance")', proc'[p].sub = s
      PROVE  Covered(s)'
  <2>1. CASE At(p, "advance")
    <3>1. proc[p].sub = s
      BY <1>2, <2>1, AdvanceKeepsSub
    <3>2. Covered(s)
      BY <2>1, <3>1 DEF Behind
    <3> QED
      BY <3>2, CoveredStays
  <2>2. CASE ~At(p, "advance")
    <3>1. ClaimNumber(p)
      BY <1>2, <2>2, AdvancesAfterClaim
    <3>2. proc'[p].sub = proc[p].sub /\ proc[p].num \in Numbers
      BY <1>2, <3>1 DEF ClaimNumber, Done, Idle, At, Shape, TypeOK, Carries
    <3>3. tenant'[proc[p].num] = s
      BY <1>2, <3>1, <3>2 DEF ClaimNumber, Shape, TypeOK
    <3> QED
      BY <3>2, <3>3 DEF Covered, HasNumber
  <2> QED
    BY <2>1, <2>2
<1> QED
  BY <1>1, <1>2 DEF Behind

(* assignNumberToSubscription moves nobody on who lost his claim, and no   *)
(* stale read of another handler takes a client past a number he never got.*)
THEOREM NumbersBehindStatus == Spec => []NumberBehindStatus
<1>1. Init => Behind
  BY DEF Init, Behind, At, Idle
<1>2. Shape /\ Walk /\ Behind => NumberBehindStatus
  <2> SUFFICES ASSUME NothingSkipped, Behind, NEW s \in Subs,
                      Rank(status[s]) >= Rank("number_assigned")
               PROVE  Covered(s)
    BY DEF Walk, NumberBehindStatus, Covered
  <2>1. "number_assigned" \in reached[s]
    BY RankValues DEF NothingSkipped, Milestones
  <2> QED
    BY <2>1 DEF Behind
<1> QED
  BY <1>1, <1>2, ShapeInit, ShapeStep, WalkInit, WalkStep, BehindStep, PTL DEF Spec

-----------------------------------------------------------------------------
(* Each of the two statuses passed through is written by the handler that  *)
(* is to move the client on.                                               *)
LEMMA HalfwayIsReached ==
  ASSUME Shape, [Next]_vars, NEW s \in Subs
  PROVE  /\ status'[s] = "templates_approved" =>
              status[s] = "templates_approved" \/ \E p \in Procs : MarkTemplates(p) /\ proc[p].sub = s
         /\ status'[s] = "forwarding_verified" =>
              status[s] = "forwarding_verified" \/ \E p \in Procs : VerifyForwarding(p) /\ proc[p].sub = s
<1>1. CASE UNCHANGED status
  BY <1>1
<1>2. ASSUME NEW u \in Subs, NEW to \in Milestones \ {"templates_approved", "forwarding_verified"},
             Advance(u, to)
      PROVE  status'[s] \in {status[s], to}
  BY <1>2 DEF Advance, Shape, TypeOK
<1>3. ASSUME NEW u \in Subs, EnsureSubscription(u) PROVE status'[s] \in {status[s], "paid"}
  BY <1>2, <1>3 DEF EnsureSubscription, Milestones
<1>4. ASSUME NEW p \in Procs, Continue(p)
      PROVE  \/ status'[s] \in Milestones \ {"templates_approved", "forwarding_verified"}
             \/ status'[s] = status[s]
             \/ proc[p].sub = s /\ MarkTemplates(p) /\ status'[s] = "templates_approved"
             \/ proc[p].sub = s /\ VerifyForwarding(p) /\ status'[s] = "forwarding_verified"
  <2>1. CASE MarkTemplates(p) \/ VerifyForwarding(p)
    BY <2>1 DEF MarkTemplates, VerifyForwarding, Advance, Shape, TypeOK
  <2>2. CASE FinishSign(p) \/ AdvanceAssigned(p) \/ OpenForwarding(p) \/ Activate(p)
    <3>1. proc[p].sub \in Subs
      BY <2>2 DEF FinishSign, AdvanceAssigned, OpenForwarding, Activate, Shape, Carries, At
    <3> QED
      BY <1>2, <2>2, <3>1
         DEF FinishSign, AdvanceAssigned, OpenForwarding, Activate, Milestones
  <2>3. CASE FinishConnect(p)
    BY <2>3 DEF FinishConnect, Shape, TypeOK, Milestones
  <2>4. CASE UNCHANGED status
    BY <2>4
  <2> QED
    BY <1>4, <2>1, <2>2, <2>3, <2>4
       DEF Continue, ConnectFails, FindNumber, PoolEmpty, ClaimNumber, LoseClaim,
           ClaimCollides, ProviderReleases, ProviderRefuses, ReleaseUnheard, Unlist, ListNumber,
           ListingFails, AlreadyVerified, subVars
<1>5. ASSUME NEW p \in Procs, Begin(p) PROVE UNCHANGED status
  BY <1>5 DEF Begin, BeginSign, BeginConnect, BeginAssign, BeginRelease, BuyNumber,
              IncomingCall, subVars
<1>6. CASE TickBegins \/ Crash
  BY <1>1, <1>6 DEF TickBegins, SweepAssigns, BeginAssign, BeginTemplates, Crash, subVars
<1>7. ASSUME NEW u \in Subs, TemplateReview(u) PROVE UNCHANGED status
  BY <1>7 DEF TemplateReview
<1> QED
  BY <1>1, <1>3, <1>4, <1>5, <1>6, <1>7 DEF Next, Procs, vars

(* A handler that lives leaves these three stations by its own step only.  *)
LEMMA HalfwayIsKept ==
  ASSUME Shape, [Next]_vars, crashes' = crashes, NEW p \in Procs,
         \/ At(p, "forwarding") /\ ~OpenForwarding(p)
         \/ At(p, "activate") /\ ~Activate(p)
         \/ At(p, "advance") /\ ~AdvanceAssigned(p)
  PROVE  proc'[p] = proc[p]
<1> USE DEF Shape, TypeOK, At
<1>1. ASSUME NEW q \in Procs, NEW station, NEW s, NEW n, NEW st,
             At(q, "idle"), Starts(q, station, s, n, st)
      PROVE  proc'[p] = proc[p]
  BY <1>1 DEF Starts
<1>2. ASSUME NEW q \in Procs, Begin(q) PROVE proc'[p] = proc[p]
  BY <1>1, <1>2 DEF Begin, BeginSign, BeginConnect, BeginAssign, BeginRelease, BuyNumber,
                    IncomingCall
<1>3. CASE TickBegins
  BY <1>1, <1>3 DEF TickBegins, SweepAssigns, BeginAssign, BeginTemplates, Procs
<1>4. ASSUME NEW q \in Procs, Continue(q) PROVE proc'[p] = proc[p]
  <2>1. CASE q = p
    BY <1>4, <2>1
       DEF Continue, FinishSign, FinishConnect, ConnectFails, FindNumber, PoolEmpty, ClaimNumber,
           LoseClaim, ClaimCollides, AdvanceAssigned, ProviderReleases, ProviderRefuses, ReleaseUnheard,
           Unlist, ListNumber, ListingFails, MarkTemplates, VerifyForwarding, AlreadyVerified,
           OpenForwarding, Activate
  <2>2. CASE q # p
    BY <1>4, <2>2
       DEF Continue, FinishSign, FinishConnect, ConnectFails, FindNumber, PoolEmpty, ClaimNumber,
           LoseClaim, ClaimCollides, AdvanceAssigned, ProviderReleases, ProviderRefuses, ReleaseUnheard,
           Unlist, ListNumber, ListingFails, MarkTemplates, VerifyForwarding, AlreadyVerified,
           OpenForwarding, Activate, Done
  <2> QED
    BY <2>1, <2>2
<1>5. CASE Crash
  BY <1>5 DEF Crash
<1>6. CASE UNCHANGED proc
  BY <1>6
<1> QED
  BY <1>2, <1>3, <1>4, <1>5, <1>6 DEF Next, Procs, EnsureSubscription, TemplateReview, vars

LEMMA CrashesStay == Shape /\ [Next]_vars => crashes' = crashes \/ crashes' > 0
<1> SUFFICES ASSUME Shape, [Next]_vars PROVE crashes' = crashes \/ crashes' > 0
  OBVIOUS
<1>1. CASE Crash
  BY <1>1 DEF Crash, Shape, TypeOK
<1>2. CASE UNCHANGED crashes
  BY <1>2
<1>3. ASSUME NEW p \in Procs, Continue(p) PROVE UNCHANGED crashes
  BY <1>3
     DEF Continue, FinishSign, FinishConnect, ConnectFails, FindNumber, PoolEmpty, ClaimNumber,
         LoseClaim, ClaimCollides, AdvanceAssigned, ProviderReleases, ProviderRefuses, ReleaseUnheard,
         Unlist, ListNumber, ListingFails, MarkTemplates, VerifyForwarding, AlreadyVerified,
         OpenForwarding, Activate
<1>4. ASSUME NEW p \in Procs, Begin(p) PROVE UNCHANGED crashes
  BY <1>4 DEF Begin, BeginSign, BeginConnect, BeginAssign, BeginRelease, BuyNumber, IncomingCall
<1> QED
  BY <1>1, <1>2, <1>3, <1>4
     DEF Next, Procs, TickBegins, SweepAssigns, BeginAssign, BeginTemplates,
         EnsureSubscription, TemplateReview, vars

LEMMA HalfwayStep == Shape /\ NobodyLeftHalfway /\ [Next]_vars => NobodyLeftHalfway'
<1> SUFFICES ASSUME Shape, NobodyLeftHalfway, [Next]_vars, NEW s \in Subs, ~(crashes' > 0)
             PROVE  /\ status'[s] = "templates_approved" =>
                         \E p \in Procs : At(p, "forwarding")' /\ proc'[p].sub = s
                    /\ status'[s] = "forwarding_verified" =>
                         \E p \in Procs : At(p, "activate")' /\ proc'[p].sub = s
  BY DEF NobodyLeftHalfway
<1>t. crashes' = crashes /\ ~(crashes > 0)
  BY CrashesStay
<1>1. ASSUME status'[s] = "templates_approved"
      PROVE  \E p \in Procs : At(p, "forwarding")' /\ proc'[p].sub = s
  <2>1. ASSUME NEW p \in Procs, MarkTemplates(p), proc[p].sub = s
        PROVE  At(p, "forwarding")' /\ proc'[p].sub = s
    BY <2>1 DEF MarkTemplates, At, Shape, TypeOK
  <2>2. CASE status[s] = "templates_approved"
    <3>1. PICK p \in Procs : At(p, "forwarding") /\ proc[p].sub = s
      BY <1>t, <2>2 DEF NobodyLeftHalfway
    <3>2. ~OpenForwarding(p)
      BY <1>1, <3>1 DEF OpenForwarding, Advance, Shape, TypeOK
    <3> QED
      BY <1>t, <3>1, <3>2, HalfwayIsKept DEF At
  <2> QED
    BY <1>1, <2>1, <2>2, HalfwayIsReached
<1>2. ASSUME status'[s] = "forwarding_verified"
      PROVE  \E p \in Procs : At(p, "activate")' /\ proc'[p].sub = s
  <2>1. ASSUME NEW p \in Procs, VerifyForwarding(p), proc[p].sub = s
        PROVE  At(p, "activate")' /\ proc'[p].sub = s
    BY <2>1 DEF VerifyForwarding, At, Shape, TypeOK
  <2>2. CASE status[s] = "forwarding_verified"
    <3>1. PICK p \in Procs : At(p, "activate") /\ proc[p].sub = s
      BY <1>t, <2>2 DEF NobodyLeftHalfway
    <3>2. ~Activate(p)
      BY <1>2, <3>1 DEF Activate, Advance, Shape, TypeOK
    <3> QED
      BY <1>t, <3>1, <3>2, HalfwayIsKept DEF At
  <2> QED
    BY <1>2, <2>1, <2>2, HalfwayIsReached
<1> QED
  BY <1>1, <1>2

(* No overlap of the template sweep, first calls and stale writes leaves a *)
(* client in a status nothing looks for; only a handler that dies does.    *)
THEOREM NobodyIsLeftHalfway == Spec => []NobodyLeftHalfway
<1>1. Init => NobodyLeftHalfway
  BY DEF Init, NobodyLeftHalfway
<1> QED
  BY <1>1, HalfwayStep, ShapeInit, ShapeStep, PTL DEF Spec

-----------------------------------------------------------------------------
(* recall-meta.ts says of a reconnect that it advances a client only when  *)
(* exactly one step behind, never back.  The status it compares was read   *)
(* before the calls to Meta and the write looks at none, so neither this   *)
(* nor BoundMeansAdvanced is true of the code.                             *)
NeverBackward ==
  [][\A s \in Subs : Rank(status'[s]) >= Rank(status[s])]_status

(* What is proved of the two is that one race is behind both: two handlers *)
(* that have read one subscription to stamp its next milestone.            *)
Stamping(p) ==
  \/ At(p, "sign")
  \/ At(p, "bind") /\ proc[p].seen = "contract_signed"
  \/ proc[p].at \in {"find", "claim", "advance"} /\ proc[p].seen = "meta_connected"

(* Only one handler at a time is on its way to stamp a subscription.       *)
OneStamper ==
  \A p, q \in Procs : Stamping(p) /\ Stamping(q) /\ p # q => proc[p].sub # proc[q].sub

(* Handlers whose write rests on the status they read.                     *)
Waits(p) == Stamping(p) \/ proc[p].at \in {"templates", "forwarding", "activate"}

(* The status read is the status still.                                    *)
Current(p) ==
  /\ Waits(p) => status[proc[p].sub] = proc[p].seen
  /\ proc[p].at \in {"templates", "forwarding"} => p = Tick
  /\ proc[p].sub \in Subs => Rank(proc[p].seen) <= Rank(status[proc[p].sub])

Fresh ==
  /\ \A p \in Procs : Current(p)
  /\ \A p, q \in Procs : At(p, "activate") /\ At(q, "activate") /\ p # q
                            => proc[p].sub # proc[q].sub

(* No subscription loses rank.                                             *)
Forward == \A s \in Subs : Rank(status'[s]) >= Rank(status[s])

LEMMA RanksAreNat == \A st \in Statuses : Rank(st) \in Nat
BY RankValues DEF Statuses, Milestones

(* A step that writes no status and changes one handler, which is current. *)
LEMMA ReadKeepsFresh ==
  ASSUME Shape, Fresh, NEW p \in Procs, UNCHANGED status,
         \A q \in Procs \ {p} : proc'[q] = proc[q],
         Current(p)', ~At(p, "activate")'
  PROVE  Fresh' /\ Forward
<1>1. \A q \in Procs : Current(q)'
  BY DEF Fresh, Current, Waits, Stamping, At
<1>2. \A q, r \in Procs : At(q, "activate")' /\ At(r, "activate")' /\ q # r
                            => proc'[q].sub # proc'[r].sub
  BY DEF Fresh, At
<1>3. Forward
  BY RanksAreNat DEF Forward, Shape, TypeOK
<1> QED
  BY <1>1, <1>2, <1>3 DEF Fresh

(* A write to s that nobody else waits to make.                            *)
LEMMA WriteKeepsFresh ==
  ASSUME Shape, Fresh, NEW p \in Procs, NEW s \in Subs, NEW to \in Statuses,
         status' = [status EXCEPT ![s] = to],
         Rank(status[s]) <= Rank(to),
         \A q \in Procs \ {p} : proc'[q] = proc[q] /\ (proc[q].sub = s => ~Waits(q)),
         Current(p)',
         At(p, "activate")' => proc'[p].sub = s
  PROVE  Fresh' /\ Forward
<1>t. status \in [Subs -> Statuses] /\ status' \in [Subs -> Statuses]
  BY DEF Shape, TypeOK
<1>f. Forward
  BY <1>t, RanksAreNat DEF Forward
<1>1. ASSUME NEW q \in Procs PROVE Current(q)'
  <2>1. CASE q = p
    BY <2>1
  <2>2. CASE q # p
    <3>1. proc'[q] = proc[q] /\ Current(q)
      BY <2>2 DEF Fresh
    <3>2. Waits(q)' <=> Waits(q)
      BY <3>1 DEF Waits, Stamping, At
    <3>3. Waits(q) => proc[q].sub \in Subs \ {s}
      BY <2>2 DEF Waits, Stamping, At, Shape, Carries
    <3>4. Waits(q) => status'[proc[q].sub] = proc[q].seen
      BY <1>t, <3>1, <3>3 DEF Current
    <3>5. proc[q].sub \in Subs => Rank(proc[q].seen) <= Rank(status'[proc[q].sub])
      <4>1. proc[q].seen \in Statuses
        BY DEF Shape, TypeOK
      <4> QED
        BY <1>t, <1>f, <3>1, <4>1, RanksAreNat DEF Current, Forward
    <3> QED
      BY <3>1, <3>2, <3>4, <3>5 DEF Current
  <2> QED
    BY <2>1, <2>2
<1>2. ASSUME NEW q \in Procs, NEW r \in Procs, At(q, "activate")', At(r, "activate")', q # r
      PROVE  proc'[q].sub # proc'[r].sub
  <2>1. CASE q # p /\ r # p
    BY <1>2, <2>1 DEF Fresh, At
  <2>2. CASE q = p
    BY <1>2, <2>2 DEF At, Waits
  <2>3. CASE r = p
    BY <1>2, <2>3 DEF At, Waits
  <2> QED
    BY <2>1, <2>2, <2>3
<1> QED
  BY <1>f, <1>1, <1>2 DEF Fresh

(* Whoever else waits to write to s has read what p has read of it, which  *)
(* no two handlers have when they are kept from stamping it together.      *)
LEMMA NobodyElseWaits ==
  ASSUME Shape, Fresh, OneStamper, NEW p \in Procs, NEW q \in Procs \ {p},
         Waits(p), proc[q].sub = proc[p].sub
  PROVE  ~Waits(q)
<1> SUFFICES ASSUME Waits(q) PROVE FALSE
  OBVIOUS
<1>1. proc[p].seen = proc[q].seen
  BY DEF Fresh, Current
<1>2. \A r \in Procs : /\ Stamping(r) => proc[r].seen \in {"paid", "contract_signed", "meta_connected"}
                       /\ At(r, "templates") => proc[r].seen = "number_assigned"
                       /\ At(r, "forwarding") => proc[r].seen = "templates_approved"
                       /\ At(r, "activate") => proc[r].seen = "forwarding_verified"
  BY DEF Shape, Carries, Stamping, At
<1>3. CASE Stamping(p)
  BY <1>1, <1>2, <1>3 DEF OneStamper, Waits, At
<1>4. CASE At(p, "templates") \/ At(p, "forwarding")
  <2>1. At(q, "templates") \/ At(q, "forwarding")
    BY <1>1, <1>2, <1>4 DEF Waits, At
  <2> QED
    BY <1>4, <2>1 DEF Fresh, Current, At
<1>5. CASE At(p, "activate")
  <2>1. At(q, "activate")
    BY <1>1, <1>2, <1>5 DEF Waits, At
  <2> QED
    BY <1>5, <2>1 DEF Fresh
<1> QED
  BY <1>3, <1>4, <1>5 DEF Waits, At

LEMMA IdleIsCurrent ==
  ASSUME NEW p \in Procs, proc'[p] = Idle
  PROVE  Current(p)' /\ ~At(p, "activate")'
BY NoneAreNone DEF Idle, Current, Waits, Stamping, At

(* What a handler that sets out has read is current.                       *)
LEMMA BeginKeepsFresh ==
  ASSUME Shape, Fresh, UNCHANGED status, NEW p \in Procs, NEW s \in Subs \cup {NoSub},
         NEW n, NEW st \in Statuses,
         NEW station \in {"sign", "bind", "find", "release", "list", "templates", "verify"},
         Starts(p, station, s, n, st),
         station = "templates" => p = Tick,
         station \in {"sign", "bind", "find", "templates"} => s \in Subs /\ st = status[s],
         station \in {"release", "list", "verify"} => st = "absent"
  PROVE  Fresh' /\ Forward
<1>1. /\ proc'[p] = [at |-> station, sub |-> s, num |-> n, seen |-> st, tries |-> 0]
      /\ \A q \in Procs \ {p} : proc'[q] = proc[q]
  BY DEF Starts, Shape, TypeOK
<1>2. ~At(p, "activate")'
  BY <1>1 DEF At
<1>3. Waits(p)' => status'[proc'[p].sub] = proc'[p].seen
  BY <1>1 DEF Waits, Stamping, At
<1>4. proc'[p].sub \in Subs => Rank(proc'[p].seen) <= Rank(status'[proc'[p].sub])
  <2>1. CASE st = status[s] /\ s \in Subs
    BY <1>1, <2>1, RanksAreNat DEF Shape, TypeOK
  <2>2. CASE st = "absent"
    <3>1. proc'[p].sub = s /\ Rank(proc'[p].seen) = 0
      BY <1>1, <2>2, RankValues
    <3>2. s \in Subs => Rank(status'[s]) \in Nat
      BY RanksAreNat DEF Shape, TypeOK
    <3> QED
      BY <3>1, <3>2
  <2>3. st = "absent" \/ (s \in Subs /\ st = status[s])
    OBVIOUS
  <2> QED
    BY <2>1, <2>2, <2>3
<1>5. Current(p)'
  BY <1>1, <1>3, <1>4 DEF Current
<1> QED
  BY <1>1, <1>2, <1>5, ReadKeepsFresh

LEMMA BeginsKeepFresh ==
  ASSUME Shape, Fresh, NEW p \in Procs, Begin(p) \/ (p = Tick /\ TickBegins)
  PROVE  Fresh' /\ Forward
<1>t. status \in [Subs -> Statuses] /\ "absent" \in Statuses
  BY DEF Shape, TypeOK, Statuses
<1>1. ASSUME NEW s \in Subs, BeginSign(p, s) PROVE Fresh' /\ Forward
  BY <1>1, <1>t, BeginKeepsFresh DEF BeginSign, subVars
<1>2. ASSUME NEW s \in Subs, BeginConnect(p, s) PROVE Fresh' /\ Forward
  BY <1>2, <1>t, BeginKeepsFresh DEF BeginConnect, subVars
<1>3. ASSUME NEW s \in Subs, BeginAssign(p, s) PROVE Fresh' /\ Forward
  BY <1>3, <1>t, BeginKeepsFresh DEF BeginAssign, subVars
<1>4. ASSUME NEW n \in Numbers, BeginRelease(p, n) PROVE Fresh' /\ Forward
  BY <1>4, <1>t, BeginKeepsFresh DEF BeginRelease, subVars
<1>5. ASSUME NEW n \in Numbers, BuyNumber(p, n) PROVE Fresh' /\ Forward
  BY <1>5, <1>t, BeginKeepsFresh DEF BuyNumber, subVars
<1>6. ASSUME NEW n \in Numbers, IncomingCall(p, n) PROVE Fresh' /\ Forward
  <2>1. tenant[n] \in Subs
    BY <1>6 DEF IncomingCall, Shape, TypeOK
  <2> QED
    BY <1>6, <1>t, <2>1, BeginKeepsFresh DEF IncomingCall, subVars
<1>7. ASSUME NEW s \in Subs, BeginTemplates(p, s), p = Tick PROVE Fresh' /\ Forward
  BY <1>7, <1>t, BeginKeepsFresh DEF BeginTemplates, subVars
<1> QED
  BY <1>1, <1>2, <1>3, <1>4, <1>5, <1>6, <1>7 DEF Begin, TickBegins, SweepAssigns

LEMMA ContinueKeepsFresh ==
  ASSUME Shape, Fresh, OneStamper, NEW p \in Procs, Continue(p)
  PROVE  Fresh' /\ Forward
<1> USE DEF At, subVars
<1> DEFINE s == proc[p].sub
<1>t. /\ status \in [Subs -> Statuses]
      /\ proc \in [Procs -> [at : Stations, sub : Subs \cup {NoSub},
                             num : Numbers \cup {NoNum}, seen : Statuses,
                             tries : 0 .. MaxTries]]
  BY DEF Shape, TypeOK
<1>c. Current(p)
  BY DEF Fresh
<1>m. Milestones \subseteq Statuses
  BY DEF Statuses
<1>n. \A q \in Procs \ {p} : Waits(p) /\ proc[q].sub = s => ~Waits(q)
  BY NobodyElseWaits
<1>o. \A to \in Milestones : Advance(s, to) => status' = [status EXCEPT ![s] = to]
  BY DEF Advance
<1>d. Done(p) => proc'[p] = Idle /\ \A q \in Procs \ {p} : proc'[q] = proc[q]
  BY <1>t DEF Done
<1>1. CASE Done(p) /\ UNCHANGED status
  BY <1>1, <1>d, IdleIsCurrent, ReadKeepsFresh
<1>2. ASSUME Done(p), NEW to \in Milestones, status' = [status EXCEPT ![s] = to],
             s \in Subs, Waits(p), Rank(proc[p].seen) <= Rank(to)
      PROVE  Fresh' /\ Forward
  <2>1. Rank(status[s]) <= Rank(to)
    BY <1>2, <1>c DEF Current
  <2>2. Current(p)' /\ ~At(p, "activate")'
    BY <1>2, <1>d, IdleIsCurrent
  <2> QED
    BY <1>2, <1>d, <1>m, <1>n, <2>1, <2>2, WriteKeepsFresh
<1>3. CASE FinishSign(p)
  BY <1>2, <1>3, <1>o, RankValues
     DEF FinishSign, Shape, Carries, Waits, Stamping, Milestones
<1>4. CASE FinishConnect(p)
  <2>1. CASE IsNext(proc[p].seen, "meta_connected")
    <3>1. proc[p].seen = "contract_signed" /\ s \in Subs
      BY <1>t, <1>4, <2>1, Predecessors DEF FinishConnect, Shape, Carries
    <3>2. status' = [status EXCEPT ![s] = "meta_connected"] /\ Done(p)
      BY <1>4, <2>1 DEF FinishConnect
    <3>3. Waits(p)
      BY <1>4, <3>1 DEF FinishConnect, Waits, Stamping
    <3> QED
      BY <1>2, <3>1, <3>2, <3>3, RankValues DEF Milestones
  <2>2. CASE ~IsNext(proc[p].seen, "meta_connected")
    BY <1>1, <1>4, <2>2 DEF FinishConnect
  <2> QED
    BY <2>1, <2>2
<1>5. CASE AdvanceAssigned(p)
  BY <1>2, <1>5, <1>o, RankValues
     DEF AdvanceAssigned, Shape, Carries, Waits, Stamping, Milestones
<1>6. CASE OpenForwarding(p) \/ Activate(p)
  BY <1>2, <1>6, <1>o, RankValues
     DEF OpenForwarding, Activate, Shape, Carries, Waits, Milestones
<1>7. CASE MarkTemplates(p)
  <2>1. /\ status' = [status EXCEPT ![s] = "templates_approved"]
        /\ s \in Subs /\ status[s] = "number_assigned" /\ p = Tick /\ Waits(p)
    BY <1>7, <1>o, <1>c DEF MarkTemplates, Shape, Carries, Waits, Current, Milestones
  <2>2. /\ proc'[p].at = "forwarding" /\ proc'[p].seen = "templates_approved"
        /\ proc'[p].sub = s
        /\ \A q \in Procs \ {p} : proc'[q] = proc[q]
    BY <1>7, <1>t DEF MarkTemplates
  <2>3. status'[s] = "templates_approved"
    BY <2>1, <1>t
  <2>4. Current(p)' /\ ~At(p, "activate")'
    BY <2>1, <2>2, <2>3, RankValues DEF Current
  <2>5. Rank(status[s]) <= Rank("templates_approved") /\ "templates_approved" \in Statuses
    BY <2>1, RankValues DEF Statuses, Milestones
  <2> QED
    BY <1>n, <2>1, <2>2, <2>4, <2>5, WriteKeepsFresh
<1>8. CASE VerifyForwarding(p)
  <2>1. /\ status' = [status EXCEPT ![s] = "forwarding_verified"]
        /\ s \in Subs /\ status[s] = "forwarding_pending"
    BY <1>8, <1>o DEF VerifyForwarding, Shape, Carries, Milestones
  <2>2. /\ proc'[p].at = "activate" /\ proc'[p].seen = "forwarding_verified"
        /\ proc'[p].sub = s
        /\ \A q \in Procs \ {p} : proc'[q] = proc[q]
    BY <1>8, <1>t DEF VerifyForwarding
  <2>3. status'[s] = "forwarding_verified"
    BY <2>1, <1>t
  <2>4. Current(p)'
    BY <2>2, <2>3, RankValues DEF Current
  <2>5. Rank(status[s]) <= Rank("forwarding_verified") /\ "forwarding_verified" \in Statuses
    BY <2>1, RankValues DEF Statuses, Milestones
  <2>6. \A q \in Procs : proc[q].sub = s => ~Waits(q)
    <3> SUFFICES ASSUME NEW q \in Procs, proc[q].sub = s, Waits(q) PROVE FALSE
      OBVIOUS
    <3>1. proc[q].seen = "forwarding_pending"
      BY <2>1 DEF Fresh, Current
    <3> QED
      BY <3>1 DEF Shape, Carries, Waits, Stamping
  <2> QED
    BY <2>1, <2>2, <2>4, <2>5, <2>6, WriteKeepsFresh
<1>9. ASSUME UNCHANGED status,
             \A q \in Procs \ {p} : proc'[q] = proc[q],
             proc'[p].sub = s, proc'[p].seen = proc[p].seen,
             \/ proc[p].at \in {"find", "claim"} /\ proc'[p].at \in {"find", "claim", "advance"}
             \/ proc[p].at = "release" /\ proc'[p].at = "unlist"
      PROVE  Fresh' /\ Forward
  <2>1. Current(p)' /\ ~At(p, "activate")'
    BY <1>9, <1>c DEF Current, Waits, Stamping
  <2> QED
    BY <1>9, <2>1, ReadKeepsFresh
<1>10. CASE FindNumber(p) \/ LoseClaim(p) \/ ProviderReleases(p)
  BY <1>9, <1>10, <1>t DEF FindNumber, LoseClaim, ProviderReleases
<1>11. CASE ClaimNumber(p)
  BY <1>1, <1>9, <1>11, <1>t DEF ClaimNumber
<1> QED
  BY <1>1, <1>3, <1>4, <1>5, <1>6, <1>7, <1>8, <1>10, <1>11
     DEF Continue, ConnectFails, PoolEmpty, ClaimCollides, ProviderRefuses, ReleaseUnheard, Unlist,
         ListNumber, ListingFails, AlreadyVerified

LEMMA FreshStep == Shape /\ Fresh /\ OneStamper /\ [Next]_vars => Fresh' /\ Forward
<1> SUFFICES ASSUME Shape, Fresh, OneStamper, [Next]_vars PROVE Fresh' /\ Forward
  OBVIOUS
<1>t. status \in [Subs -> Statuses]
  BY DEF Shape, TypeOK
<1>0. CASE UNCHANGED <<status, proc>>
  BY <1>0, <1>t, RanksAreNat DEF Fresh, Current, Waits, Stamping, At, Forward
<1>1. ASSUME NEW s \in Subs, EnsureSubscription(s) PROVE Fresh' /\ Forward
  <2>1. /\ status[s] = "absent" /\ status' = [status EXCEPT ![s] = "paid"]
        /\ proc' = proc
    BY <1>1 DEF EnsureSubscription, Advance
  <2>2. Forward
    BY <1>t, <2>1, RankValues, RanksAreNat DEF Forward
  <2>3. ASSUME NEW p \in Procs PROVE Current(p)'
    <3>1. Current(p) /\ proc[p].seen \in Statuses
      BY DEF Fresh, Shape, TypeOK
    <3>2. Waits(p) => proc[p].sub \in Subs /\ proc[p].seen # "absent"
      BY DEF Waits, Stamping, At, Shape, Carries
    <3>3. Waits(p) => status'[proc[p].sub] = proc[p].seen
      BY <1>t, <2>1, <3>1, <3>2 DEF Current
    <3>4. proc[p].sub \in Subs => Rank(proc[p].seen) <= Rank(status'[proc[p].sub])
      <4>1. status' \in [Subs -> Statuses]
        BY <1>t, <2>1 DEF Statuses, Milestones
      <4> QED
        BY <1>t, <2>2, <3>1, <4>1, RanksAreNat DEF Current, Forward
    <3> QED
      BY <2>1, <3>1, <3>3, <3>4 DEF Current, Waits, Stamping, At
  <2> QED
    BY <2>1, <2>2, <2>3 DEF Fresh, At
<1>2. ASSUME NEW s \in Subs, TemplateReview(s) PROVE Fresh' /\ Forward
  BY <1>0, <1>2 DEF TemplateReview
<1>3. CASE Crash
  <2>1. UNCHANGED status /\ \A p \in Procs : proc'[p] = proc[p] \/ proc'[p] = Idle
    BY <1>3 DEF Crash, subVars
  <2>2. \A p \in Procs : Current(p)'
    BY <2>1, IdleIsCurrent DEF Fresh, Current, Waits, Stamping, At
  <2>3. Idle.at # "activate"
    BY DEF Idle
  <2>4. Forward
    BY <1>t, <2>1, RanksAreNat DEF Forward
  <2> QED
    BY <2>1, <2>2, <2>3, <2>4 DEF Fresh, At
<1> QED
  BY <1>0, <1>1, <1>2, <1>3, BeginsKeepFresh, ContinueKeepsFresh DEF Next, Procs, vars

LEMMA FreshInit == Init => Fresh
BY NoneAreNone DEF Init, Fresh, Current, Waits, Stamping, At, Idle

(* That no status goes back, as recall-meta.ts has it of a reconnect, holds *)
(* through stale reads, releases, template sweeps, first calls and crashes *)
(* as long as no two handlers stamp one subscription at once: that overlap *)
(* is the only cause of a step back.                                       *)
THEOREM ForwardWhenAlone == Spec /\ []OneStamper => NeverBackward
<1>1. Fresh /\ Shape /\ OneStamper /\ [Next]_vars =>
        [\A s \in Subs : Rank(status'[s]) >= Rank(status[s])]_status
  BY FreshStep DEF Forward
<1> QED
  BY <1>1, FreshInit, FreshStep, ShapeInit, ShapeStep, PTL DEF Spec, NeverBackward

-----------------------------------------------------------------------------
(* Numbers are bound to those who came far enough, and a client who holds  *)
(* one is being moved on.                                                  *)
Binding ==
  /\ \A p \in Procs : proc[p].at \in {"find", "claim"} => Rank(proc[p].seen) >= 3
  /\ \A s \in Subs : HasNumber(s) => Rank(status[s]) >= 3
  /\ crashes = 0 => BoundMeansAdvanced

(* A number is bound by a claim only.                                      *)
LEMMA BoundByClaim ==
  ASSUME Shape, [Next]_vars, NEW s \in Subs, ~HasNumber(s), HasNumber(s)'
  PROVE  \E p \in Procs : ClaimNumber(p) /\ proc[p].sub = s
<1>t. tenant \in [Numbers -> Subs \cup {NoSub}]
  BY DEF Shape, TypeOK
<1>1. ASSUME UNCHANGED tenant PROVE FALSE
  BY <1>1 DEF HasNumber
<1>2. ASSUME NEW p \in Procs, Continue(p) PROVE ClaimNumber(p) /\ proc[p].sub = s
  <2>1. CASE ClaimNumber(p)
    BY <1>t, <2>1 DEF ClaimNumber, HasNumber
  <2>2. CASE Unlist(p)
    BY <1>t, <2>2, NoneAreNone DEF Unlist, HasNumber
  <2> QED
    BY <1>1, <1>2, <2>1, <2>2
       DEF Continue, FinishSign, FinishConnect, ConnectFails, FindNumber, PoolEmpty,
           LoseClaim, ClaimCollides, AdvanceAssigned, ProviderReleases,
           ProviderRefuses, ReleaseUnheard, ListNumber, ListingFails, MarkTemplates, OpenForwarding,
           VerifyForwarding, AlreadyVerified, Activate, poolVars, account
<1>3. ASSUME NEW p \in Procs, Begin(p) PROVE UNCHANGED tenant
  BY <1>3 DEF Begin, BeginSign, BeginConnect, BeginAssign, BeginRelease, BuyNumber,
              IncomingCall, poolVars, account
<1> QED
  BY <1>1, <1>2, <1>3 DEF Next, Procs, TickBegins, SweepAssigns, BeginAssign, BeginTemplates,
                    EnsureSubscription, TemplateReview, Crash, vars, poolVars, account

(* Only a read of a status that may hold a number leads to a claim.        *)
LEMMA BindersReadEnough ==
  ASSUME Shape, [Next]_vars, NEW p \in Procs, proc'[p].at \in {"find", "claim"},
         proc[p].at \in {"find", "claim"} => Rank(proc[p].seen) >= 3
  PROVE  Rank(proc'[p].seen) >= 3
<1> USE DEF At
<1>t. proc \in [Procs -> [at : Stations, sub : Subs \cup {NoSub},
                         num : Numbers \cup {NoNum}, seen : Statuses,
                         tries : 0 .. MaxTries]]
  BY DEF Shape, TypeOK
<1>0. CASE proc'[p] = proc[p]
  BY <1>0
<1>i. Idle.at = "idle"
  BY DEF Idle
<1>1. ASSUME NEW q \in Procs, NEW s \in Subs, BeginAssign(q, s)
      PROVE  Rank(proc'[p].seen) >= 3
  BY <1>0, <1>1, <1>t, RankValues DEF BeginAssign, Starts, CanBindVirtualNumber
<1>2. ASSUME NEW q \in Procs, NEW s, NEW n, NEW st,
             NEW station \in {"sign", "bind", "release", "list", "verify", "templates"},
             Starts(q, station, s, n, st)
      PROVE  Rank(proc'[p].seen) >= 3
  BY <1>0, <1>2, <1>t DEF Starts
<1>3. ASSUME NEW q \in Procs, Begin(q) PROVE Rank(proc'[p].seen) >= 3
  BY <1>1, <1>2, <1>3 DEF Begin, BeginSign, BeginConnect, BeginRelease, BuyNumber, IncomingCall
<1>4. CASE TickBegins
  BY <1>1, <1>2, <1>4 DEF TickBegins, SweepAssigns, BeginTemplates, Procs
<1>5. ASSUME NEW q \in Procs, Continue(q) PROVE Rank(proc'[p].seen) >= 3
  <2>1. CASE Done(q)
    BY <1>0, <1>i, <1>t, <2>1 DEF Done
  <2>2. CASE FindNumber(q) \/ LoseClaim(q)
    BY <1>0, <1>t, <2>2 DEF FindNumber, LoseClaim
  <2>3. CASE \E station \in {"advance", "unlist"} : proc' = [proc EXCEPT ![q].at = station]
    BY <1>0, <1>t, <2>3
  <2>4. CASE MarkTemplates(q) \/ VerifyForwarding(q)
    BY <1>0, <1>t, <2>4 DEF MarkTemplates, VerifyForwarding
  <2> QED
    BY <1>5, <2>1, <2>2, <2>3, <2>4
       DEF Continue, FinishSign, FinishConnect, ConnectFails, PoolEmpty, ClaimNumber,
           ClaimCollides, AdvanceAssigned, ProviderReleases, ProviderRefuses, ReleaseUnheard, Unlist,
           ListNumber, ListingFails, OpenForwarding, AlreadyVerified, Activate
<1>6. CASE Crash
  BY <1>0, <1>6, <1>i, <1>t DEF Crash
<1> QED
  BY <1>0, <1>3, <1>4, <1>5, <1>6
     DEF Next, Procs, EnsureSubscription, TemplateReview, vars

LEMMA BindingStep ==
  Shape /\ Fresh /\ OneStamper /\ Binding /\ [Next]_vars => Binding'
<1> SUFFICES ASSUME Shape, Fresh, OneStamper, Binding, [Next]_vars PROVE Binding'
  OBVIOUS
<1>t. /\ status \in [Subs -> Statuses] /\ status' \in [Subs -> Statuses]
      /\ proc \in [Procs -> [at : Stations, sub : Subs \cup {NoSub},
                             num : Numbers \cup {NoNum}, seen : Statuses,
                             tries : 0 .. MaxTries]]
  BY ShapeStep DEF Shape, TypeOK
<1>r. \A s \in Subs : /\ Rank(status[s]) \in Nat /\ Rank(status'[s]) \in Nat
                      /\ Rank(status'[s]) >= Rank(status[s])
  BY <1>t, RanksAreNat, FreshStep DEF Forward
<1>1. \A p \in Procs : proc'[p].at \in {"find", "claim"} => Rank(proc'[p].seen) >= 3
  BY BindersReadEnough DEF Binding
<1>2. ASSUME NEW p \in Procs, ClaimNumber(p)
      PROVE  /\ 3 <= Rank(proc[p].seen) /\ Rank(proc[p].seen) <= Rank(status[proc[p].sub])
             /\ proc[p].sub \in Subs /\ status' = status
             /\ proc[p].seen \in Statuses
  BY <1>2, <1>t DEF ClaimNumber, At, Binding, Fresh, Current, Shape, Carries, subVars
<1>3. ASSUME NEW s \in Subs, HasNumber(s)' PROVE Rank(status'[s]) >= 3
  <2>1. CASE HasNumber(s)
    BY <1>r, <2>1 DEF Binding
  <2>2. CASE ~HasNumber(s)
    <3>1. PICK p \in Procs : ClaimNumber(p) /\ proc[p].sub = s
      BY <1>3, <2>2, BoundByClaim
    <3>2. Rank(proc[p].seen) \in Nat
      BY <1>2, <3>1, RanksAreNat
    <3> QED
      BY <1>2, <1>r, <3>1, <3>2
  <2> QED
    BY <2>1, <2>2
<1>4. ASSUME crashes' = 0, NEW s \in Subs, HasNumber(s)', status'[s] = "meta_connected"
      PROVE  \E p \in Procs : At(p, "advance")' /\ proc'[p].sub = s
  <2>0. crashes' = crashes /\ crashes = 0
    BY <1>4, CrashesStay DEF Shape, TypeOK
  <2>1. CASE HasNumber(s)
    <3>1. status[s] = "meta_connected"
      <4>1. Rank(status[s]) >= 3 /\ Rank(status[s]) <= 3
        BY <1>4, <1>r, <2>1, RankValues DEF Binding
      <4> QED
        BY <4>1, <1>t, RankValues DEF Statuses, Milestones
    <3>2. PICK p \in Procs : At(p, "advance") /\ proc[p].sub = s
      BY <2>0, <2>1, <3>1 DEF Binding, BoundMeansAdvanced
    <3>3. ~AdvanceAssigned(p)
      BY <1>4, <1>t, <3>2 DEF AdvanceAssigned, Advance
    <3> QED
      BY <2>0, <3>2, <3>3, HalfwayIsKept DEF At
  <2>2. CASE ~HasNumber(s)
    <3>1. PICK p \in Procs : ClaimNumber(p) /\ proc[p].sub = s
      BY <1>4, <2>2, BoundByClaim
    <3>2. proc[p].seen = "meta_connected"
      <4>1. Rank(proc[p].seen) >= 3 /\ Rank(proc[p].seen) <= 3 /\ proc[p].seen \in Statuses
        BY <1>2, <1>4, <3>1, RankValues
      <4> QED
        BY <4>1, RankValues DEF Statuses, Milestones
    <3>3. IsNext(proc[p].seen, "number_assigned")
      BY <3>2, RankValues DEF IsNext
    <3>4. proc' = [proc EXCEPT ![p].at = "advance"]
      BY <3>1, <3>3 DEF ClaimNumber
    <3> QED
      BY <1>t, <3>1, <3>4 DEF At
  <2> QED
    BY <2>1, <2>2
<1> QED
  BY <1>1, <1>3, <1>4 DEF Binding, BoundMeansAdvanced

(* And recall.ts's, that binding a number and moving its client on are one *)
(* step to everybody else, holds with the same overlap kept away until the *)
(* first handler dies: nothing but these two breaks it.                    *)
THEOREM BoundWhenAlone ==
  Spec /\ []OneStamper => [](crashes = 0 => BoundMeansAdvanced)
<1>1. Init => Binding
  BY NoneAreNone DEF Init, Binding, BoundMeansAdvanced, HasNumber, Idle
<1>2. Binding => (crashes = 0 => BoundMeansAdvanced)
  BY DEF Binding
<1> QED
  BY <1>1, <1>2, FreshInit, FreshStep, ShapeInit, ShapeStep, BindingStep, PTL DEF Spec

-----------------------------------------------------------------------------
(* Two numbers are never leased to one subscription at a time.             *)
OneNumberEach ==
  \A m, n \in Numbers : tenant[m] \in Subs /\ tenant[m] = tenant[n] => m = n

(* A number never passes from one subscription to another, and one given   *)
(* back is never listed or leased again.                                   *)
NeverPassedOn ==
  [][\A n \in Numbers :
       /\ tenant[n] \in Subs => tenant'[n] \in {tenant[n], NoSub}
       /\ phase[n] = "released" => phase'[n] = "released" /\ tenant'[n] = NoSub]_<<phase, tenant>>

LeaseShape ==
  /\ phase \in [Numbers -> Lease!Phases]
  /\ tenant \in [Numbers -> Subs \cup {NoSub}]
  /\ \A n \in Numbers : tenant[n] \in Subs <=> phase[n] = "assigned"
  /\ OneNumberEach

LEMMA LeaseKeepsShape ==
  LeaseShape /\ [Lease!LeaseNext]_(Lease!leaseVars) =>
    /\ LeaseShape'
    /\ [\A n \in Numbers :
         /\ tenant[n] \in Subs => tenant'[n] \in {tenant[n], NoSub}
         /\ phase[n] = "released" => phase'[n] = "released" /\ tenant'[n] = NoSub]_<<phase, tenant>>
<1> SUFFICES ASSUME LeaseShape, [Lease!LeaseNext]_(Lease!leaseVars)
             PROVE  /\ LeaseShape'
                    /\ \A n \in Numbers :
                         /\ tenant[n] \in Subs => tenant'[n] \in {tenant[n], NoSub}
                         /\ phase[n] = "released" => phase'[n] = "released" /\ tenant'[n] = NoSub
  OBVIOUS
<1> USE NoneAreNone DEF LeaseShape, OneNumberEach, Lease!Phases
<1>1. CASE \E n \in Numbers : Lease!List(n)
  BY <1>1 DEF Lease!List
<1>2. CASE \E n \in Numbers, s \in Subs : Lease!Lease(n, s)
  BY <1>2 DEF Lease!Lease
<1>3. CASE \E n \in Numbers : Lease!Return(n)
  BY <1>3 DEF Lease!Return
<1>4. CASE UNCHANGED <<phase, tenant>>
  BY <1>4
<1> QED
  BY <1>1, <1>2, <1>3, <1>4 DEF Lease!LeaseNext, Lease!leaseVars

(* What the abstract pool promises, and with PoolImplementsLease what the  *)
(* real one does: assignNumberToSubscription and releaseNumber, however    *)
(* they overlap, never give a client two numbers, hand one client's number *)
(* to another, or bring a returned one back.                               *)
THEOREM LeasesAreExclusive == Spec => []OneNumberEach /\ NeverPassedOn
<1>1. Lease!LeaseInit => LeaseShape
  BY NoneAreNone DEF Lease!LeaseInit, LeaseShape, OneNumberEach, Lease!Phases
<1>2. LeaseShape => OneNumberEach
  BY DEF LeaseShape
<1>3. LeaseSpec => []OneNumberEach /\ NeverPassedOn
  BY <1>1, <1>2, LeaseKeepsShape, PTL DEF LeaseSpec, Lease!LeaseSpec, NeverPassedOn
<1> QED
  BY <1>3, PoolImplementsLease, PTL
=============================================================================
