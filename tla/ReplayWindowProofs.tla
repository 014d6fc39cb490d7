------------------------- MODULE ReplayWindowProofs --------------------------
(***************************************************************************)
(* A replay under the deduplication window never causes a second effect,   *)
(* for every retention, margin, budget and skew of the clock, provided the *)
(* first claim read a clock that was right.                                *)
(***************************************************************************)
EXTENDS ReplayWindow, TLAPS

(* Its request will arrive inside the window of the first claim.           *)
InWindow(q) == q.until < firstAt + Guarantee.retention

(* The window is over on any clock that is right.                          *)
WindowOver == time >= firstAt + Guarantee.retention - Guarantee.margin

(* A request outside the window is alone, after an answer that closed all  *)
(* others, and no replay can follow it.                                    *)
RequestsInWindow ==
    \A q \in requests :
        InWindow(q) \/ (requests = {q} /\ effects = 0 /\ WindowOver)

Inv ==
    /\ TypeOK
    /\ firstAt = None <=> count = 0
    /\ firstAt = None => status = "ACCEPTED"
    /\ firstAt # None => firstAt <= time
    /\ status = "ACCEPTED" => effects = 0 /\ requests = {}
    /\ \A q \in requests : time <= q.until /\ firstAt # None
    /\ effects = 0 \/ (effects = 1 /\ keptAt # None /\ firstAt # None)
    /\ keptAt # None => effects = 1 /\ firstAt <= keptAt /\ keptAt <= time
    /\ RequestsInWindow
-----------------------------------------------------------------------------
LEMMA InitInv == Init => Inv
  BY WindowAssumption DEF Init, Inv, TypeOK, RequestsInWindow

(* What isReplaySafe means for a clock that is right.                      *)
LEMMA ReplayInsideWindow ==
  ASSUME TypeOK, ReplayAllowed
  PROVE  /\ firstAt # None
         /\ time - firstAt < Guarantee.retention - Guarantee.margin
  BY WindowAssumption
     DEF TypeOK, ReplayAllowed, IsReplaySafe, ClockTrusted, Now

LEMMA NextInv ==
  ASSUME BaseIsTrusted, Inv, [Next]_vars
  PROVE  Inv'
<1> USE WindowAssumption
<1>1. CASE Claim
  <2>1. count' = count + 1 /\ count' \in 1 .. MaxExecutions
    BY <1>1 DEF Claim, Inv, TypeOK
  <2>2. Now \in Nat /\ (firstAt = None => Now = time)
    BY <1>1 DEF Claim, Inv, TypeOK, ClockTrusted, Now
  <2>3. /\ firstAt' \in Nat /\ firstAt' # None /\ firstAt' <= time
        /\ firstAt # None => firstAt' = firstAt
    BY <1>1, <2>2 DEF Claim, FirstExecutionAt, Inv, TypeOK
  <2>4. TypeOK'
    BY <1>1, <2>1, <2>3 DEF Claim, Inv, TypeOK, Request
  <2> DEFINE q == [attempt |-> count', until |-> time + MaxDelay]
  <2>5. requests' = requests \cup {q} /\ q.until = time + MaxDelay
    BY <1>1 DEF Claim
  <2>6. RequestsInWindow'
    <3>1. CASE status = "ACCEPTED"
      <4>1. requests' = {q} /\ effects' = 0
        BY <1>1, <2>5, <3>1 DEF Claim, Inv
      <4> QED
        BY <1>1, <2>3, <2>5, <4>1
           DEF Claim, Inv, TypeOK, RequestsInWindow, InWindow, WindowOver,
               ReplayGuarantee
    <3>2. CASE status = "UNKNOWN" /\ ReplayAllowed
      <4>1. firstAt # None /\ ~WindowOver
        BY <3>2, ReplayInsideWindow
           DEF Inv, TypeOK, WindowOver, ReplayGuarantee
      <4>2. \A r \in requests : InWindow(r)
        BY <4>1 DEF Inv, RequestsInWindow
      <4>3. q.until < firstAt' + Guarantee.retention
        BY <2>3, <2>5, <4>1 DEF Inv, TypeOK, WindowOver, ReplayGuarantee
      <4> QED
        BY <2>3, <2>5, <4>1, <4>2, <4>3 DEF RequestsInWindow, InWindow
    <3> QED BY <1>1, <3>1, <3>2 DEF Claim
  <2>7. \A r \in requests' : time <= r.until
    BY <2>5 DEF Inv, TypeOK
  <2> QED
    BY <1>1, <2>1, <2>3, <2>4, <2>5, <2>6, <2>7 DEF Claim, Inv, TypeOK
<1>2. CASE BecomeUncertain \/ Complete
  BY <1>2
     DEF BecomeUncertain, Complete, Inv, TypeOK, RequestsInWindow, InWindow,
         WindowOver
<1>3. CASE NotApplied
  BY <1>3
     DEF NotApplied, Inv, TypeOK, RequestsInWindow, InWindow, WindowOver
<1>4. ASSUME NEW q \in requests, Arrive(q)
      PROVE  Inv'
  <2>1. TypeOK'
    BY <1>4 DEF Arrive, Inv, TypeOK, device
  <2>2. CASE KeyKept
    <3>1. effects = 1 /\ requests' = requests \ {q}
      BY <1>4, <2>2 DEF Arrive, KeyKept, Inv
    <3>2. RequestsInWindow'
      BY <1>4, <2>2, <3>1
         DEF Arrive, Inv, RequestsInWindow, InWindow, WindowOver, device
    <3> QED
      BY <1>4, <2>1, <2>2, <3>1, <3>2 DEF Arrive, Inv, TypeOK, device
  <2>3. CASE ~KeyKept
    <3>1. effects = 0
      <4>1. SUFFICES ASSUME effects = 1 PROVE FALSE
        BY DEF Inv
      <4>2. InWindow(q) /\ time <= q.until /\ q.until \in Nat
        BY <4>1 DEF Inv, TypeOK, Request, RequestsInWindow
      <4>3. keptAt \in Nat /\ firstAt \in Nat /\ firstAt <= keptAt
        BY <4>1 DEF Inv, TypeOK
      <4>4. time < keptAt + Guarantee.retention
        BY <4>2, <4>3 DEF Inv, TypeOK, InWindow, ReplayGuarantee
      <4> QED BY <2>3, <4>3, <4>4 DEF KeyKept
    <3>2. keptAt' = time /\ effects' = 1 /\ requests' = requests \ {q}
      BY <1>4, <2>3, <3>1 DEF Arrive
    <3>3. firstAt' = firstAt /\ firstAt # None
      BY <1>4 DEF Arrive, Inv, device
    <3>4. RequestsInWindow'
      BY <1>4, <3>2, <3>3
         DEF Arrive, Inv, RequestsInWindow, InWindow, WindowOver
    <3> QED
      BY <1>4, <2>1, <3>1, <3>2, <3>3, <3>4
         DEF Arrive, Inv, TypeOK, device
  <2> QED BY <2>2, <2>3
<1>5. ASSUME NEW q \in requests, Lose(q)
      PROVE  Inv'
  BY <1>5
     DEF Lose, Inv, TypeOK, RequestsInWindow, InWindow, WindowOver, device
<1>6. CASE Tick
  <2>1. time' = time + 1 /\ \A q \in requests : time' <= q.until
    BY <1>6 DEF Tick, Inv, TypeOK, Request
  <2>2. RequestsInWindow'
    BY <1>6, <2>1
       DEF Tick, Inv, TypeOK, RequestsInWindow, InWindow, WindowOver, device,
           ReplayGuarantee
  <2> QED BY <1>6, <2>1, <2>2 DEF Tick, Inv, TypeOK, device
<1>7. CASE SetClock
  BY <1>7
     DEF SetClock, Inv, TypeOK, RequestsInWindow, InWindow, WindowOver, device
<1>8. CASE UNCHANGED vars
  BY <1>8
     DEF vars, Inv, TypeOK, RequestsInWindow, InWindow, WindowOver, device
<1> QED BY <1>1, <1>2, <1>3, <1>4, <1>5, <1>6, <1>7, <1>8 DEF Next

LEMMA InvHolds == ASSUME BaseIsTrusted PROVE Spec => []Inv
  BY InitInv, NextInv, PTL DEF Spec
-----------------------------------------------------------------------------
(* Types of the window's state.                                            *)
THEOREM WindowTypeCorrect == ASSUME BaseIsTrusted PROVE Spec => []TypeOK
<1>1. Inv => TypeOK BY DEF Inv
<1> QED BY <1>1, InvHolds, PTL

(* The effect is caused once at most, however often an operation with a    *)
(* window is sent, delayed, and sent again, whatever the clock does after  *)
(* the first claim.                                                        *)
THEOREM EffectHappensOnce == ASSUME BaseIsTrusted PROVE Spec => []EffectOnce
<1>1. Inv => EffectOnce BY DEF Inv, EffectOnce
<1> QED BY <1>1, InvHolds, PTL

(* A replay that isReplaySafe allows arrives while the key is kept.        *)
THEOREM ReplaysAreCovered == ASSUME BaseIsTrusted PROVE Spec => []ReplayIsCovered
<1>1. Inv => ReplayIsCovered
  <2> SUFFICES ASSUME Inv, ReplayAllowed, keptAt # None
               PROVE  time + MaxDelay < keptAt + Guarantee.retention
    BY DEF ReplayIsCovered
  <2>1. /\ firstAt # None
        /\ time - firstAt < Guarantee.retention - Guarantee.margin
    BY ReplayInsideWindow DEF Inv
  <2> QED
    BY <2>1, WindowAssumption DEF Inv, TypeOK, ReplayGuarantee
<1> QED BY <1>1, InvHolds, PTL
=============================================================================
