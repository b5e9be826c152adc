---------------------------- MODULE FixedWindow -----------------------------
(***************************************************************************)
(* What a rate limiter promises: the calls of a key are counted in windows *)
(* of a fixed length that do not overlap; in a window at most Limit calls  *)
(* pass, and none is refused before that many have.                        *)
(***************************************************************************)
EXTENDS Integers

CONSTANTS
  WKeys,   \* what is counted
  Limit    \* calls that pass in a window, of every key

VARIABLES
  length,   \* a window that opens at t includes t + length
  mayFail,  \* TRUE: a call may pass although it was not, or could not be, counted
  clock,
  granted,  \* calls that passed in the window
  until,    \* its last instant
  verdict   \* what the last call was told

kind == <<length, mayFail>>
fwVars == <<kind, clock, granted, until, verdict>>

Over(k) == until[k] < clock

FWInit ==
  /\ length \in Nat
  /\ mayFail \in BOOLEAN
  /\ clock \in Nat
  /\ granted = [k \in WKeys |-> 0]
  /\ until = [k \in WKeys |-> -1]
  /\ verdict = "none"

\* windows that are over give way to new ones
Renew(K, counted) ==
  /\ \A k \in K : Over(k)
  /\ until' = [k \in WKeys |-> IF k \in K THEN clock + length ELSE until[k]]
  /\ granted' = [k \in WKeys |-> IF k \in K THEN counted[k] ELSE granted[k] + counted[k]]

One(k) == [x \in WKeys |-> IF x = k THEN 1 ELSE 0]

GrantCall(k) ==
  /\ verdict' = "pass"
  /\ \E K \in SUBSET WKeys : (k \in K <=> Over(k)) /\ Renew(K, One(k))
  /\ granted'[k] <= Limit[k]
  /\ UNCHANGED <<kind, clock>>

RefuseCall(k) ==
  /\ verdict' = "limited"
  /\ ~Over(k)
  /\ granted[k] = Limit[k]
  /\ UNCHANGED <<kind, clock, granted, until>>

PassUncounted(k) ==
  /\ verdict' = "pass"
  /\ mayFail
  /\ UNCHANGED <<kind, clock, granted, until>>

FWTick == clock' > clock /\ UNCHANGED <<kind, granted, until, verdict>>

FWNext == FWTick \/ \E k \in WKeys : GrantCall(k) \/ RefuseCall(k) \/ PassUncounted(k)

FWSpec == FWInit /\ [][FWNext]_fwVars
=============================================================================
