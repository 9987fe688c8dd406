------------------------------ MODULE Signals ------------------------------
(***************************************************************************)
(* The latch and the event (core/sync/latch.cpp, event.cpp) on top of what *)
(* the parking lot promises.  A latch opens when it has been counted down  *)
(* to 0 and stays open; an event is triggered and reset, and can be waited *)
(* for with a timeout.  Both change their word first and wake every        *)
(* sleeper afterwards.  Only the address is used for that: the object may  *)
(* be gone by then, and another waited for at its address, whose sleepers  *)
(* are woken for nothing.                                                  *)
(***************************************************************************)
EXTENDS WaitQueues, Naturals

CONSTANTS
  Latch, Event,          \* the addresses
  LatchCount             \* what the latch is made with

ASSUME SignalsAssumption == {Latch, Event} \subseteq Keys /\ LatchCount \in Nat

VARIABLES
  remaining,             \* the latch's m_remaining
  isTriggered,           \* the event's m_isTriggered
  waitsFor,              \* per thread: the address it waits for, if any
  until,                 \* per thread: wait(), or waitFor() and whether in time
  signalling             \* per thread: the call it is in, and how far

signalVars == <<remaining, isTriggered, waitsFor, until, signalling>>

Go(t, step) == signalling' = [signalling EXCEPT ![t] = step]

Waiting(t) == signalling[t] \in {"looking", "parking", "asleep", "late"}

\* The call returns, and its locals are gone.
Over(t) ==
  /\ Go(t, "no")
  /\ waitsFor' = [waitsFor EXCEPT ![t] = Latch]
  /\ until' = [until EXCEPT ![t] = "ever"]

Open(k) == IF k = Latch THEN remaining = 0 ELSE isTriggered

SignalsInit ==
  /\ Init
  /\ remaining = LatchCount
  /\ isTriggered = FALSE
  /\ waitsFor = [t \in Threads |-> Latch]
  /\ until = [t \in Threads |-> "ever"]
  /\ signalling = [t \in Threads |-> "no"]

-----------------------------------------------------------------------------
(* wait and waitFor.                                                       *)

StartWaiting(t) ==
  /\ signalling[t] = "no"
  /\ \E k \in {Latch, Event}, u \in {"ever", "expiry"} :
       /\ k = Latch => u = "ever"
       /\ waitsFor' = [waitsFor EXCEPT ![t] = k]
       /\ until' = [until EXCEPT ![t] = u]
  /\ Go(t, "looking")
  /\ UNCHANGED <<vars, remaining, isTriggered>>

\* The loop finds it open, and the wait is over.
FindOpen(t) ==
  /\ signalling[t] = "looking"
  /\ Open(waitsFor[t])
  /\ Over(t)
  /\ UNCHANGED <<vars, remaining, isTriggered>>

FindClosed(t) ==
  /\ signalling[t] = "looking"
  /\ ~Open(waitsFor[t])
  /\ Go(t, IF until[t] = "expired" THEN "late" ELSE "parking")
  /\ UNCHANGED <<vars, remaining, isTriggered, waitsFor, until>>

\* Under the bucket's lock it must still be closed.
ParkForSignal(t) ==
  /\ signalling[t] = "parking"
  /\ IF Open(waitsFor[t])
       THEN Go(t, "looking") /\ UNCHANGED vars
       ELSE Join(t, waitsFor[t]) /\ Go(t, "asleep")
  /\ UNCHANGED <<remaining, isTriggered, waitsFor, until>>

\* park() has returned, for the signal or for nothing, and the loop goes on.
WokenForSignal(t) ==
  /\ signalling[t] = "asleep"
  /\ Return(t)
  /\ Go(t, "looking")
  /\ UNCHANGED <<remaining, isTriggered, waitsFor, until>>

\* The expiry of a waitFor passes,
Expire(t) ==
  /\ Waiting(t) /\ until[t] = "expiry"
  /\ until' = [until EXCEPT ![t] = "expired"]
  /\ UNCHANGED <<vars, remaining, isTriggered, waitsFor, signalling>>

\* and parkFor gives up and says so,
GiveUpWaiting(t) ==
  /\ signalling[t] = "asleep" /\ until[t] = "expired"
  /\ GiveUp(t, waitsFor[t])
  /\ Go(t, "late")
  /\ UNCHANGED <<remaining, isTriggered, waitsFor, until>>

\* after which waitFor answers whether the event is triggered now.
Answer(t) ==
  /\ signalling[t] = "late"
  /\ Over(t)
  /\ UNCHANGED <<vars, remaining, isTriggered>>

-----------------------------------------------------------------------------
(* countDown, trigger and reset.                                           *)

\* Only the call that brings the counter to 0 goes on to wake the sleepers.
CountDown(t) ==
  /\ signalling[t] = "no"
  /\ remaining > 0
  /\ remaining' = remaining - 1
  /\ Go(t, IF remaining = 1 THEN "openLatch" ELSE "no")
  /\ UNCHANGED <<vars, isTriggered, waitsFor, until>>

Trigger(t) ==
  /\ signalling[t] = "no"
  /\ isTriggered' = TRUE
  /\ Go(t, "wakeEvent")
  /\ UNCHANGED <<vars, remaining, waitsFor, until>>

Reset(t) ==
  /\ signalling[t] = "no"
  /\ isTriggered' = FALSE
  /\ UNCHANGED <<vars, remaining, waitsFor, until, signalling>>

\* unparkAll wakes the sleepers one after the other, longest first.
WakeAll(k) ==
  /\ waiting' = [waiting EXCEPT ![k] = <<>>]
  /\ place' = [t \in Threads |->
                IF \E n \in DOMAIN waiting[k] : waiting[k][n] = t THEN "woken" ELSE place[t]]

\* Mutant: unparkOne in place of unparkAll.
WakeOneSleeper(t) ==
  \E k \in {Latch, Event} :
    /\ signalling[t] = IF k = Latch THEN "openLatch" ELSE "wakeEvent"
    /\ IF waiting[k] = <<>> THEN UNCHANGED vars ELSE WakeFirst(k)
    /\ Go(t, "no")
    /\ UNCHANGED <<remaining, isTriggered, waitsFor, until>>

WakeSleepers(t) ==
  \E k \in {Latch, Event} :
    /\ signalling[t] = IF k = Latch THEN "openLatch" ELSE "wakeEvent"
    /\ WakeAll(k)
    /\ Go(t, "no")
    /\ UNCHANGED <<remaining, isTriggered, waitsFor, until>>

\* A late unparkAll of an object that was at this address before.
StaleWake(k) ==
  /\ waiting[k] # <<>>
  /\ WakeAll(k)
  /\ UNCHANGED signalVars

-----------------------------------------------------------------------------

WaitOrSignal(t) ==
  \/ FindOpen(t) \/ FindClosed(t) \/ ParkForSignal(t) \/ WokenForSignal(t)
  \/ GiveUpWaiting(t) \/ Answer(t) \/ WakeSleepers(t)

SignalsNext ==
  \/ \E t \in Threads :
       StartWaiting(t) \/ CountDown(t) \/ Trigger(t) \/ Reset(t) \/ Expire(t) \/ WaitOrSignal(t)
  \/ \E k \in {Latch, Event} : StaleWake(k)

SignalsSpec == SignalsInit /\ [][SignalsNext]_<<vars, signalVars>>

\* A thread inside a call keeps running, and a timeout passes.
SignalsFairness ==
  \A t \in Threads :
    WF_<<vars, signalVars>>(WaitOrSignal(t)) /\ WF_<<vars, signalVars>>(Expire(t))

-----------------------------------------------------------------------------
(* Properties.                                                             *)

\* A latch that has been counted down lets each waiter go, and so does the
\* expiry of a timed wait, however often they are woken for nothing.
WaitersAreReleased ==
  /\ \A t \in Threads :
       Waiting(t) /\ waitsFor[t] = Latch /\ remaining = 0 ~> ~Waiting(t)
  /\ \A t \in Threads : Waiting(t) /\ until[t] # "ever" ~> ~Waiting(t)
=============================================================================
