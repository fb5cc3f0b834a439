------------------------------ MODULE TimerSet ------------------------------
(***************************************************************************)
(* What the runtime's timers promise (the comments of runtime/time.go): an *)
(* armed timer runs once, not before its time; a periodic one is armed     *)
(* again by running; stopping a timer tells whether it was stopped before  *)
(* it ran.                                                                 *)
(***************************************************************************)
EXTENDS Naturals

CONSTANTS Timers,
          Gs,          \* the goroutines that set and stop them
          Times,       \* the times a timer is set to
          period,      \* period[t]: 0, or t repeats
          None

VARIABLES now,
          armed,       \* armed[t]: when t is to run next, or None
          event        \* what the last step did: a setting, a run or a stop, or None

tvars == <<now, armed, event>>

SetInit == now = 0 /\ armed = [t \in Timers |-> None] /\ event = None

Tick == now' = now + 1 /\ event' = None /\ UNCHANGED armed

Arm(t) ==
  /\ \E w \in Times : /\ armed' = [armed EXCEPT ![t] = w]
                     /\ event' = [act |-> "arm", t |-> t, when |-> w]
  /\ UNCHANGED now

Stop(g, t) ==
  /\ armed' = [armed EXCEPT ![t] = None]
  /\ event' = [act |-> "stop", g |-> g, t |-> t, was |-> armed[t] # None]
  /\ UNCHANGED now

Run(t) ==
  /\ armed[t] # None
  /\ armed[t] <= now
  /\ event' = [act |-> "run", t |-> t]
  /\ IF period[t] = 0 THEN armed' = [armed EXCEPT ![t] = None]
     ELSE \E k \in 1 .. now - armed[t] + 1 :
            armed' = [armed EXCEPT ![t] = @ + k * period[t]]
  /\ UNCHANGED now

Work == event' = None /\ UNCHANGED <<now, armed>>

SetNext ==
  \/ Tick \/ Work
  \/ \E t \in Timers : Arm(t) \/ Run(t) \/ \E g \in Gs : Stop(g, t)

SetSpec == SetInit /\ [][SetNext]_tvars
=============================================================================
