-------------------------- MODULE WatchdogPromise --------------------------
(***************************************************************************)
(* What the experiment controller relies on of its memory watchdog: the    *)
(* trip file is written once, before any docker stop, and a watchdog that  *)
(* has written it goes on to nothing but the stop and its own end.         *)
(* MemWatch implements this, and Experiment grants its watchdogs no less.  *)
(***************************************************************************)

VARIABLES
  watch,   \* "on", "tripped" (on its way to docker stop) or "gone"
  trip     \* the trip file exists

vars == <<watch, trip>>

Init == watch = "on" /\ trip = FALSE

Trip == watch = "on" /\ watch' = "tripped" /\ trip' = TRUE

\* docker stop, or the loss of the process on the way to it.
Stop == watch = "tripped" /\ watch' = "gone" /\ UNCHANGED trip

\* The done file was seen, or the process was lost.
End == watch = "on" /\ watch' = "gone" /\ UNCHANGED trip

Next == Trip \/ Stop \/ End

Spec == Init /\ [][Next]_vars
=============================================================================
