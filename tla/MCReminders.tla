---------------------------- MODULE MCReminders -------------------------------
(***************************************************************************)
(* Small instances of Reminders; the .cfg file gives the bounds.  Its      *)
(* faults have a name of their own, for a module that extends this one and *)
(* PushDelivery, which drains the outbox that the sweeps fill.             *)
(***************************************************************************)
EXTENDS Naturals, Sequences

CONSTANTS Sweepers, Members, Meals, Expiries, Switched, Operations, KeepRead, MaxEvents, MaxEdits,
          MaxSweepFaults

VARIABLES due, feed, outbox, prefs, edits, pending, at, pass, todo, cur, pushOK, gate,
          sweepFaults, events, agreed, chosen

R == INSTANCE Reminders WITH MaxFaults <- MaxSweepFaults, faults <- sweepFaults

ASSUME SwitchedAssumption == Switched \subseteq R!Categories

RemindersSpec == R!Spec

\* The properties of Reminders under their own names.
ConsentKept == R!ConsentKept
EventuallyReminded == R!EventuallyReminded
=============================================================================
