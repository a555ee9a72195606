----------------------------- MODULE TaskContract -----------------------------
(***************************************************************************)
(* What the task queue promises about one task, without claims, timeouts,  *)
(* heartbeats or recoveries: a submitted task waits, is taken by one worker *)
(* at a time and at most MaxAttempts times, and ends either done, which    *)
(* only the worker holding it can bring about, or dead, which takes every  *)
(* attempt.  Neither end is ever left.                                     *)
(***************************************************************************)
EXTENDS Naturals

CONSTANTS Workers, Tasks, MaxAttempts, NoWorker

VARIABLE entry  \* the phase, the attempts and the holder of each task

Entry == [ phase  : {"unknown", "waiting", "working", "done", "dead"},
           tries  : 0..MaxAttempts,
           holder : Workers \union {NoWorker} ]

Init == entry = [t \in Tasks |-> [phase |-> "unknown", tries |-> 0, holder |-> NoWorker]]

\* t as no worker holds it, its attempts unchanged.
Unheld(t, phase) == [phase |-> phase, tries |-> entry[t].tries, holder |-> NoWorker]

Submit(t) ==
  /\ entry[t].phase = "unknown"
  /\ entry'[t] = Unheld(t, "waiting")

Take(t) ==
  /\ entry[t].phase = "waiting"
  /\ entry[t].tries < MaxAttempts
  /\ \E w \in Workers :
        entry'[t] = [phase |-> "working", tries |-> entry[t].tries + 1, holder |-> w]

\* The holder dies; the task is still marked as being worked on.
Lose(t) ==
  /\ entry[t].phase = "working"
  /\ entry'[t] = [entry[t] EXCEPT !.holder = NoWorker]

\* A failed or lost attempt, with attempts left.
GiveBack(t) ==
  /\ entry[t].phase = "working"
  /\ entry[t].tries < MaxAttempts
  /\ entry'[t] = Unheld(t, "waiting")

Finish(t) ==
  /\ entry[t].phase = "working"
  /\ entry[t].holder # NoWorker
  /\ entry'[t] = Unheld(t, "done")

\* A failed or lost attempt, the last one.
Bury(t) ==
  /\ entry[t].phase = "working"
  /\ entry[t].tries = MaxAttempts
  /\ entry'[t] = Unheld(t, "dead")

Step(t) == Submit(t) \/ Take(t) \/ Lose(t) \/ GiveBack(t) \/ Finish(t) \/ Bury(t)

\* One recovery gives back or buries several tasks in one transaction.
Next ==
  /\ entry' \in [Tasks -> Entry]
  /\ \A t \in Tasks : Step(t) \/ entry'[t] = entry[t]

Spec == Init /\ [][Next]_entry
=============================================================================
