---------------------------- MODULE CallLifecycle ---------------------------
(***************************************************************************)
(* What the pipeline promises about a call nobody interferes with: it is   *)
(* attempted, put back a bounded number of times, and settled for good.    *)
(* CallPipeline is shown to implement this specification.                  *)
(***************************************************************************)
EXTENDS Naturals

CONSTANTS
  Calls,       \* the calls
  MaxFailures  \* how often a call may be put back, a natural number

VARIABLES
  phase,    \* where each call is
  failures  \* how often each call has failed

Phase == {"new", "waiting", "running", "settled"}

LifecycleTypeOK ==
  /\ phase \in [Calls -> Phase]
  /\ failures \in [Calls -> 0 .. MaxFailures + 1]

Init ==
  /\ phase = [c \in Calls |-> "new"]
  /\ failures = [c \in Calls |-> 0]

Move(c, from, to) == phase[c] = from /\ phase' = [phase EXCEPT ![c] = to]

Submit(c) == Move(c, "new", "waiting") /\ UNCHANGED failures

Start(c) == Move(c, "waiting", "running") /\ UNCHANGED failures

PutBack(c) ==
  /\ Move(c, "running", "waiting")
  /\ failures[c] < MaxFailures
  /\ failures' = [failures EXCEPT ![c] = @ + 1]

Succeed(c) ==
  /\ Move(c, "running", "settled")
  /\ failures' = [failures EXCEPT ![c] = 0]

GiveUp(c) ==
  /\ Move(c, "running", "settled")
  /\ failures' = [failures EXCEPT ![c] = @ + 1]

Run(c) == PutBack(c) \/ Succeed(c) \/ GiveUp(c)

Next == \E c \in Calls : Submit(c) \/ Start(c) \/ Run(c)

Steps == Init /\ [][Next]_<<phase, failures>>

Spec ==
  /\ Steps
  /\ \A c \in Calls : WF_<<phase, failures>>(Start(c)) /\ WF_<<phase, failures>>(Run(c))
=============================================================================
