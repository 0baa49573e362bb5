---------------------------- MODULE CommandContract ----------------------------
(***************************************************************************)
(* What RequestSetMenu promises its callers, without the lock, the state   *)
(* word, the event and the threads that keep the promise: commands are     *)
(* taken one at a time and carried out one at a time, each at most once    *)
(* and never after a newer one; a caller is told exactly one thing, and    *)
(* only what is true; and a command can be carried out only while its      *)
(* caller still wants it, or wanted it when a frame claimed it.            *)
(* CommandQueue implements it.                                             *)
(***************************************************************************)
EXTENDS Integers, Sequences

CONSTANTS MaxRequests, NoAnswer

VARIABLES
  asked,  \* the commands asked for so far
  open,   \* the command a frame may claim, if there is one
  active, \* the command a frame has claimed and not recorded, if there is one
  ran,    \* the commands that were carried out, in order
  told    \* what each caller was told

vars == <<asked, open, active, ran, told>>

Init ==
  /\ asked = 0
  /\ open = {}
  /\ active = {}
  /\ ran = << >>
  /\ told = [r \in 1..MaxRequests |-> NoAnswer]

Ran == {ran[i] : i \in DOMAIN ran}

Answer(r, what, which) ==
  /\ told[r] = NoAnswer
  /\ told' = [told EXCEPT ![r] = [told |-> what, of |-> which]]

\* A caller's turn comes when no other command waits for a frame.
Ask ==
  /\ asked < MaxRequests
  /\ open = {}
  /\ asked' = asked + 1
  /\ open' = {asked'}
  /\ UNCHANGED <<active, ran, told>>

\* Busy is told only while an earlier command is in flight.
Refuse(r) ==
  /\ r \in open
  /\ active # {}
  /\ open' = open \ {r}
  /\ Answer(r, "Busy", 0)
  /\ UNCHANGED <<asked, active, ran>>

Claim(r) ==
  /\ r \in open
  /\ active = {}
  /\ \A i \in DOMAIN ran : ran[i] < r
  /\ active' = {r}
  /\ open' = open \ {r}
  /\ UNCHANGED <<asked, ran, told>>

Run(r) ==
  /\ r \in active
  /\ r \notin Ran
  /\ ran' = Append(ran, r)
  /\ UNCHANGED <<asked, open, active, told>>

Record(r) ==
  /\ r \in active
  /\ r \in Ran
  /\ active' = active \ {r}
  /\ UNCHANGED <<asked, open, ran, told>>

\* An outcome is told when it is recorded, and it is the caller's own.
TellOutcome(r) ==
  /\ r \in Ran
  /\ r \notin active
  /\ Answer(r, "outcome", r)
  /\ UNCHANGED <<asked, open, active, ran>>

\* A caller may lose patience at any time, and then withdraws a command that
\* nobody has claimed; one that is claimed runs.
Stall(r) ==
  /\ Answer(r, "HookStalled", 0)
  /\ UNCHANGED <<asked, open, active, ran>>

Withdraw(r) ==
  /\ told[r].told = "HookStalled"
  /\ r \in open
  /\ open' = open \ {r}
  /\ UNCHANGED <<asked, active, ran, told>>

Next ==
  \/ Ask
  \/ \E r \in 1..asked :
       \/ Refuse(r) \/ Claim(r) \/ Run(r) \/ Record(r)
       \/ TellOutcome(r) \/ Stall(r) \/ Withdraw(r)

Spec == Init /\ [][Next]_vars
=============================================================================
