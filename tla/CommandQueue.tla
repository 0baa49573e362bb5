---------------------------- MODULE CommandQueue ----------------------------
(***************************************************************************)
(* The single-slot command queue of src/dll/module.cpp: RequestSetMenu on  *)
(* the side of the callers, DrainQueuedCommand on the side of the game's   *)
(* thread, and the event and the state word between them.                  *)
(*                                                                         *)
(* Each call of RequestSetMenu is a request with a number of its own, which *)
(* tells the model which request a thread acts for; the slot's             *)
(* g_queued_enable is the number of the request that filled it, and its    *)
(* g_queued_status the number of the request whose outcome it holds.       *)
(* SetToolsMenu itself, which takes as long as the game makes it, is the   *)
(* moment a request's number is appended to "executed".                    *)
(***************************************************************************)
EXTENDS Integers, FiniteSets, Sequences

CONSTANTS
  Clients,        \* the threads that call RequestSetMenu
  Drainers,       \* the game threads that run OnFrame
  MaxRequests,    \* bound: requests made in one behaviour
  OvertakesDrain  \* may a request take the slot between the last two
                  \* statements of a drain?

ASSUME QueueAssumption ==
  /\ MaxRequests \in Nat
  /\ OvertakesDrain \in BOOLEAN

Requests == 1..MaxRequests
None == 0               \* no request; as a status, NotConfigured

VARIABLES
  hookInstalled,  \* IsFrameHookInstalled()
  running,        \* g_running
  queueState,     \* g_queue_state
  queuedEnable,   \* g_queued_enable: the request it belongs to
  queuedStatus,   \* g_queued_status: the request it is the outcome of
  queueDone,      \* g_queue_done is signalled
  lockHolder,     \* the clients that hold g_queue_lock
  client,         \* where each client is, and its request
  drainer,        \* where each game thread is, and the request it executes
  asked,          \* the number of requests that came through the lock
  executed,       \* the requests SetToolsMenu was called for, in order
  answers         \* what each request was told

slotVars == <<queueState, queuedEnable, queuedStatus, queueDone>>
hookVars == <<hookInstalled, running>>
logVars == <<asked, executed, answers>>
vars == <<hookVars, slotVars, lockHolder, client, drainer, logVars>>

QueueStates == {"empty", "pending", "running", "done"}
ClientPlaces ==
  {"out", "lock", "take", "fill", "publish", "wait", "read", "free", "withdraw",
   "unlock"}
DrainerPlaces == {"out", "look", "claimed", "inside", "mark", "signal"}
Refusals == {"Busy", "HookStalled"}
Answers == [told : {"nothing", "outcome"} \cup Refusals, of : Requests \cup {None}]
NoAnswer == [told |-> "nothing", of |-> None]

Init ==
  /\ hookInstalled = FALSE
  /\ running = FALSE
  /\ queueState = "empty"
  /\ queuedEnable = None
  /\ queuedStatus = None
  /\ queueDone = FALSE
  /\ lockHolder = {}
  /\ client = [c \in Clients |-> [at |-> "out", for |-> None]]
  /\ drainer = [d \in Drainers |-> [at |-> "out", for |-> None]]
  /\ asked = 0
  /\ executed = << >>
  /\ answers = [r \in Requests |-> NoAnswer]

-----------------------------------------------------------------------------
(* RequestSetMenu, statement by statement where a drain can come between.  *)

ClientGoes(c, from, to) ==
  /\ client[c].at = from
  /\ client' = [client EXCEPT ![c].at = to]
  /\ UNCHANGED <<hookVars, drainer, asked, executed>>

Tell(r, what, which) ==
  answers' = [answers EXCEPT ![r] = [told |-> what, of |-> which]]

\* The call.  Without the hook it answers NotConfigured and changes nothing.
Waiting == {c \in Clients : client[c].at = "lock"}
Call(c) ==
  /\ hookInstalled
  /\ asked + Cardinality(Waiting) < MaxRequests
  /\ ClientGoes(c, "out", "lock")
  /\ UNCHANGED <<slotVars, lockHolder, answers>>

\* EnterCriticalSection(&g_queue_lock): the requests are numbered in the order
\* they come through it.
LockFree == lockHolder = {}
EnterLock(c) ==
  /\ client[c].at = "lock"
  /\ LockFree
  /\ lockHolder' = lockHolder \cup {c}
  /\ asked' = asked + 1
  /\ client' = [client EXCEPT ![c] = [at |-> "take", for |-> asked']]
  /\ UNCHANGED <<hookVars, slotVars, drainer, executed, answers>>

\* The exchange of Done for Empty, which tells in the same instruction
\* whether an earlier command is still in the slot.
Occupied == {"pending", "running"}

TakeSlot(c) ==
  /\ queueState \notin Occupied
  /\ OvertakesDrain \/ \A d \in Drainers : drainer[d].at # "signal"
  /\ queueState' = "empty"
  /\ ClientGoes(c, "take", "fill")
  /\ UNCHANGED <<queuedEnable, queuedStatus, queueDone, lockHolder, answers>>

FindBusy(c) ==
  /\ queueState \in Occupied
  /\ ClientGoes(c, "take", "unlock")
  /\ Tell(client[c].for, "Busy", None)
  /\ UNCHANGED <<slotVars, lockHolder>>

\* The parameters, and ResetEvent of an event that an earlier command may have
\* left signalled.  Mutant: the event is not reset.
KeepEvent == queueDone
ResetEvent == FALSE

FillSlot(c) ==
  /\ queuedEnable' = client[c].for
  /\ queuedStatus' = None
  /\ queueDone' = ResetEvent
  /\ ClientGoes(c, "fill", "publish")
  /\ UNCHANGED <<queueState, lockHolder, answers>>

Publish(c) ==
  /\ queueState' = "pending"
  /\ ClientGoes(c, "publish", "wait")
  /\ UNCHANGED <<queuedEnable, queuedStatus, queueDone, lockHolder, answers>>

\* WaitForSingleObject: signalled, or two seconds later.
WaitSucceeds(c) ==
  /\ queueDone
  /\ ClientGoes(c, "wait", "read")
  /\ UNCHANGED <<slotVars, lockHolder, answers>>

WaitTimesOut(c) ==
  /\ ClientGoes(c, "wait", "withdraw")
  /\ Tell(client[c].for, "HookStalled", None)
  /\ UNCHANGED <<slotVars, lockHolder>>

ReadStatus(c) ==
  /\ ClientGoes(c, "read", "free")
  /\ Tell(client[c].for, "outcome", queuedStatus)
  /\ UNCHANGED <<slotVars, lockHolder>>

FreeSlot(c) ==
  /\ queueState' = "empty"
  /\ ClientGoes(c, "free", "unlock")
  /\ UNCHANGED <<queuedEnable, queuedStatus, queueDone, lockHolder, answers>>

\* Only a command nobody claimed is withdrawn.  Mutant: it is left in the slot.
LeftPending == queueState
AfterWithdrawal == IF queueState = "pending" THEN "empty" ELSE queueState

Withdraw(c) ==
  /\ queueState' = AfterWithdrawal
  /\ ClientGoes(c, "withdraw", "unlock")
  /\ UNCHANGED <<queuedEnable, queuedStatus, queueDone, lockHolder, answers>>

\* Mutant: the early return forgets LeaveCriticalSection.
LeaveLockUnlessBusy(c) ==
  /\ client[c].at = "unlock"
  /\ lockHolder' = IF answers[client[c].for].told = "Busy" THEN lockHolder
                                                      ELSE lockHolder \ {c}
  /\ client' = [client EXCEPT ![c] = [at |-> "out", for |-> None]]
  /\ UNCHANGED <<hookVars, slotVars, drainer, logVars>>
LeaveLock(c) ==
  /\ client[c].at = "unlock"
  /\ lockHolder' = lockHolder \ {c}
  /\ client' = [client EXCEPT ![c] = [at |-> "out", for |-> None]]
  /\ UNCHANGED <<hookVars, slotVars, drainer, logVars>>

InCall(c) ==
  \/ EnterLock(c) \/ TakeSlot(c) \/ FindBusy(c) \/ FillSlot(c) \/ Publish(c)
  \/ WaitSucceeds(c) \/ WaitTimesOut(c) \/ ReadStatus(c) \/ FreeSlot(c)
  \/ Withdraw(c) \/ LeaveLock(c)

-----------------------------------------------------------------------------
(* OnFrame and DrainQueuedCommand.                                         *)

DrainerGoes(d, from, to) ==
  /\ drainer[d].at = from
  /\ drainer' = [drainer EXCEPT ![d].at = to]
  /\ UNCHANGED <<hookVars, queuedEnable, lockHolder, client, asked, answers>>

EnterFrame(d) ==
  /\ hookInstalled
  /\ running
  /\ DrainerGoes(d, "out", "look")
  /\ UNCHANGED <<queueState, queuedStatus, queueDone, executed>>

\* The compare-and-exchange.  Mutant: compare, then exchange blindly.
LookedPending == queueState \in {"pending", "running"}
IsPending == queueState = "pending"
ClaimCommand(d) ==
  /\ IsPending
  /\ queueState' = "running"
  /\ DrainerGoes(d, "look", "claimed")
  /\ UNCHANGED <<queuedStatus, queueDone, executed>>

NothingPending(d) ==
  /\ queueState # "pending"
  /\ DrainerGoes(d, "look", "out")
  /\ UNCHANGED <<queueState, queuedStatus, queueDone, executed>>

\* The parameter is read and SetToolsMenu runs.
Execute(d) ==
  /\ drainer[d].at = "claimed"
  /\ drainer' = [drainer EXCEPT ![d] = [at |-> "inside", for |-> queuedEnable]]
  /\ executed' = Append(executed, queuedEnable)
  /\ UNCHANGED <<hookVars, slotVars, lockHolder, client, asked, answers>>

\* SetToolsMenu returns, its outcome is stored and recorded.
StoreStatus(d) ==
  /\ queuedStatus' = drainer[d].for
  /\ DrainerGoes(d, "inside", "mark")
  /\ UNCHANGED <<queueState, queueDone, executed>>

\* InterlockedExchange(Done), then SetEvent.  Mutant: the event alone is
\* thought to free the slot.
StillRunning == queueState
Done == "done"
MarkDone(d) ==
  /\ queueState' = Done
  /\ DrainerGoes(d, "mark", "signal")
  /\ UNCHANGED <<queuedStatus, queueDone, executed>>

SignalDone(d) ==
  /\ drainer[d].at = "signal"
  /\ queueDone' = TRUE
  /\ drainer' = [drainer EXCEPT ![d] = [at |-> "out", for |-> None]]
  /\ UNCHANGED <<hookVars, queueState, queuedEnable, queuedStatus, lockHolder,
                 client, logVars>>

DrainStep(d) ==
  \/ EnterFrame(d) \/ ClaimCommand(d) \/ NothingPending(d) \/ Execute(d)
  \/ StoreStatus(d) \/ MarkDone(d) \/ SignalDone(d)

-----------------------------------------------------------------------------
(* What the rest of module.cpp does to the queue: the worker installs the   *)
(* hook and sets g_running, a detach clears g_running and takes it out.     *)

HookComesIn ==
  /\ ~hookInstalled
  /\ hookInstalled' = TRUE
  /\ running' = FALSE
  /\ UNCHANGED <<slotVars, lockHolder, client, drainer, logVars>>

StartDraining ==
  /\ hookInstalled
  /\ ~running
  /\ running' = TRUE
  /\ UNCHANGED <<hookInstalled, slotVars, lockHolder, client, drainer, logVars>>

StopDraining ==
  /\ running
  /\ running' = FALSE
  /\ UNCHANGED <<hookInstalled, slotVars, lockHolder, client, drainer, logVars>>

HookGoes ==
  /\ hookInstalled
  /\ ~running
  /\ hookInstalled' = FALSE
  /\ UNCHANGED <<running, slotVars, lockHolder, client, drainer, logVars>>

Hook == HookComesIn \/ StartDraining \/ StopDraining \/ HookGoes

Next ==
  \/ \E c \in Clients : Call(c) \/ InCall(c)
  \/ \E d \in Drainers : DrainStep(d)
  \/ Hook

Spec == Init /\ [][Next]_vars

\* A caller's thread is scheduled: its wait is bounded, so nothing is asked of
\* the game's threads but that one which is in a drain finishes it.
InDrain(d) == drainer[d].at # "out" /\ DrainStep(d)
FairSpec ==
  /\ Spec
  /\ \A c \in Clients : WF_vars(InCall(c))
  /\ \A d \in Drainers : WF_vars(InDrain(d))

-----------------------------------------------------------------------------
(* Properties.                                                             *)

TypeOK ==
  /\ {hookInstalled, running, queueDone} \subseteq BOOLEAN
  /\ queueState \in QueueStates
  /\ queuedEnable \in Requests \cup {None}
  /\ queuedStatus \in Requests \cup {None}
  /\ lockHolder \in {{}} \cup {{c} : c \in Clients}
  /\ client \in [Clients -> [at : ClientPlaces, for : Requests \cup {None}]]
  /\ drainer \in [Drainers -> [at : DrainerPlaces, for : Requests \cup {None}]]
  /\ asked \in 0..MaxRequests
  /\ executed \in Seq(Requests)
  /\ answers \in [Requests -> Answers]

Executed == {executed[i] : i \in DOMAIN executed}

\* A command is carried out at most once, and never after a newer one: the menu
\* ends up as the last command that ran asked for, although a caller may give
\* up on a command that is claimed already.
InOrderAndOnce ==
  \A i, j \in DOMAIN executed : i < j => executed[i] < executed[j]

\* A caller that is told an outcome is told the outcome of its own command,
\* which has run.
AnswerIsOwn ==
  \A r \in Requests :
    answers[r].told = "outcome" => answers[r].of = r /\ r \in Executed

\* A drain never writes into a request that has replaced the one it claimed.
DrainKeepsItsCommand ==
  \A d \in Drainers :
    drainer[d].at \in {"inside", "mark"} =>
      queuedEnable = drainer[d].for /\ queueState = "running"

\* Once a caller gave up on a command nobody has claimed, the command is gone:
\* no frame claims it later, when the user has stopped expecting it.
GaveUpOn(r) ==
  /\ answers[r].told = "HookStalled"
  /\ \A c \in Clients : client[c].for # r
Claimed ==
  {IF drainer[d].at = "claimed" THEN queuedEnable ELSE drainer[d].for :
     d \in Drainers}
WithdrawnNeverRuns ==
  [][\A r \in Requests :
       GaveUpOn(r) /\ r \notin Claimed => r \notin Claimed']_vars

\* What the queue promises, with the slot seen as the command it stands for: a
\* command is open from the caller's turn until a frame claims it or the caller
\* takes it out, and active from the claim until Done is stored.
Open ==
  {r \in Requests :
     \/ \E c \in Clients :
          client[c].for = r /\ client[c].at \in {"take", "fill", "publish"}
     \/ queueState = "pending" /\ queuedEnable = r}
Active == IF queueState = "running" THEN {queuedEnable} ELSE {}
Contract == INSTANCE CommandContract
  WITH open <- Open, active <- Active, ran <- executed, told <- answers
ImplementsContract == Contract!Spec

\* Every call returns: the wait is bounded, and the critical section is left on
\* every path.
CallsReturn == \A c \in Clients : client[c].at # "out" ~> client[c].at = "out"

\* A command a caller gave up on while it ran does not leave the slot occupied.
SlotIsFreed == queueState \in Occupied ~> queueState \notin Occupied
=============================================================================
