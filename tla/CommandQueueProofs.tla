------------------------- MODULE CommandQueueProofs -------------------------
(***************************************************************************)
(* Proofs about CommandQueue for any number of callers, draining threads   *)
(* and requests.  When no caller takes the slot between the last two       *)
(* statements of a drain: commands run once and in order, a drain keeps    *)
(* the command it claimed, a caller is told of its own command, and the    *)
(* queue implements CommandContract.  Without that condition: a command    *)
(* withdrawn is never claimed, calls and drains are bounded, and an        *)
(* occupied slot always has somebody at it.                                *)
(***************************************************************************)
EXTENDS CommandQueue, FiniteSetTheorems, TLAPS

USE QueueAssumption DEF QueueAssumption
USE DEF slotVars, hookVars, logVars, ClientGoes, DrainerGoes, Tell, None,
        ResetEvent, Occupied

\* Where a client holds the critical section.
Inside(c) == client[c].at \notin {"out", "lock"}

\* Where a drain has the slot.
Draining(d) == drainer[d].at \in {"claimed", "inside", "mark", "signal"}
Quiet == \A d \in Drainers : ~Draining(d)

-----------------------------------------------------------------------------
(* The inductive invariant.                                                *)

Types ==
  /\ queueState \in QueueStates
  /\ queuedEnable \in Nat
  /\ queuedStatus \in Nat
  /\ client \in [Clients -> [at : ClientPlaces, for : Nat]]
  /\ drainer \in [Drainers -> [at : DrainerPlaces, for : Nat]]
  /\ asked \in Nat
  /\ executed \in Seq(Nat)
  /\ answers \in [Requests -> [told : {"nothing", "outcome"} \cup Refusals,
                               of : Nat]]

OneHolder ==
  /\ \A c \in Clients : Inside(c) => c \in lockHolder
  /\ \A c, e \in Clients : Inside(c) /\ Inside(e) => c = e

\* The holder of the lock is the newest request.
HolderIsNewest == \A c \in Clients : Inside(c) => client[c].for = asked

\* What a client may rely on at each of its places.
SlotOfClient ==
  \A c \in Clients :
    /\ client[c].at \in {"take", "fill"} => queuedEnable < asked
    /\ client[c].at \in {"take", "fill", "publish"} =>
         \A i \in DOMAIN executed : executed[i] < asked
    /\ client[c].at \in {"fill", "publish"} => queueState = "empty" /\ Quiet
    /\ client[c].at = "publish" => ~queueDone
    /\ client[c].at \in {"publish", "wait", "read", "free"} =>
         queuedEnable = asked
    /\ client[c].at = "wait" /\ queueDone => queueState = "done" /\ Quiet
    /\ client[c].at \in {"read", "free"} => queueState = "done" /\ Quiet

\* What a drain may rely on at each of its places.
SlotOfDrain ==
  \A d \in Drainers :
    /\ drainer[d].at \in {"claimed", "inside", "mark"} => queueState = "running"
    /\ drainer[d].at = "claimed" =>
         \A i \in DOMAIN executed : executed[i] < queuedEnable
    /\ drainer[d].at \in {"inside", "mark"} =>
         drainer[d].for = queuedEnable /\ queuedEnable \in Executed
    /\ drainer[d].at = "mark" => queuedStatus = queuedEnable
    /\ drainer[d].at = "signal" => queueState = "done"

OneDrain == \A d, e \in Drainers : Draining(d) /\ Draining(e) => d = e

DoneHolds ==
  queueState = "done" => queuedStatus = queuedEnable /\ queuedEnable \in Executed

PendingIsNewer ==
  queueState = "pending" => \A i \in DOMAIN executed : executed[i] < queuedEnable

NoneFromTheFuture ==
  /\ queuedEnable <= asked
  /\ \A i \in DOMAIN executed : executed[i] <= asked

QueueInv ==
  /\ Types
  /\ OneHolder
  /\ HolderIsNewest
  /\ SlotOfClient
  /\ SlotOfDrain
  /\ OneDrain
  /\ DoneHolds
  /\ PendingIsNewer
  /\ NoneFromTheFuture
  /\ InOrderAndOnce
  /\ AnswerIsOwn

USE DEF Inside, Draining, Quiet, QueueStates, ClientPlaces, DrainerPlaces, Refusals

LEMMA QueueInvInit == Init => QueueInv
<1> SUFFICES ASSUME Init PROVE QueueInv
  OBVIOUS
<1> USE DEF Init
<1>1. Types  BY DEF Types, NoAnswer
<1>2. executed = << >> /\ DOMAIN executed = {}  OBVIOUS
<1>3. OneHolder /\ HolderIsNewest /\ SlotOfClient
  BY DEF OneHolder, HolderIsNewest, SlotOfClient
<1>4. SlotOfDrain /\ OneDrain  BY DEF SlotOfDrain, OneDrain
<1>5. DoneHolds /\ PendingIsNewer  BY DEF DoneHolds, PendingIsNewer
<1>6. NoneFromTheFuture /\ InOrderAndOnce
  BY <1>2 DEF NoneFromTheFuture, InOrderAndOnce
<1>7. AnswerIsOwn  BY DEF AnswerIsOwn, NoAnswer
<1>8. QED
  BY <1>1, <1>3, <1>4, <1>5, <1>6, <1>7 DEF QueueInv

-----------------------------------------------------------------------------
(* The callers.                                                            *)

\* No client's step calls SetToolsMenu.
LEMMA ClientsExecuteNothing ==
  ASSUME NEW c \in Clients, Call(c) \/ InCall(c)
  PROVE  executed' = executed /\ Executed' = Executed /\ drainer' = drainer
  BY DEF Call, InCall, EnterLock, TakeSlot, FindBusy, FillSlot, Publish,
     WaitSucceeds, WaitTimesOut, ReadStatus, FreeSlot, Withdraw, LeaveLock,
     Executed

\* The shape of the clients' table survives a step of one of them.
LEMMA PlacesKeepShape ==
  ASSUME NEW f \in [Clients -> [at : ClientPlaces, for : Nat]],
         NEW c \in Clients, NEW to \in ClientPlaces
  PROVE  [f EXCEPT ![c].at = to] \in [Clients -> [at : ClientPlaces, for : Nat]]
  OBVIOUS

LEMMA TellKeepsShape ==
  ASSUME Types, NEW r, NEW w \in {"outcome", "Busy", "HookStalled"}, NEW k \in Nat,
         Tell(r, w, k)
  PROVE  answers' \in [Requests -> [told : {"nothing", "outcome"} \cup Refusals,
                                    of : Nat]]
  BY DEF Types

LEMMA ClientTypes ==
  ASSUME Types, NEW c \in Clients, Call(c) \/ InCall(c)
  PROVE  Types'
<1> USE DEF Types
<1> DEFINE Kept == UNCHANGED <<drainer, asked, executed>>
           Moves == client' \in [Clients -> [at : ClientPlaces, for : Nat]]
           Tells == answers' \in [Requests -> [told : {"nothing", "outcome"} \cup Refusals,
                                               of : Nat]]
<1>0. 0 \in Nat /\ asked + 1 \in Nat /\ client[c].for \in Nat  OBVIOUS
<1>1. CASE Call(c)
  <2>1. Moves  BY <1>1, PlacesKeepShape DEF Call
  <2>2. QED  BY <1>1, <2>1 DEF Call
<1>2. CASE EnterLock(c)
  <2>1. Moves  BY <1>2 DEF EnterLock
  <2>2. QED  BY <1>2, <2>1 DEF EnterLock
<1>3. CASE TakeSlot(c)
  <2>1. Moves  BY <1>3, PlacesKeepShape DEF TakeSlot
  <2>2. QED  BY <1>3, <2>1 DEF TakeSlot
<1>4. CASE FindBusy(c)
  <2>1. Moves  BY <1>4, PlacesKeepShape DEF FindBusy
  <2>2. Tell(client[c].for, "Busy", 0)  BY <1>4 DEF FindBusy
  <2>3. Tells  BY <2>2, TellKeepsShape, <1>0
  <2>4. QED  BY <1>4, <2>1, <2>3 DEF FindBusy
<1>5. CASE FillSlot(c)
  <2>1. Moves  BY <1>5, PlacesKeepShape DEF FillSlot
  <2>2. QED  BY <1>0, <1>5, <2>1 DEF FillSlot
<1>6. CASE Publish(c)
  <2>1. Moves  BY <1>6, PlacesKeepShape DEF Publish
  <2>2. QED  BY <1>6, <2>1 DEF Publish
<1>7. CASE WaitSucceeds(c)
  <2>1. Moves  BY <1>7, PlacesKeepShape DEF WaitSucceeds
  <2>2. QED  BY <1>7, <2>1 DEF WaitSucceeds
<1>8. CASE WaitTimesOut(c)
  <2>1. Moves  BY <1>8, PlacesKeepShape DEF WaitTimesOut
  <2>2. Tell(client[c].for, "HookStalled", 0)  BY <1>8 DEF WaitTimesOut
  <2>3. Tells  BY <2>2, TellKeepsShape, <1>0
  <2>4. QED  BY <1>8, <2>1, <2>3 DEF WaitTimesOut
<1>9. CASE ReadStatus(c)
  <2>1. Moves  BY <1>9, PlacesKeepShape DEF ReadStatus
  <2>2. Tell(client[c].for, "outcome", queuedStatus)  BY <1>9 DEF ReadStatus
  <2>3. Tells  BY <2>2, TellKeepsShape
  <2>4. QED  BY <1>9, <2>1, <2>3 DEF ReadStatus
<1>10. CASE FreeSlot(c)
  <2>1. Moves  BY <1>10, PlacesKeepShape DEF FreeSlot
  <2>2. QED  BY <1>10, <2>1 DEF FreeSlot
<1>11. CASE Withdraw(c)
  <2>1. Moves  BY <1>11, PlacesKeepShape DEF Withdraw
  <2>2. QED  BY <1>11, <2>1 DEF Withdraw, AfterWithdrawal
<1>12. CASE LeaveLock(c)
  <2>1. Moves  BY <1>12 DEF LeaveLock
  <2>2. QED  BY <1>12, <2>1 DEF LeaveLock
<1>13. QED
  BY <1>1, <1>2, <1>3, <1>4, <1>5, <1>6, <1>7, <1>8, <1>9, <1>10, <1>11, <1>12
  DEF InCall

LEMMA ClientStep ==
  ASSUME QueueInv, ~OvertakesDrain, NEW c \in Clients, Call(c) \/ InCall(c)
  PROVE  QueueInv'
<1> USE DEF QueueInv
<1>1. executed' = executed /\ Executed' = Executed /\ drainer' = drainer
  BY ClientsExecuteNothing
<1>2. InOrderAndOnce'  BY <1>1 DEF InOrderAndOnce
<1> DEFINE Rest == /\ OneHolder /\ HolderIsNewest /\ SlotOfClient
                   /\ SlotOfDrain /\ OneDrain /\ DoneHolds /\ PendingIsNewer
                   /\ NoneFromTheFuture
<1> USE DEF Types, OneHolder, HolderIsNewest, SlotOfClient, SlotOfDrain,
        OneDrain, DoneHolds, PendingIsNewer, NoneFromTheFuture
<1>3. Types'  BY ClientTypes
<1>a. client \in [Clients -> [at : ClientPlaces, for : Nat]]  OBVIOUS
<1>4. Rest'
  <2>1. CASE Call(c)  BY <1>1, <2>1 DEF Call
  <2>2. CASE EnterLock(c)
    <3> USE <1>1 DEF EnterLock, LockFree
    <3>1. OneHolder'  BY <2>2
    <3>2. HolderIsNewest'  BY <2>2
    <3>a. /\ client'[c] = [at |-> "take", for |-> asked + 1]
          /\ \A e \in Clients : e # c => client'[e] = client[e] /\ ~Inside(e)
      BY <2>2, <1>a
    <3>b. queuedEnable < asked + 1 /\ \A i \in DOMAIN executed : executed[i] < asked + 1
      OBVIOUS
    <3>c. UNCHANGED <<queueState, queuedEnable, queueDone, drainer, executed>> /\ asked' = asked + 1
      BY <2>2
    <3>3. SlotOfClient'  BY <3>a, <3>b, <3>c
    <3>4. SlotOfDrain' /\ OneDrain'  BY <2>2
    <3>5. DoneHolds' /\ PendingIsNewer' /\ NoneFromTheFuture'  BY <2>2
    <3>6. QED  BY <3>1, <3>2, <3>3, <3>4, <3>5
  <2>3. CASE TakeSlot(c)  BY <1>1, <2>3 DEF TakeSlot
  <2>4. CASE FindBusy(c)  BY <1>1, <2>4 DEF FindBusy
  <2>5. CASE FillSlot(c)
    <3> USE <1>1 DEF FillSlot
    <3>1. OneHolder'  BY <2>5
    <3>2. HolderIsNewest'  BY <2>5
    <3>a. /\ client'[c] = [at |-> "publish", for |-> asked]
          /\ \A e \in Clients : e # c => client'[e] = client[e] /\ ~Inside(e)
      BY <2>5, <1>a
    <3>b. queueState = "empty" /\ Quiet /\ \A i \in DOMAIN executed : executed[i] < asked
      BY <2>5
    <3>c. /\ UNCHANGED <<queueState, drainer, executed, asked>>
          /\ queueDone' = FALSE /\ queuedEnable' = asked
      BY <2>5
    <3>3. SlotOfClient'  BY <3>a, <3>b, <3>c
    <3>4. SlotOfDrain' /\ OneDrain'  BY <2>5
    <3>5. DoneHolds' /\ PendingIsNewer' /\ NoneFromTheFuture'  BY <3>b, <3>c
    <3>6. QED  BY <3>1, <3>2, <3>3, <3>4, <3>5
  <2>6. CASE Publish(c)  BY <1>1, <2>6 DEF Publish
  <2>7. CASE WaitSucceeds(c)  BY <1>1, <2>7 DEF WaitSucceeds
  <2>8. CASE WaitTimesOut(c)  BY <1>1, <2>8 DEF WaitTimesOut
  <2>9. CASE ReadStatus(c)  BY <1>1, <2>9 DEF ReadStatus
  <2>10. CASE FreeSlot(c)
    <3> USE <1>1 DEF FreeSlot
    <3>1. OneHolder'  BY <2>10
    <3>2. HolderIsNewest'  BY <2>10
    <3>a. /\ client'[c].at = "unlock"
          /\ \A e \in Clients : e # c => client'[e] = client[e] /\ ~Inside(e)
      <4>1. client'[c].at = "unlock" /\ \A e \in Clients : e # c => client'[e] = client[e]
        BY <2>10, <1>a
      <4>2. \A e \in Clients : e # c => ~Inside(e)
        BY <2>10 DEF OneHolder
      <4>3. QED  BY <4>1, <4>2
    <3>3. SlotOfClient'  BY <3>a, <2>10
    <3>4. SlotOfDrain' /\ OneDrain'  BY <2>10
    <3>5. DoneHolds' /\ PendingIsNewer' /\ NoneFromTheFuture'  BY <2>10
    <3>6. QED  BY <3>1, <3>2, <3>3, <3>4, <3>5
  <2>11. CASE Withdraw(c)
    <3> USE <1>1 DEF Withdraw, AfterWithdrawal
    <3>1. OneHolder'  BY <2>11
    <3>2. HolderIsNewest'  BY <2>11
    <3>3. SlotOfClient'  BY <2>11
    <3>4. SlotOfDrain' /\ OneDrain'  BY <2>11
    <3>5. DoneHolds' /\ PendingIsNewer' /\ NoneFromTheFuture'  BY <2>11
    <3>6. QED  BY <3>1, <3>2, <3>3, <3>4, <3>5
  <2>12. CASE LeaveLock(c)  BY <1>1, <2>12 DEF LeaveLock
  <2>13. QED
    BY <2>1, <2>2, <2>3, <2>4, <2>5, <2>6, <2>7, <2>8, <2>9, <2>10, <2>11,
       <2>12 DEF InCall
<1>5. AnswerIsOwn'
  <2>1. CASE FindBusy(c) \/ WaitTimesOut(c)
    BY <1>1, <2>1 DEF FindBusy, WaitTimesOut, AnswerIsOwn
  <2>2. CASE ReadStatus(c)
    <3>1. queuedStatus = client[c].for /\ client[c].for \in Executed
      BY <2>2 DEF ReadStatus
    <3>2. \A r \in Requests :
            answers'[r] = IF r = client[c].for
                          THEN [told |-> "outcome", of |-> r] ELSE answers[r]
      BY <2>2, <3>1 DEF ReadStatus
    <3>3. SUFFICES ASSUME NEW r \in Requests, answers'[r].told = "outcome"
                   PROVE  answers'[r].of = r /\ r \in Executed
      BY <1>1 DEF AnswerIsOwn
    <3>4. CASE r = client[c].for
      <4>1. answers'[r] = [told |-> "outcome", of |-> r]  BY <3>2, <3>4
      <4>2. answers'[r].of = r  BY <4>1
      <4>3. r \in Executed  BY ONLY <3>1, <3>4
      <4>4. QED  BY <4>2, <4>3
    <3>5. CASE r # client[c].for  BY <3>2, <3>3, <3>5 DEF AnswerIsOwn
    <3>6. QED  BY <3>4, <3>5
  <2>3. CASE ~FindBusy(c) /\ ~WaitTimesOut(c) /\ ~ReadStatus(c)
    <3>1. answers' = answers
      BY <2>3 DEF Call, InCall, EnterLock, TakeSlot, FillSlot, Publish,
         WaitSucceeds, FreeSlot, Withdraw, LeaveLock
    <3>2. QED  BY <1>1, <3>1 DEF AnswerIsOwn
  <2>4. QED  BY <2>1, <2>2, <2>3
<1>6. QED  BY <1>2, <1>3, <1>4, <1>5

-----------------------------------------------------------------------------
(* The drains.                                                             *)

\* Recording a request that is newer than every recorded one.
LEMMA RecordNewer ==
  ASSUME Types, InOrderAndOnce, executed' = Append(executed, queuedEnable),
         \A i \in DOMAIN executed : executed[i] < queuedEnable
  PROVE  /\ executed' \in Seq(Nat)
         /\ Executed' = Executed \cup {queuedEnable}
         /\ InOrderAndOnce'
         /\ \A i \in DOMAIN executed' : executed'[i] <= queuedEnable
<1> USE DEF Types
<1>1. executed' \in Seq(Nat)  OBVIOUS
<1>2. /\ DOMAIN executed = 1..Len(executed)
      /\ DOMAIN executed' = 1..(Len(executed) + 1)
      /\ Len(executed) \in Nat
  OBVIOUS
<1>3. /\ \A i \in DOMAIN executed : executed'[i] = executed[i] /\ executed[i] \in Nat
      /\ executed'[Len(executed) + 1] = queuedEnable
  OBVIOUS
<1>4. \A i \in DOMAIN executed' : i \in DOMAIN executed \/ i = Len(executed) + 1
  BY <1>2
<1>5. Executed' = Executed \cup {queuedEnable}
  <2>1. ASSUME NEW x \in Executed' PROVE x \in Executed \cup {queuedEnable}
    <3>1. PICK i \in DOMAIN executed' : x = executed'[i]  BY DEF Executed
    <3>2. QED  BY <1>3, <1>4, <3>1 DEF Executed
  <2>2. Executed \subseteq Executed'
    <3>1. DOMAIN executed \subseteq DOMAIN executed'  BY <1>2
    <3>2. QED  BY <1>3, <3>1 DEF Executed
  <2>3. queuedEnable \in Executed'
    <3>1. Len(executed) + 1 \in DOMAIN executed'  BY <1>2
    <3>2. QED  BY <1>3, <3>1 DEF Executed
  <2>4. QED  BY <2>1, <2>2, <2>3
<1>6. InOrderAndOnce'
  <2> SUFFICES ASSUME NEW i \in DOMAIN executed', NEW j \in DOMAIN executed', i < j
               PROVE  executed'[i] < executed'[j]
    BY DEF InOrderAndOnce
  <2>1. i \in DOMAIN executed  BY <1>2, <1>4
  <2>2. CASE j \in DOMAIN executed  BY <1>3, <2>1, <2>2 DEF InOrderAndOnce
  <2>3. CASE j = Len(executed) + 1  BY <1>3, <2>1, <2>3
  <2>4. QED  BY <1>4, <2>2, <2>3
<1>7. \A i \in DOMAIN executed' : executed'[i] <= queuedEnable
  BY <1>3, <1>4
<1>8. QED  BY <1>1, <1>5, <1>6, <1>7

LEMMA DrainTypes ==
  ASSUME Types, NEW d \in Drainers, DrainStep(d)
  PROVE  Types'
<1> USE DEF Types
<1> DEFINE Moves == drainer' \in [Drainers -> [at : DrainerPlaces, for : Nat]]
<1>1. CASE EnterFrame(d)
  <2>1. Moves  BY <1>1 DEF EnterFrame
  <2>2. QED  BY <1>1, <2>1 DEF EnterFrame
<1>2. CASE ClaimCommand(d)
  <2>1. Moves  BY <1>2 DEF ClaimCommand
  <2>2. QED  BY <1>2, <2>1 DEF ClaimCommand
<1>3. CASE NothingPending(d)
  <2>1. Moves  BY <1>3 DEF NothingPending
  <2>2. QED  BY <1>3, <2>1 DEF NothingPending
<1>4. CASE Execute(d)
  <2>1. Moves  BY <1>4 DEF Execute
  <2>2. executed' \in Seq(Nat)  BY <1>4 DEF Execute
  <2>3. QED  BY <1>4, <2>1, <2>2 DEF Execute
<1>5. CASE StoreStatus(d)
  <2>1. Moves /\ drainer[d].for \in Nat  BY <1>5 DEF StoreStatus
  <2>2. QED  BY <1>5, <2>1 DEF StoreStatus
<1>6. CASE MarkDone(d)
  <2>1. Moves  BY <1>6 DEF MarkDone
  <2>2. QED  BY <1>6, <2>1 DEF MarkDone, Done
<1>7. CASE SignalDone(d)
  <2>1. Moves  BY <1>7 DEF SignalDone
  <2>2. QED  BY <1>7, <2>1 DEF SignalDone
<1>8. QED
  BY <1>1, <1>2, <1>3, <1>4, <1>5, <1>6, <1>7 DEF DrainStep

LEMMA DrainPreserves ==
  ASSUME QueueInv, NEW d \in Drainers, DrainStep(d)
  PROVE  QueueInv'
<1> USE DEF QueueInv
<1>1. Types'  BY DrainTypes
<1>2. UNCHANGED <<lockHolder, client, asked, answers, queuedEnable>>
  BY DEF DrainStep, EnterFrame, ClaimCommand, NothingPending, Execute,
     StoreStatus, MarkDone, SignalDone
<1>3. OneHolder' /\ HolderIsNewest'
  BY <1>2 DEF OneHolder, HolderIsNewest
<1>a. drainer \in [Drainers -> [at : DrainerPlaces, for : Nat]]  BY DEF Types
<1>4. CASE Execute(d)
  <2> USE DEF Execute
  <2>1. /\ drainer[d].at = "claimed"
        /\ executed' = Append(executed, queuedEnable)
        /\ drainer' = [drainer EXCEPT ![d] = [at |-> "inside", for |-> queuedEnable]]
        /\ UNCHANGED <<queueState, queuedStatus, queueDone>>
    BY <1>4
  <2>2. queueState = "running" /\ \A i \in DOMAIN executed : executed[i] < queuedEnable
    BY <2>1 DEF SlotOfDrain
  <2>3. /\ Executed' = Executed \cup {queuedEnable}
        /\ InOrderAndOnce'
        /\ \A i \in DOMAIN executed' : executed'[i] <= queuedEnable
    BY <2>1, <2>2, RecordNewer
  <2>4. \A e \in Drainers : e # d => drainer'[e] = drainer[e] /\ ~Draining(e)
    BY <2>1, <1>a DEF OneDrain
  <2>5. drainer'[d] = [at |-> "inside", for |-> queuedEnable]  BY <2>1, <1>a
  <2>6. NoneFromTheFuture'
    <3>1. queuedEnable \in Nat /\ asked \in Nat /\ queuedEnable <= asked
      BY DEF Types, NoneFromTheFuture
    <3>2. \A i \in DOMAIN executed' : executed'[i] \in Nat  BY <1>1 DEF Types
    <3>3. QED  BY <1>2, <2>3, <3>1, <3>2 DEF NoneFromTheFuture
  <2>7. AnswerIsOwn'  BY <1>2, <2>3 DEF AnswerIsOwn
  <2>8. DoneHolds' /\ PendingIsNewer'
    BY <2>1, <2>2 DEF DoneHolds, PendingIsNewer
  <2>9. SlotOfDrain' /\ OneDrain'
    BY <1>2, <2>1, <2>2, <2>3, <2>4, <2>5 DEF SlotOfDrain, OneDrain
  <2>10. SlotOfClient'
    <3> SUFFICES ASSUME NEW c \in Clients
                 PROVE  SlotOfClient!(c)'
      BY DEF SlotOfClient
    <3>1. client[c].at \notin {"fill", "publish", "read", "free"}
      BY <2>2 DEF SlotOfClient
    <3>2. ~(client[c].at = "wait" /\ queueDone)  BY <2>2 DEF SlotOfClient
    <3>3. client[c].at = "take" =>
            queuedEnable < asked /\ \A i \in DOMAIN executed' : executed'[i] < asked
      <4>1. queuedEnable \in Nat /\ asked \in Nat
            /\ \A i \in DOMAIN executed' : executed'[i] \in Nat
        BY <1>1 DEF Types
      <4>2. QED  BY <2>3, <4>1 DEF SlotOfClient
    <3>4. client[c].at = "wait" => queuedEnable = asked  BY DEF SlotOfClient
    <3>5. QED  BY <1>2, <2>1, <3>1, <3>2, <3>3, <3>4
  <2>11. QED  BY <1>1, <1>3, <2>3, <2>6, <2>7, <2>8, <2>9, <2>10
<1>5. CASE ~Execute(d)
  <2>0. executed' = executed /\ Executed' = Executed
    BY <1>5 DEF DrainStep, EnterFrame, ClaimCommand, NothingPending, StoreStatus,
       MarkDone, SignalDone, Executed
  <2>1. InOrderAndOnce' /\ AnswerIsOwn' /\ NoneFromTheFuture'
    BY <1>2, <2>0 DEF InOrderAndOnce, AnswerIsOwn, NoneFromTheFuture
  <2> DEFINE Slots == /\ SlotOfClient /\ SlotOfDrain /\ OneDrain /\ DoneHolds
                      /\ PendingIsNewer
  <2> SUFFICES Slots'  BY <1>1, <1>3, <2>1
  <2> USE <1>2, <2>0, <1>a
      DEF SlotOfClient, SlotOfDrain, OneDrain, DoneHolds, PendingIsNewer
  <2>2. CASE EnterFrame(d)
    <3>1. /\ UNCHANGED <<queueState, queuedStatus, queueDone>>
          /\ drainer[d].at = "out" /\ drainer'[d].at = "look"
          /\ \A e \in Drainers : e # d => drainer'[e] = drainer[e]
      BY <2>2 DEF EnterFrame
    <3>2. Slots'  BY <3>1
    <3>3. QED  BY <3>2
  <2>3. CASE NothingPending(d)
    <3>1. /\ UNCHANGED <<queueState, queuedStatus, queueDone>>
          /\ drainer[d].at = "look" /\ drainer'[d].at = "out"
          /\ \A e \in Drainers : e # d => drainer'[e] = drainer[e]
      BY <2>3 DEF NothingPending
    <3>2. Slots'  BY <3>1
    <3>3. QED  BY <3>2
  <2>4. CASE ClaimCommand(d)
    <3>1. /\ UNCHANGED <<queuedStatus, queueDone>>
          /\ queueState = "pending" /\ queueState' = "running"
          /\ drainer'[d].at = "claimed"
          /\ \A e \in Drainers : e # d => drainer'[e] = drainer[e]
      BY <2>4 DEF ClaimCommand, IsPending
    <3>2. \A e \in Drainers : ~Draining(e)  BY <3>1
    <3>3. SlotOfClient'  BY <3>1
    <3>4. SlotOfDrain' /\ OneDrain'  BY <3>1, <3>2
    <3>5. DoneHolds' /\ PendingIsNewer'  BY <3>1
    <3>6. QED  BY <3>3, <3>4, <3>5
  <2>5. CASE StoreStatus(d)
    <3>1. /\ UNCHANGED <<queueState, queueDone>>
          /\ drainer[d].at = "inside" /\ drainer'[d].at = "mark"
          /\ queuedStatus' = drainer[d].for /\ drainer'[d].for = drainer[d].for
          /\ \A e \in Drainers : e # d => drainer'[e] = drainer[e]
      BY <2>5 DEF StoreStatus
    <3>2. \A e \in Drainers : e # d => ~Draining(e)  BY <3>1
    <3>3. SlotOfClient'  BY <3>1
    <3>4. SlotOfDrain' /\ OneDrain'  BY <3>1, <3>2
    <3>5. DoneHolds' /\ PendingIsNewer'  BY <3>1
    <3>6. QED  BY <3>3, <3>4, <3>5
  <2>6. CASE MarkDone(d)
    <3>1. /\ UNCHANGED <<queuedStatus, queueDone>>
          /\ drainer[d].at = "mark" /\ drainer'[d].at = "signal"
          /\ queueState' = "done"
          /\ \A e \in Drainers : e # d => drainer'[e] = drainer[e]
      BY <2>6 DEF MarkDone, Done
    <3>2. \A e \in Drainers : e # d => ~Draining(e)  BY <3>1
    <3>3. SlotOfClient'  BY <3>1
    <3>4. SlotOfDrain' /\ OneDrain'  BY <3>1, <3>2
    <3>5. DoneHolds' /\ PendingIsNewer'  BY <3>1
    <3>6. QED  BY <3>3, <3>4, <3>5
  <2>7. CASE SignalDone(d)
    <3>1. /\ UNCHANGED <<queueState, queuedStatus>>
          /\ drainer[d].at = "signal" /\ drainer'[d].at = "out"
          /\ queueState = "done"
          /\ \A e \in Drainers : e # d => drainer'[e] = drainer[e]
      BY <2>7 DEF SignalDone
    <3>2. \A e \in Drainers : e # d => ~Draining(e)  BY <3>1
    <3>3. Quiet'  BY <3>1, <3>2
    <3>4. SlotOfClient'  BY <3>1, <3>3
    <3>5. SlotOfDrain' /\ OneDrain'  BY <3>1, <3>2
    <3>6. DoneHolds' /\ PendingIsNewer'  BY <3>1
    <3>7. QED  BY <3>4, <3>5, <3>6
  <2>8. QED  BY <1>5, <2>2, <2>3, <2>4, <2>5, <2>6, <2>7 DEF DrainStep
<1>6. QED  BY <1>1, <1>3, <1>4, <1>5

-----------------------------------------------------------------------------
(* Types, whether or not a caller overtakes a drain.                       *)

Numbers == Requests \cup {None}

SlotTypes ==
  /\ queueState \in QueueStates
  /\ queuedEnable \in Numbers
  /\ queuedStatus \in Numbers
  /\ executed \in Seq(Requests)
  /\ answers \in [Requests -> Answers]

TableTypes ==
  /\ client \in [Clients -> [at : ClientPlaces, for : Numbers]]
  /\ drainer \in [Drainers -> [at : DrainerPlaces, for : Numbers]]

FlagTypes == hookInstalled \in BOOLEAN /\ running \in BOOLEAN /\ queueDone \in BOOLEAN

LockType == lockHolder \in {{}} \cup {{c} : c \in Clients}

\* A request has its number before it reaches the slot, and from then on the
\* slot holds the number of a request.
Numbered ==
  /\ \A c \in Clients : Inside(c) => client[c].for \in Requests
  /\ \A c \in Clients : client[c].at = "publish" => queuedEnable \in Requests
  /\ queueState = "pending" => queuedEnable \in Requests
  /\ \A d \in Drainers : drainer[d].at = "claimed" => queuedEnable \in Requests

\* There are numbers left for the callers that wait for the lock.
Room ==
  /\ asked \in Nat
  /\ IsFiniteSet(Waiting)
  /\ asked + Cardinality(Waiting) <= MaxRequests

TypeInv ==
  SlotTypes /\ TableTypes /\ FlagTypes /\ LockType /\ Numbered /\ Room

LEMMA TypeInvInit == Init => TypeInv
<1> SUFFICES ASSUME Init PROVE TypeInv
  OBVIOUS
<1> USE DEF Init
<1>1. SlotTypes  BY DEF SlotTypes, Numbers, NoAnswer, Answers
<1>2. TableTypes /\ FlagTypes /\ LockType
  BY DEF TableTypes, FlagTypes, LockType, Numbers
<1>3. Numbered  BY DEF Numbered
<1>4. Waiting = {}  BY DEF Waiting
<1>5. Room  BY <1>4, FS_EmptySet DEF Room
<1>6. QED  BY <1>1, <1>2, <1>3, <1>5 DEF TypeInv

LEMMA RoomForClients ==
  ASSUME TypeInv, NEW c \in Clients, Call(c) \/ InCall(c)
  PROVE  Room'
<1> USE DEF TypeInv, TableTypes, Room
<1>1. Cardinality(Waiting) \in Nat  BY FS_CardinalityType
<1>2. CASE Call(c)
  <2>1. Waiting' = Waiting \cup {c} /\ c \notin Waiting
    BY <1>2 DEF Call, Waiting
  <2>2. Cardinality(Waiting') = Cardinality(Waiting) + 1 /\ IsFiniteSet(Waiting')
    BY <2>1, FS_AddElement
  <2>3. asked' = asked /\ asked + Cardinality(Waiting) < MaxRequests
    BY <1>2 DEF Call
  <2>4. QED  BY <1>1, <2>2, <2>3
<1>3. CASE EnterLock(c)
  <2>1. Waiting' = Waiting \ {c} /\ c \in Waiting
    BY <1>3 DEF EnterLock, Waiting
  <2>2. Cardinality(Waiting') = Cardinality(Waiting) - 1 /\ IsFiniteSet(Waiting')
    BY <2>1, FS_RemoveElement
  <2>3. asked' = asked + 1  BY <1>3 DEF EnterLock
  <2>4. QED  BY <1>1, <2>2, <2>3
<1>4. CASE InCall(c) /\ ~EnterLock(c)
  <2>1. /\ client[c].at # "lock" /\ client'[c].at # "lock"
        /\ \A e \in Clients : e # c => client'[e] = client[e]
        /\ asked' = asked
    <3>1. CASE LeaveLock(c)  BY <3>1 DEF LeaveLock
    <3>2. CASE TakeSlot(c) \/ FindBusy(c) \/ FillSlot(c) \/ Publish(c)
      BY <3>2 DEF TakeSlot, FindBusy, FillSlot, Publish
    <3>3. CASE WaitSucceeds(c) \/ WaitTimesOut(c) \/ ReadStatus(c)
      BY <3>3 DEF WaitSucceeds, WaitTimesOut, ReadStatus
    <3>4. CASE FreeSlot(c) \/ Withdraw(c)
      BY <3>4 DEF FreeSlot, Withdraw
    <3>5. QED  BY <1>4, <3>1, <3>2, <3>3, <3>4 DEF InCall
  <2>2. Waiting' = Waiting  BY <2>1 DEF Waiting
  <2>3. QED  BY <2>1, <2>2
<1>5. QED  BY <1>2, <1>3, <1>4

\* A caller's number is among the requests, since there was room for it.
LEMMA NumberTaken ==
  ASSUME TypeInv, NEW c \in Clients, EnterLock(c)
  PROVE  asked' \in Requests
<1>1. asked' = asked + 1 /\ asked' \in Nat /\ asked \in Nat
  BY DEF EnterLock, TypeInv, Room
<1>2. IsFiniteSet(Waiting') /\ asked' + Cardinality(Waiting') <= MaxRequests
  BY RoomForClients DEF InCall, Room
<1>3. Cardinality(Waiting') \in Nat  BY <1>2, FS_CardinalityType
<1>4. QED  BY <1>1, <1>2, <1>3 DEF Requests

LEMMA TypeInvClient ==
  ASSUME TypeInv, NEW c \in Clients, Call(c) \/ InCall(c)
  PROVE  TypeInv'
<1>1. Room'  BY RoomForClients
<1> DEFINE Moves == client' \in [Clients -> [at : ClientPlaces, for : Numbers]]
           Tells == answers' \in [Requests -> Answers]
<1>2. /\ executed' = executed /\ drainer' = drainer
      /\ hookInstalled' = hookInstalled /\ running' = running
  BY DEF Call, InCall, EnterLock, TakeSlot, FindBusy, FillSlot, Publish,
     WaitSucceeds, WaitTimesOut, ReadStatus, FreeSlot, Withdraw, LeaveLock
<1>3. ASSUME NEW r, NEW w \in {"outcome", "Busy", "HookStalled"},
             NEW n \in Numbers, Tell(r, w, n)
      PROVE  Tells
  BY <1>3 DEF TypeInv, SlotTypes, Answers, Numbers
<1>4. None \in Numbers /\ client[c].for \in Numbers /\ queuedStatus \in Numbers
  BY DEF TypeInv, TableTypes, SlotTypes, Numbers
<1> DEFINE Goal == SlotTypes' /\ TableTypes' /\ FlagTypes' /\ LockType' /\ Numbered'
<1> USE DEF TypeInv, SlotTypes, TableTypes, FlagTypes, LockType, Numbered
<1>5. CASE Call(c)
  <2>1. Moves  BY <1>5 DEF Call
  <2>3. Tells  BY <1>5 DEF Call
  <2>4. SlotTypes'  BY <1>2, <1>4, <1>5, <2>3 DEF Call
  <2>5. FlagTypes' /\ LockType'  BY <1>2, <1>5 DEF Call
  <2>6. Numbered'  BY <1>2, <1>5 DEF Call
  <2>7. QED  BY <1>1, <1>2, <2>1, <2>4, <2>5, <2>6
<1>6. CASE EnterLock(c)
  <2>1. Moves  BY <1>6, NumberTaken DEF EnterLock, Numbers
  <2>3. Tells  BY <1>6 DEF EnterLock
  <2>4. SlotTypes'  BY <1>2, <1>4, <1>6, <2>3 DEF EnterLock, LockFree
  <2>5. FlagTypes' /\ LockType'  BY <1>2, <1>6 DEF EnterLock, LockFree
  <2>6. Numbered'  BY <1>2, <1>6, NumberTaken DEF EnterLock, LockFree
  <2>7. QED  BY <1>1, <1>2, <2>1, <2>4, <2>5, <2>6
<1>7. CASE TakeSlot(c)
  <2>1. Moves  BY <1>7 DEF TakeSlot
  <2>3. Tells  BY <1>7 DEF TakeSlot
  <2>4. SlotTypes'  BY <1>2, <1>4, <1>7, <2>3 DEF TakeSlot
  <2>5. FlagTypes' /\ LockType'  BY <1>2, <1>7 DEF TakeSlot
  <2>6. Numbered'  BY <1>2, <1>7 DEF TakeSlot
  <2>7. QED  BY <1>1, <1>2, <2>1, <2>4, <2>5, <2>6
<1>8. CASE FindBusy(c)
  <2>1. Moves  BY <1>8 DEF FindBusy
  <2>2. Tell(client[c].for, "Busy", None)  BY <1>8 DEF FindBusy
  <2>3. Tells  BY <1>3, <1>4, <2>2
  <2>4. SlotTypes'  BY <1>2, <1>4, <1>8, <2>3 DEF FindBusy
  <2>5. FlagTypes' /\ LockType'  BY <1>2, <1>8 DEF FindBusy
  <2>6. Numbered'  BY <1>2, <1>8 DEF FindBusy
  <2>7. QED  BY <1>1, <1>2, <2>1, <2>4, <2>5, <2>6
<1>9. CASE FillSlot(c)
  <2>1. Moves  BY <1>9 DEF FillSlot
  <2>3. Tells  BY <1>9 DEF FillSlot
  <2>4. SlotTypes'  BY <1>2, <1>4, <1>9, <2>3 DEF FillSlot
  <2>5. FlagTypes' /\ LockType'  BY <1>2, <1>9 DEF FillSlot
  <2>6. Numbered'  BY <1>2, <1>9 DEF FillSlot
  <2>7. QED  BY <1>1, <1>2, <2>1, <2>4, <2>5, <2>6
<1>10. CASE Publish(c)
  <2>1. Moves  BY <1>10 DEF Publish
  <2>3. Tells  BY <1>10 DEF Publish
  <2>4. SlotTypes'  BY <1>2, <1>4, <1>10, <2>3 DEF Publish
  <2>5. FlagTypes' /\ LockType'  BY <1>2, <1>10 DEF Publish
  <2>6. Numbered'  BY <1>2, <1>10 DEF Publish
  <2>7. QED  BY <1>1, <1>2, <2>1, <2>4, <2>5, <2>6
<1>11. CASE WaitSucceeds(c)
  <2>1. Moves  BY <1>11 DEF WaitSucceeds
  <2>3. Tells  BY <1>11 DEF WaitSucceeds
  <2>4. SlotTypes'  BY <1>2, <1>4, <1>11, <2>3 DEF WaitSucceeds
  <2>5. FlagTypes' /\ LockType'  BY <1>2, <1>11 DEF WaitSucceeds
  <2>6. Numbered'  BY <1>2, <1>11 DEF WaitSucceeds
  <2>7. QED  BY <1>1, <1>2, <2>1, <2>4, <2>5, <2>6
<1>12. CASE WaitTimesOut(c)
  <2>1. Moves  BY <1>12 DEF WaitTimesOut
  <2>2. Tell(client[c].for, "HookStalled", None)  BY <1>12 DEF WaitTimesOut
  <2>3. Tells  BY <1>3, <1>4, <2>2
  <2>4. SlotTypes'  BY <1>2, <1>4, <1>12, <2>3 DEF WaitTimesOut
  <2>5. FlagTypes' /\ LockType'  BY <1>2, <1>12 DEF WaitTimesOut
  <2>6. Numbered'  BY <1>2, <1>12 DEF WaitTimesOut
  <2>7. QED  BY <1>1, <1>2, <2>1, <2>4, <2>5, <2>6
<1>13. CASE ReadStatus(c)
  <2>1. Moves  BY <1>13 DEF ReadStatus
  <2>2. Tell(client[c].for, "outcome", queuedStatus)  BY <1>13 DEF ReadStatus
  <2>3. Tells  BY <1>3, <1>4, <2>2
  <2>4. SlotTypes'  BY <1>2, <1>4, <1>13, <2>3 DEF ReadStatus
  <2>5. FlagTypes' /\ LockType'  BY <1>2, <1>13 DEF ReadStatus
  <2>6. Numbered'  BY <1>2, <1>13 DEF ReadStatus
  <2>7. QED  BY <1>1, <1>2, <2>1, <2>4, <2>5, <2>6
<1>14. CASE FreeSlot(c)
  <2>1. Moves  BY <1>14 DEF FreeSlot
  <2>3. Tells  BY <1>14 DEF FreeSlot
  <2>4. SlotTypes'  BY <1>2, <1>4, <1>14, <2>3 DEF FreeSlot
  <2>5. FlagTypes' /\ LockType'  BY <1>2, <1>14 DEF FreeSlot
  <2>6. Numbered'  BY <1>2, <1>14 DEF FreeSlot
  <2>7. QED  BY <1>1, <1>2, <2>1, <2>4, <2>5, <2>6
<1>15. CASE Withdraw(c)
  <2>1. Moves  BY <1>15 DEF Withdraw
  <2>3. Tells  BY <1>15 DEF Withdraw
  <2>4. SlotTypes'  BY <1>2, <1>4, <1>15, <2>3 DEF Withdraw, AfterWithdrawal
  <2>5. FlagTypes' /\ LockType'  BY <1>2, <1>15 DEF Withdraw, AfterWithdrawal
  <2>6. Numbered'  BY <1>2, <1>15 DEF Withdraw, AfterWithdrawal
  <2>7. QED  BY <1>1, <1>2, <2>1, <2>4, <2>5, <2>6
<1>16. CASE LeaveLock(c)
  <2>1. Moves  BY <1>16 DEF LeaveLock, Numbers
  <2>3. Tells  BY <1>16 DEF LeaveLock
  <2>4. SlotTypes'  BY <1>2, <1>4, <1>16, <2>3 DEF LeaveLock
  <2>5. FlagTypes' /\ LockType'  BY <1>2, <1>16 DEF LeaveLock
  <2>6. Numbered'  BY <1>2, <1>16 DEF LeaveLock
  <2>7. QED  BY <1>1, <1>2, <2>1, <2>4, <2>5, <2>6
<1>17. QED
  BY <1>1, <1>5, <1>6, <1>7, <1>8, <1>9, <1>10, <1>11, <1>12, <1>13, <1>14,
     <1>15, <1>16 DEF InCall

LEMMA TypeInvDrain ==
  ASSUME TypeInv, NEW d \in Drainers, DrainStep(d)
  PROVE  TypeInv'
<1>1. UNCHANGED <<hookInstalled, running, lockHolder, client, asked, answers,
                  queuedEnable>>
  BY DEF DrainStep, EnterFrame, ClaimCommand, NothingPending, Execute,
     StoreStatus, MarkDone, SignalDone
<1>2. Room' /\ LockType'
  BY <1>1 DEF TypeInv, Room, LockType, Waiting
<1> DEFINE Moves == drainer' \in [Drainers -> [at : DrainerPlaces, for : Numbers]]
           Goal == SlotTypes' /\ TableTypes' /\ FlagTypes' /\ Numbered'
<1> USE DEF TypeInv, SlotTypes, TableTypes, FlagTypes, Numbered
<1>3. CASE EnterFrame(d)
  <2>1. Moves  BY <1>3 DEF EnterFrame
  <2>3. SlotTypes'  BY <1>1, <1>3 DEF EnterFrame
  <2>4. FlagTypes'  BY <1>1, <1>3 DEF EnterFrame
  <2>5. Numbered'  BY <1>1, <1>3 DEF EnterFrame
  <2>6. QED  BY <1>1, <1>2, <2>1, <2>3, <2>4, <2>5
<1>4. CASE ClaimCommand(d)
  <2>1. Moves  BY <1>4 DEF ClaimCommand
  <2>3. SlotTypes'  BY <1>1, <1>4 DEF ClaimCommand, IsPending
  <2>4. FlagTypes'  BY <1>1, <1>4 DEF ClaimCommand, IsPending
  <2>5. Numbered'  BY <1>1, <1>4 DEF ClaimCommand, IsPending
  <2>6. QED  BY <1>1, <1>2, <2>1, <2>3, <2>4, <2>5
<1>5. CASE NothingPending(d)
  <2>1. Moves  BY <1>5 DEF NothingPending
  <2>3. SlotTypes'  BY <1>1, <1>5 DEF NothingPending
  <2>4. FlagTypes'  BY <1>1, <1>5 DEF NothingPending
  <2>5. Numbered'  BY <1>1, <1>5 DEF NothingPending
  <2>6. QED  BY <1>1, <1>2, <2>1, <2>3, <2>4, <2>5
<1>6. CASE Execute(d)
  <2>1. Moves  BY <1>6 DEF Execute
  <2>2. queuedEnable \in Requests  BY <1>6 DEF Execute
  <2>3. SlotTypes'  BY <1>1, <1>6, <2>2 DEF Execute
  <2>4. FlagTypes'  BY <1>1, <1>6 DEF Execute
  <2>5. Numbered'  BY <1>1, <1>6 DEF Execute
  <2>6. QED  BY <1>1, <1>2, <2>1, <2>3, <2>4, <2>5
<1>7. CASE StoreStatus(d)
  <2>1. Moves  BY <1>7 DEF StoreStatus
  <2>2. drainer[d].for \in Numbers  OBVIOUS
  <2>3. SlotTypes'  BY <1>1, <1>7, <2>2 DEF StoreStatus
  <2>4. FlagTypes'  BY <1>1, <1>7 DEF StoreStatus
  <2>5. Numbered'  BY <1>1, <1>7 DEF StoreStatus
  <2>6. QED  BY <1>1, <1>2, <2>1, <2>3, <2>4, <2>5
<1>8. CASE MarkDone(d)
  <2>1. Moves  BY <1>8 DEF MarkDone
  <2>3. SlotTypes'  BY <1>1, <1>8 DEF MarkDone, Done
  <2>4. FlagTypes'  BY <1>1, <1>8 DEF MarkDone, Done
  <2>5. Numbered'  BY <1>1, <1>8 DEF MarkDone, Done
  <2>6. QED  BY <1>1, <1>2, <2>1, <2>3, <2>4, <2>5
<1>9. CASE SignalDone(d)
  <2>1. Moves  BY <1>9 DEF SignalDone, Numbers
  <2>3. SlotTypes'  BY <1>1, <1>9 DEF SignalDone
  <2>4. FlagTypes'  BY <1>1, <1>9 DEF SignalDone
  <2>5. Numbered'  BY <1>1, <1>9 DEF SignalDone
  <2>6. QED  BY <1>1, <1>2, <2>1, <2>3, <2>4, <2>5
<1>10. QED
  BY <1>1, <1>2, <1>3, <1>4, <1>5, <1>6, <1>7, <1>8, <1>9 DEF DrainStep

LEMMA TypeInvNext ==
  ASSUME TypeInv, [Next]_vars
  PROVE  TypeInv'
<1>1. CASE \E c \in Clients : Call(c) \/ InCall(c)  BY <1>1, TypeInvClient
<1>2. CASE \E d \in Drainers : DrainStep(d)  BY <1>2, TypeInvDrain
<1>3. CASE Hook \/ UNCHANGED vars
  <2>1. UNCHANGED <<queueState, queuedEnable, queuedStatus, queueDone, lockHolder,
                    client, drainer, asked, executed, answers>>
    BY <1>3 DEF Hook, HookComesIn, StartDraining, StopDraining, HookGoes, vars
  <2>2. FlagTypes'
    BY <1>3 DEF TypeInv, FlagTypes, Hook, HookComesIn, StartDraining,
       StopDraining, HookGoes, vars
  <2>3. QED
    BY <2>1, <2>2 DEF TypeInv, SlotTypes, TableTypes, LockType, Numbered, Room,
       Waiting
<1>4. QED  BY <1>1, <1>2, <1>3 DEF Next

\* The slot, the event, the lock and every answer keep their types, one caller
\* at most is in the critical section, and every request SetToolsMenu is called
\* for is one that came through it, even if a caller overtakes a drain.
THEOREM TypeCorrect == Spec => []TypeOK
<1>1. TypeInv => TypeOK
  <2> SUFFICES ASSUME TypeInv PROVE TypeOK
    OBVIOUS
  <2>1. asked \in 0..MaxRequests
    BY FS_CardinalityType DEF TypeInv, Room
  <2>2. {hookInstalled, running, queueDone} \subseteq BOOLEAN
    BY DEF TypeInv, FlagTypes
  <2>3. QED
    BY <2>1, <2>2
       DEF TypeInv, TypeOK, SlotTypes, TableTypes, LockType, Numbers
<1>2. QED  BY <1>1, TypeInvNext, TypeInvInit, PTL DEF Spec

-----------------------------------------------------------------------------
(* The theorems.                                                           *)

LEMMA QueueInvNext ==
  ASSUME ~OvertakesDrain
  PROVE  QueueInv /\ [Next]_vars => QueueInv'
<1> SUFFICES ASSUME QueueInv, [Next]_vars PROVE QueueInv'
  OBVIOUS
<1>1. CASE \E c \in Clients : Call(c) \/ InCall(c)
  BY <1>1, ClientStep
<1>2. CASE \E d \in Drainers : DrainStep(d)
  BY <1>2, DrainPreserves
<1>3. CASE Hook \/ UNCHANGED vars
  <2>1. /\ UNCHANGED <<queueState, queuedEnable, queuedStatus, queueDone>>
        /\ UNCHANGED <<lockHolder, client, drainer, asked, executed, answers>>
    BY <1>3 DEF Hook, HookComesIn, StartDraining, StopDraining, HookGoes, vars
  <2>2. Executed' = Executed  BY <2>1 DEF Executed
  <2>3. Types' /\ OneHolder' /\ HolderIsNewest'
    BY <2>1 DEF QueueInv, Types, OneHolder, HolderIsNewest
  <2>4. SlotOfClient' /\ SlotOfDrain' /\ OneDrain'
    BY <2>1, <2>2 DEF QueueInv, SlotOfClient, SlotOfDrain, OneDrain
  <2>5. DoneHolds' /\ PendingIsNewer' /\ NoneFromTheFuture'
    BY <2>1, <2>2 DEF QueueInv, DoneHolds, PendingIsNewer, NoneFromTheFuture
  <2>6. InOrderAndOnce' /\ AnswerIsOwn'
    BY <2>1, <2>2 DEF QueueInv, InOrderAndOnce, AnswerIsOwn
  <2>7. QED  BY <2>3, <2>4, <2>5, <2>6 DEF QueueInv
<1>4. QED  BY <1>1, <1>2, <1>3 DEF Next

LEMMA QueueInvHolds ==
  ASSUME ~OvertakesDrain
  PROVE  Spec => []QueueInv
<1>1. Init => QueueInv  BY QueueInvInit
<1>2. QueueInv /\ [Next]_vars => QueueInv'  BY QueueInvNext
<1>3. QED  BY <1>1, <1>2, PTL DEF Spec

\* A caller that is told an outcome is told that of its own command, and the
\* command has run, however many callers wait on the lock and time out: the
\* slot, the event and the state word of RequestSetMenu are shared by all.
THEOREM AnswersAreOwn ==
  ASSUME ~OvertakesDrain
  PROVE  Spec => []AnswerIsOwn
<1>1. QueueInv => AnswerIsOwn  BY DEF QueueInv
<1>2. QED  BY <1>1, QueueInvHolds, PTL

\* DrainQueuedCommand runs a command at most once and never after a newer one,
\* whatever threads of the game enter OnFrame at the same time.
THEOREM OrderedOnce ==
  ASSUME ~OvertakesDrain
  PROVE  Spec => []InOrderAndOnce
<1>1. QueueInv => InOrderAndOnce  BY DEF QueueInv
<1>2. QED  BY <1>1, QueueInvHolds, PTL

\* While SetToolsMenu runs and until its outcome is recorded, the slot still
\* holds the command the drain claimed: no caller replaces it.
THEOREM SlotIsKept ==
  ASSUME ~OvertakesDrain
  PROVE  Spec => []DrainKeepsItsCommand
<1>1. QueueInv => DrainKeepsItsCommand
  BY DEF QueueInv, SlotOfDrain, DrainKeepsItsCommand
<1>2. QED  BY <1>1, QueueInvHolds, PTL
-----------------------------------------------------------------------------
(* What holds even if a caller overtakes a drain: the lock, and the fate   *)
(* of a command that was given up on.                                      *)

\* The critical section is held by whoever is inside it, and by nobody else.
HeldInside == lockHolder = {c \in Clients : Inside(c)}

\* The slot belongs to the caller that filled it for as long as it is there.
AtSlot(c) == client[c].at \in {"wait", "read", "free", "withdraw"}
OwnInSlot ==
  \A c \in Clients :
    client[c].at = "publish" \/ AtSlot(c) => queuedEnable = client[c].for

\* A command nobody has claimed yet still has its caller.
PendingHasCaller == queueState = "pending" => \E c \in Clients : AtSlot(c)

CallerParts == HeldInside /\ OwnInSlot /\ PendingHasCaller
CallerInv == TypeInv /\ CallerParts

LEMMA CallerInvInit == Init => CallerInv
  BY TypeInvInit DEF Init, CallerInv, CallerParts, HeldInside, OwnInSlot,
     PendingHasCaller, AtSlot

\* Two callers are never inside together.
LEMMA AloneInside ==
  ASSUME CallerInv, NEW c \in Clients, NEW e \in Clients, Inside(c), Inside(e)
  PROVE  c = e
<1>1. c \in lockHolder /\ e \in lockHolder
  BY DEF CallerInv, CallerParts, HeldInside
<1>2. QED  BY <1>1 DEF CallerInv, TypeInv, LockType

\* The places of a call, in the order the call comes through them.
Place(c) ==
  CASE client[c].at = "lock"     -> 8
    [] client[c].at = "take"     -> 7
    [] client[c].at = "fill"     -> 6
    [] client[c].at = "publish"  -> 5
    [] client[c].at = "wait"     -> 4
    [] client[c].at = "read"     -> 3
    [] client[c].at = "free"     -> 2
    [] client[c].at = "withdraw" -> 2
    [] client[c].at = "unlock"   -> 1
    [] client[c].at = "out"      -> 0

\* A step of one caller, place by place, and what it leaves to the others.
LEMMA CallerMoves ==
  ASSUME TypeInv, NEW c \in Clients, InCall(c)
  PROVE  /\ \A e \in Clients : e # c => client'[e] = client[e]
         /\ Place(c)' < Place(c)
         /\ client[c].at # "lock" => Inside(c)
         /\ lockHolder' = CASE EnterLock(c) -> lockHolder \cup {c}
                            [] LeaveLock(c) -> lockHolder \ {c}
                            [] OTHER -> lockHolder
         /\ EnterLock(c) => LockFree /\ client'[c].at = "take"
         /\ LeaveLock(c) => client'[c].at = "out"
         /\ ~EnterLock(c) /\ ~LeaveLock(c) => Inside(c) /\ Inside(c)'
<1> USE DEF TypeInv, TableTypes
<1>1. CASE EnterLock(c)
  <2>1. ~LeaveLock(c)  BY <1>1 DEF EnterLock, LeaveLock
  <2>2. QED  BY <1>1, <2>1 DEF EnterLock, Place
<1>2. CASE LeaveLock(c)
  <2>1. ~EnterLock(c)  BY <1>2 DEF EnterLock, LeaveLock
  <2>2. QED  BY <1>2, <2>1 DEF LeaveLock, Place
<1>3. CASE ~EnterLock(c) /\ ~LeaveLock(c)
  <2> DEFINE Moved == /\ \A e \in Clients : e # c => client'[e] = client[e]
                      /\ Place(c)' < Place(c)
                      /\ lockHolder' = lockHolder
                      /\ Inside(c) /\ Inside(c)'
  <2>1. ASSUME TakeSlot(c) PROVE Moved  BY <2>1 DEF TakeSlot, Place
  <2>2. ASSUME FindBusy(c) PROVE Moved  BY <2>2 DEF FindBusy, Place
  <2>3. ASSUME FillSlot(c) PROVE Moved  BY <2>3 DEF FillSlot, Place
  <2>4. ASSUME Publish(c) PROVE Moved  BY <2>4 DEF Publish, Place
  <2>5. ASSUME WaitSucceeds(c) PROVE Moved  BY <2>5 DEF WaitSucceeds, Place
  <2>6. ASSUME WaitTimesOut(c) PROVE Moved  BY <2>6 DEF WaitTimesOut, Place
  <2>7. ASSUME ReadStatus(c) PROVE Moved  BY <2>7 DEF ReadStatus, Place
  <2>8. ASSUME FreeSlot(c) PROVE Moved  BY <2>8 DEF FreeSlot, Place
  <2>9. ASSUME Withdraw(c) PROVE Moved  BY <2>9 DEF Withdraw, Place
  <2>10. Moved
    BY <1>3, <2>1, <2>2, <2>3, <2>4, <2>5, <2>6, <2>7, <2>8, <2>9 DEF InCall
  <2>11. QED  BY <1>3, <2>10
<1>4. QED  BY <1>1, <1>2, <1>3

LEMMA HeldInsideStep ==
  ASSUME CallerInv, NEW c \in Clients, InCall(c)
  PROVE  HeldInside'
<1> USE CallerMoves DEF CallerInv, CallerParts, HeldInside
<1>1. CASE EnterLock(c)
  <2>1. ~LeaveLock(c) /\ Inside(c)'  BY <1>1 DEF EnterLock, LeaveLock, TypeInv, TableTypes
  <2>2. QED  BY <1>1, <2>1
<1>2. CASE LeaveLock(c)
  <2>1. ~EnterLock(c) /\ ~Inside(c)'  BY <1>2 DEF EnterLock, LeaveLock, TypeInv, TableTypes
  <2>2. QED  BY <1>2, <2>1
<1>3. CASE ~EnterLock(c) /\ ~LeaveLock(c)  BY <1>3
<1>4. QED  BY <1>1, <1>2, <1>3

LEMMA CallerInvClient ==
  ASSUME CallerInv, NEW c \in Clients, InCall(c)
  PROVE  OwnInSlot' /\ PendingHasCaller'
<1> USE DEF CallerInv, CallerParts, OwnInSlot, PendingHasCaller, AtSlot,
            TypeInv, TableTypes
<1>1. \A e \in Clients : e # c => client'[e] = client[e]  BY CallerMoves
<1>2. \A e \in Clients : Inside(e) /\ Inside(c) => e = c  BY AloneInside
<1>3. CASE EnterLock(c)
  BY <1>1, <1>3 DEF EnterLock
<1>4. CASE TakeSlot(c)  BY <1>1, <1>4 DEF TakeSlot
<1>5. CASE FindBusy(c)  BY <1>1, <1>2, <1>5 DEF FindBusy
<1>6. CASE FillSlot(c)
  <2>1. /\ client[c].at = "fill" /\ client'[c].at = "publish"
        /\ client'[c].for = client[c].for
        /\ queuedEnable' = client[c].for /\ queueState' = queueState
    BY <1>6 DEF FillSlot
  <2>2. \A e \in Clients : e # c => client'[e] = client[e] /\ ~Inside(e)
    BY <1>1, <1>2, <2>1
  <2>3. OwnInSlot'  BY <2>1, <2>2
  <2>4. PendingHasCaller'
    <3>1. ~AtSlot(c)  BY <2>1
    <3>2. QED  BY <2>1, <2>2, <3>1
  <2>5. QED  BY <2>3, <2>4
<1>7. CASE Publish(c)  BY <1>1, <1>7 DEF Publish
<1>8. CASE WaitSucceeds(c)  BY <1>1, <1>8 DEF WaitSucceeds
<1>9. CASE WaitTimesOut(c)  BY <1>1, <1>9 DEF WaitTimesOut
<1>10. CASE ReadStatus(c)  BY <1>1, <1>10 DEF ReadStatus
<1>11. CASE FreeSlot(c)  BY <1>1, <1>11 DEF FreeSlot
<1>12. CASE Withdraw(c)  BY <1>1, <1>12 DEF Withdraw, AfterWithdrawal
<1>13. CASE LeaveLock(c)  BY <1>1, <1>2, <1>13 DEF LeaveLock
<1>14. QED
  BY <1>3, <1>4, <1>5, <1>6, <1>7, <1>8, <1>9, <1>10, <1>11, <1>12, <1>13
     DEF InCall

\* Drains and the rest of the module move no caller.
LEMMA OthersLeaveCallers ==
  ASSUME \/ \E d \in Drainers : DrainStep(d)
         \/ Hook
         \/ UNCHANGED vars
  PROVE  /\ UNCHANGED <<client, lockHolder, queuedEnable, answers>>
         /\ queueState' = "pending" => queueState = "pending"
  BY DEF DrainStep, EnterFrame, ClaimCommand, NothingPending, Execute,
     StoreStatus, MarkDone, Done, SignalDone, Hook, HookComesIn, StartDraining,
     StopDraining, HookGoes, vars

LEMMA CallStarts ==
  ASSUME TypeInv, NEW c \in Clients, Call(c)
  PROVE  /\ \A e \in Clients : e # c => client'[e] = client[e]
         /\ client[c].at = "out" /\ client'[c].at = "lock"
         /\ UNCHANGED <<lockHolder, queueState, queuedEnable, drainer>>
  BY DEF Call, TypeInv, TableTypes

LEMMA CallerInvStep ==
  ASSUME CallerInv, TypeInv', [Next]_vars
  PROVE  CallerInv'
<1> USE DEF CallerInv, CallerParts
<1>1. ASSUME NEW c \in Clients, InCall(c) PROVE CallerParts'
  BY <1>1, HeldInsideStep, CallerInvClient
<1>2. ASSUME NEW c \in Clients, Call(c) PROVE CallerParts'
  BY <1>2, CallStarts DEF HeldInside, OwnInSlot, PendingHasCaller, AtSlot
<1>3. CASE (\E d \in Drainers : DrainStep(d)) \/ Hook \/ UNCHANGED vars
  BY <1>3, OthersLeaveCallers DEF HeldInside, OwnInSlot, PendingHasCaller, AtSlot
<1>4. QED  BY <1>1, <1>2, <1>3 DEF Next

LEMMA CallerInvHolds == Spec => []CallerInv
<1>1. CallerInv /\ [Next]_vars => CallerInv'
  BY CallerInvStep, TypeInvNext DEF CallerInv
<1>2. QED  BY <1>1, CallerInvInit, PTL DEF Spec

\* A command that comes to be claimed in a step was not given up on.
LEMMA OnlyWantedIsClaimed ==
  ASSUME CallerInv, [Next]_vars, NEW r \in Requests, GaveUpOn(r), r \in Claimed'
  PROVE  r \in Claimed
<1> DEFINE Has(d) == IF drainer[d].at = "claimed" THEN queuedEnable
                                                 ELSE drainer[d].for
<1> USE DEF CallerInv, CallerParts, TypeInv, TableTypes
<1>1. PICK d \in Drainers : r = Has(d)'  BY DEF Claimed
<1>2. SUFFICES Has(d) = r  BY DEF Claimed
<1>3. ASSUME NEW c \in Clients, Call(c) \/ InCall(c) PROVE Has(d) = r
  <2>1. drainer' = drainer  BY <1>3, ClientsExecuteNothing
  <2>2. CASE queuedEnable' = queuedEnable  BY <1>1, <2>1, <2>2
  <2>3. CASE queuedEnable' # queuedEnable
    <3>1. FillSlot(c)
      BY <1>3, <2>3 DEF Call, InCall, EnterLock, TakeSlot, FindBusy, Publish,
         WaitSucceeds, WaitTimesOut, ReadStatus, FreeSlot, Withdraw, LeaveLock
    <3>2. queuedEnable' = client[c].for  BY <3>1 DEF FillSlot
    <3>3. queuedEnable' # r  BY <3>2 DEF GaveUpOn
    <3>4. QED  BY <1>1, <2>1, <3>3
  <2>4. QED  BY <2>2, <2>3
<1>4. ASSUME NEW e \in Drainers, DrainStep(e) PROVE Has(d) = r
  <2>1. queuedEnable' = queuedEnable
    BY <1>4, OthersLeaveCallers
  <2>2. CASE d # e
    <3>1. drainer'[d] = drainer[d]
      BY <1>4, <2>2 DEF DrainStep, EnterFrame, ClaimCommand, NothingPending,
         Execute, StoreStatus, MarkDone, SignalDone
    <3>2. QED  BY <1>1, <2>1, <3>1
  <2>3. CASE d = e
    <3>1. CASE ClaimCommand(d)
      <4>1. queuedEnable = r /\ queueState = "pending"
        BY <1>1, <2>1, <3>1 DEF ClaimCommand, IsPending
      <4>2. \E c \in Clients : client[c].for = r
        BY <4>1 DEF PendingHasCaller, OwnInSlot
      <4>3. QED  BY <4>2 DEF GaveUpOn
    <3>2. CASE Execute(d)  BY <1>1, <2>1, <3>2 DEF Execute
    <3>3. CASE SignalDone(d)
      <4>1. Has(d)' = 0  BY <3>3 DEF SignalDone
      <4>2. QED  BY <1>1, <4>1 DEF Requests
    <3>4. CASE EnterFrame(d)  BY <1>1, <2>1, <3>4 DEF EnterFrame
    <3>5. CASE NothingPending(d)  BY <1>1, <2>1, <3>5 DEF NothingPending
    <3>6. CASE StoreStatus(d)  BY <1>1, <2>1, <3>6 DEF StoreStatus
    <3>7. CASE MarkDone(d)  BY <1>1, <2>1, <3>7 DEF MarkDone
    <3>8. QED
      BY <1>4, <2>3, <3>1, <3>2, <3>3, <3>4, <3>5, <3>6, <3>7 DEF DrainStep
  <2>4. QED  BY <2>2, <2>3
<1>5. CASE Hook \/ UNCHANGED vars
  <2>1. drainer' = drainer /\ queuedEnable' = queuedEnable
    BY <1>5 DEF Hook, HookComesIn, StartDraining, StopDraining, HookGoes, vars
  <2>2. QED  BY <1>1, <2>1
<1>6. QED  BY <1>3, <1>4, <1>5 DEF Next

\* A command whose caller gave up before any frame claimed it is never
\* claimed afterwards: the withdrawal takes it out of the slot, and whatever
\* is in the slot later belongs to a later caller.  This holds even if a
\* caller overtakes a drain.
THEOREM WithdrawnStaysGone == Spec => WithdrawnNeverRuns
<1>1. CallerInv /\ [Next]_vars =>
        [\A r \in Requests :
           GaveUpOn(r) /\ r \notin Claimed => r \notin Claimed']_vars
  BY OnlyWantedIsClaimed
<1>2. QED  BY <1>1, CallerInvHolds, PTL DEF Spec, WithdrawnNeverRuns

\* What a call has left to go, and who may stand in its way.
LockIsLeft == LockFree <=> \A c \in Clients : ~Inside(c)
CallIsBounded ==
  [][\A c \in Clients :
       client[c].at # "out" =>
         IF InCall(c) THEN Place(c)' < Place(c) ELSE client'[c] = client[c]]_vars

LEMMA PlaceIsBounded ==
  ASSUME TypeInv, NEW c \in Clients
  PROVE  Place(c) \in 0..8
<1>1. client[c].at \in ClientPlaces  BY DEF TypeInv, TableTypes
<1>2. QED  BY <1>1 DEF Place

LEMMA OthersMoveNobody ==
  ASSUME TypeInv, [Next]_vars, NEW c \in Clients, client[c].at # "out", ~InCall(c)
  PROVE  client'[c] = client[c]
<1>1. ASSUME NEW e \in Clients, Call(e) \/ InCall(e) PROVE client'[c] = client[c]
  BY <1>1, CallStarts, CallerMoves
<1>2. CASE (\E d \in Drainers : DrainStep(d)) \/ Hook \/ UNCHANGED vars
  BY <1>2, OthersLeaveCallers
<1>3. QED  BY <1>1, <1>2 DEF Next

\* A call of RequestSetMenu is over after at most eight steps of its own
\* thread, whatever the game's threads and the other callers do; the critical
\* section is free whenever nobody is inside, so the one thing a call waits
\* for is another call that is itself that short.
THEOREM BoundedCalls ==
  Spec => /\ []LockIsLeft
          /\ [](\A c \in Clients : Place(c) \in 0..8)
          /\ CallIsBounded
<1>1. CallerInv => LockIsLeft
  BY DEF CallerInv, CallerParts, HeldInside, LockIsLeft, LockFree
<1>2. CallerInv => \A c \in Clients : Place(c) \in 0..8
  BY PlaceIsBounded DEF CallerInv
<1>3. CallerInv /\ [Next]_vars =>
        [\A c \in Clients :
           client[c].at # "out" =>
             IF InCall(c) THEN Place(c)' < Place(c)
                          ELSE client'[c] = client[c]]_vars
  BY CallerMoves, OthersMoveNobody DEF CallerInv
<1>4. QED  BY <1>1, <1>2, <1>3, CallerInvHolds, PTL DEF CallIsBounded, Spec

\* Who will give an occupied slot up: the caller of a command that waits, the
\* frame of one that runs.
RunningHasFrame ==
  queueState = "running" =>
    \E d \in Drainers : drainer[d].at \in {"claimed", "inside", "mark"}
SlotIsOwed == PendingHasCaller /\ RunningHasFrame

DrainLeft(d) ==
  CASE drainer[d].at = "look"    -> 5
    [] drainer[d].at = "claimed" -> 4
    [] drainer[d].at = "inside"  -> 3
    [] drainer[d].at = "mark"    -> 2
    [] drainer[d].at = "signal"  -> 1
    [] drainer[d].at = "out"     -> 0
DrainIsBounded ==
  [][\A d \in Drainers :
       drainer[d].at # "out" =>
         IF DrainStep(d) THEN DrainLeft(d)' < DrainLeft(d)
                         ELSE drainer'[d] = drainer[d]]_vars

\* A step of one drain, and what it leaves to the others.
LEMMA DrainMoves ==
  ASSUME TypeInv, NEW d \in Drainers, DrainStep(d)
  PROVE  /\ \A e \in Drainers : e # d => drainer'[e] = drainer[e]
         /\ drainer[d].at # "out" => DrainLeft(d)' < DrainLeft(d)
         /\ queueState' = "running" =>
              \/ drainer'[d].at = "claimed"
              \/ /\ queueState = "running"
                 /\ drainer[d].at \in {"claimed", "inside", "mark"} =>
                      drainer'[d].at \in {"claimed", "inside", "mark"}
<1> USE DEF TypeInv, TableTypes, DrainLeft
<1>1. CASE EnterFrame(d)  BY <1>1 DEF EnterFrame
<1>2. CASE ClaimCommand(d)  BY <1>2 DEF ClaimCommand
<1>3. CASE NothingPending(d)  BY <1>3 DEF NothingPending
<1>4. CASE Execute(d)  BY <1>4 DEF Execute
<1>5. CASE StoreStatus(d)  BY <1>5 DEF StoreStatus
<1>6. CASE MarkDone(d)  BY <1>6 DEF MarkDone, Done
<1>7. CASE SignalDone(d)  BY <1>7 DEF SignalDone
<1>8. QED
  BY <1>1, <1>2, <1>3, <1>4, <1>5, <1>6, <1>7 DEF DrainStep

\* Callers move no drain, and none of them sets a command running.
LEMMA CallersLeaveDrains ==
  ASSUME NEW c \in Clients, Call(c) \/ InCall(c)
  PROVE  drainer' = drainer /\ (queueState' = "running" => queueState = "running")
  BY DEF Call, InCall, EnterLock, TakeSlot, FindBusy, FillSlot, Publish,
     WaitSucceeds, WaitTimesOut, ReadStatus, FreeSlot, Withdraw, AfterWithdrawal,
     LeaveLock

LEMMA RestLeavesDrains ==
  ASSUME Hook \/ UNCHANGED vars
  PROVE  drainer' = drainer /\ queueState' = queueState
  BY DEF Hook, HookComesIn, StartDraining, StopDraining, HookGoes, vars

LEMMA RunningHasFrameStep ==
  ASSUME TypeInv, RunningHasFrame, [Next]_vars
  PROVE  RunningHasFrame'
<1>1. ASSUME NEW c \in Clients, Call(c) \/ InCall(c) PROVE RunningHasFrame'
  BY <1>1, CallersLeaveDrains DEF RunningHasFrame
<1>2. ASSUME NEW d \in Drainers, DrainStep(d) PROVE RunningHasFrame'
  BY <1>2, DrainMoves DEF RunningHasFrame
<1>3. CASE Hook \/ UNCHANGED vars
  BY <1>3, RestLeavesDrains DEF RunningHasFrame
<1>4. QED  BY <1>1, <1>2, <1>3 DEF Next

LEMMA OthersMoveNoDrain ==
  ASSUME TypeInv, [Next]_vars, NEW d \in Drainers, ~DrainStep(d)
  PROVE  drainer'[d] = drainer[d]
<1>1. ASSUME NEW c \in Clients, Call(c) \/ InCall(c) PROVE drainer'[d] = drainer[d]
  BY <1>1, CallersLeaveDrains
<1>2. ASSUME NEW e \in Drainers, DrainStep(e) PROVE drainer'[d] = drainer[d]
  BY <1>2, DrainMoves
<1>3. CASE Hook \/ UNCHANGED vars  BY <1>3, RestLeavesDrains
<1>4. QED  BY <1>1, <1>2, <1>3 DEF Next

\* A command that a caller gave up on cannot block the queue (module.cpp:353-356):
\* whenever the slot is occupied somebody stands at it who takes the command out,
\* its caller until it is claimed and a frame from then on, and the frame is
\* through after five steps of its own at most.  An overtaken drain included.
THEOREM SlotIsNeverAbandoned ==
  Spec => /\ []SlotIsOwed
          /\ [](\A d \in Drainers : DrainLeft(d) \in 0..5)
          /\ DrainIsBounded
<1>1. CallerInv /\ RunningHasFrame => SlotIsOwed
  BY DEF CallerInv, CallerParts, SlotIsOwed
<1>2. Init => RunningHasFrame  BY DEF Init, RunningHasFrame
<1>3. CallerInv /\ RunningHasFrame /\ [Next]_vars => RunningHasFrame'
  BY RunningHasFrameStep DEF CallerInv
<1>4. CallerInv => \A d \in Drainers : DrainLeft(d) \in 0..5
  BY DEF CallerInv, TypeInv, TableTypes, DrainLeft
<1>5. CallerInv /\ [Next]_vars =>
        [\A d \in Drainers :
           drainer[d].at # "out" =>
             IF DrainStep(d) THEN DrainLeft(d)' < DrainLeft(d)
                             ELSE drainer'[d] = drainer[d]]_vars
  BY DrainMoves, OthersMoveNoDrain DEF CallerInv
<1>6. QED
  BY <1>1, <1>2, <1>3, <1>4, <1>5, CallerInvHolds, PTL DEF DrainIsBounded, Spec

-----------------------------------------------------------------------------
(* The queue implements CommandContract.                                   *)

\* A caller that is still to be told something was told nothing yet, and one
\* that withdraws was told that the hook stalled.
ToldOnce ==
  /\ \A r \in Requests : asked < r => answers[r] = NoAnswer
  /\ \A c \in Clients :
       client[c].at \in {"take", "fill", "publish", "wait", "read"} =>
         answers[client[c].for] = NoAnswer
  /\ \A c \in Clients :
       client[c].at = "withdraw" => answers[client[c].for].told = "HookStalled"

KeepsContract == QueueInv /\ CallerInv /\ ToldOnce

\* Whoever is inside is alone there, and its request is the newest.
LEMMA HolderAlone ==
  ASSUME KeepsContract, NEW c \in Clients, Inside(c)
  PROVE  /\ \A e \in Clients : e # c => ~Inside(e)
         /\ client[c].for = asked
         /\ asked \in Requests
         /\ queueState = "pending" => AtSlot(c)
<1>1. \A e \in Clients : e # c => ~Inside(e)
  BY AloneInside DEF KeepsContract
<1>2. client[c].for = asked  BY DEF KeepsContract, QueueInv, HolderIsNewest
<1>3. client[c].for \in Requests
  BY DEF KeepsContract, CallerInv, TypeInv, Numbered
<1>4. queueState = "pending" => AtSlot(c)
  BY <1>1 DEF KeepsContract, CallerInv, CallerParts, PendingHasCaller, AtSlot
<1>5. QED  BY <1>1, <1>2, <1>3, <1>4

LEMMA ToldOnceInCall ==
  ASSUME KeepsContract, NEW c \in Clients, InCall(c)
  PROVE  ToldOnce'
<1> USE DEF ToldOnce
<1>0. /\ \A e \in Clients : e # c => client'[e] = client[e]
      /\ client \in [Clients -> [at : ClientPlaces, for : Numbers]]
      /\ answers \in [Requests -> Answers]
      /\ asked \in Nat
  BY CallerMoves DEF KeepsContract, CallerInv, TypeInv, TableTypes, SlotTypes, Room
<1>1. CASE EnterLock(c)
  <2>1. \A e \in Clients : ~Inside(e)
    BY <1>1 DEF EnterLock, LockFree, KeepsContract, CallerInv, CallerParts, HeldInside
  <2>2. asked' = asked + 1 /\ asked' \in Requests
    BY <1>1, NumberTaken DEF EnterLock, KeepsContract, CallerInv
  <2>3. client'[c] = [at |-> "take", for |-> asked'] /\ answers' = answers
    BY <1>0, <1>1 DEF EnterLock
  <2>4. answers[asked'] = NoAnswer  BY <1>0, <2>2 DEF KeepsContract
  <2>5. \A r \in Requests : asked' < r => asked < r  BY <1>0, <2>2 DEF Requests
  <2>6. QED  BY <1>0, <2>1, <2>3, <2>4, <2>5 DEF KeepsContract
<1>2. CASE ~EnterLock(c)
  <2>1. Inside(c) /\ asked' = asked
    BY <1>2 DEF InCall, TakeSlot, FindBusy, FillSlot, Publish, WaitSucceeds,
       WaitTimesOut, ReadStatus, FreeSlot, Withdraw, LeaveLock
  <2>2. /\ \A e \in Clients : e # c => ~Inside(e)
        /\ client[c].for = asked /\ asked \in Requests
    BY <2>1, HolderAlone
  <2>3. ASSUME Tell(client[c].for, "Busy", None) \/ Tell(client[c].for, "HookStalled", None)
                 \/ Tell(client[c].for, "outcome", queuedStatus)
        PROVE  \A r \in Requests : asked < r => answers'[r] = answers[r]
    BY <1>0, <2>2, <2>3 DEF Requests
  <2>4. CASE FindBusy(c)
    BY <1>0, <2>1, <2>2, <2>3, <2>4 DEF FindBusy, KeepsContract
  <2>5. CASE WaitTimesOut(c)
    <3>1. client'[c] = [client[c] EXCEPT !.at = "withdraw"]
          /\ answers'[asked].told = "HookStalled"
      BY <1>0, <2>2, <2>5 DEF WaitTimesOut
    <3>2. QED  BY <1>0, <2>1, <2>2, <2>3, <2>5, <3>1 DEF WaitTimesOut, KeepsContract
  <2>6. CASE ReadStatus(c)
    BY <1>0, <2>1, <2>2, <2>3, <2>6 DEF ReadStatus, KeepsContract
  <2>7. CASE LeaveLock(c)  BY <1>0, <2>1, <2>7 DEF LeaveLock, KeepsContract
  <2>8. CASE TakeSlot(c) \/ FillSlot(c) \/ Publish(c) \/ WaitSucceeds(c)
    BY <1>0, <2>1, <2>8 DEF TakeSlot, FillSlot, Publish, WaitSucceeds, KeepsContract
  <2>9. CASE FreeSlot(c) \/ Withdraw(c)
    BY <1>0, <2>1, <2>9 DEF FreeSlot, Withdraw, KeepsContract
  <2>10. QED  BY <1>2, <2>4, <2>5, <2>6, <2>7, <2>8, <2>9 DEF InCall
<1>3. QED  BY <1>1, <1>2

LEMMA ToldOnceStep ==
  ASSUME KeepsContract, [Next]_vars
  PROVE  ToldOnce'
<1>1. ASSUME NEW c \in Clients, InCall(c) PROVE ToldOnce'
  BY <1>1, ToldOnceInCall
<1>2. ASSUME NEW c \in Clients, Call(c) PROVE ToldOnce'
  <2>1. asked' = asked /\ answers' = answers  BY <1>2 DEF Call
  <2>2. QED
    BY <1>2, <2>1, CallStarts DEF ToldOnce, KeepsContract, CallerInv
<1>3. CASE (\E d \in Drainers : DrainStep(d)) \/ Hook \/ UNCHANGED vars
  <2>1. UNCHANGED <<client, answers, asked>>
    BY <1>3 DEF DrainStep, EnterFrame, ClaimCommand, NothingPending, Execute,
       StoreStatus, MarkDone, SignalDone, Hook, HookComesIn, StartDraining,
       StopDraining, HookGoes, vars
  <2>2. QED  BY <2>1 DEF ToldOnce, KeepsContract
<1>4. QED  BY <1>1, <1>2, <1>3 DEF Next

LEMMA ContractInCall ==
  ASSUME KeepsContract, NEW c \in Clients, InCall(c)
  PROVE  Contract!Next \/ UNCHANGED Contract!vars
<1> USE DEF Open, Active
<1>0. /\ \A e \in Clients : e # c => client'[e] = client[e]
      /\ client \in [Clients -> [at : ClientPlaces, for : Numbers]]
      /\ executed' = executed /\ asked \in Nat
  BY CallerMoves, ClientsExecuteNothing
     DEF KeepsContract, CallerInv, TypeInv, TableTypes, Room
<1>1. CASE EnterLock(c)
  <2>1. \A e \in Clients : ~Inside(e)
    BY <1>1 DEF EnterLock, LockFree, KeepsContract, CallerInv, CallerParts, HeldInside
  <2>2. queueState # "pending"
    BY <2>1 DEF KeepsContract, CallerInv, CallerParts, PendingHasCaller, AtSlot
  <2>3. Open = {}  BY <2>1, <2>2
  <2>4. asked' = asked + 1 /\ asked' \in Requests
    BY <1>1, NumberTaken DEF EnterLock, KeepsContract, CallerInv
  <2>5. client'[c] = [at |-> "take", for |-> asked']  BY <1>0, <1>1 DEF EnterLock
  <2>6. UNCHANGED <<slotVars, answers>>  BY <1>1 DEF EnterLock
  <2>7. Open' = {asked'}  BY <1>0, <2>1, <2>2, <2>4, <2>5, <2>6
  <2>8. asked < MaxRequests  BY <1>0, <2>4 DEF Requests
  <2>9. Contract!Ask  BY <1>0, <2>3, <2>4, <2>6, <2>7, <2>8 DEF Contract!Ask
  <2>10. QED  BY <2>9 DEF Contract!Next
<1>2. CASE ~EnterLock(c)
  <2>1. Inside(c) /\ asked' = asked
    BY <1>2 DEF InCall, TakeSlot, FindBusy, FillSlot, Publish, WaitSucceeds,
       WaitTimesOut, ReadStatus, FreeSlot, Withdraw, LeaveLock
  <2>2. /\ \A e \in Clients : e # c => ~Inside(e)
        /\ client[c].for = asked /\ asked \in Requests
        /\ queueState = "pending" => AtSlot(c)
    BY <2>1, HolderAlone
  <2>3. asked \in 1..asked  BY <2>2 DEF Requests
  <2> DEFINE Early == client[c].at \in {"take", "fill", "publish"}
             Stays == UNCHANGED Contract!vars
  <2> USE DEF Contract!vars, AtSlot
  <2>4. Open = IF Early \/ (queueState = "pending" /\ queuedEnable = asked)
               THEN {asked} ELSE {}
    BY <1>0, <2>1, <2>2 DEF KeepsContract, CallerInv, CallerParts, OwnInSlot
  <2>5. CASE TakeSlot(c)
    <3>1. /\ client'[c] = [client[c] EXCEPT !.at = "fill"]
          /\ queueState \notin {"pending", "running"} /\ queueState' = "empty"
          /\ UNCHANGED <<answers, queuedEnable>>
      BY <1>0, <2>5 DEF TakeSlot
    <3>2. Open' = {asked} /\ Open = {asked}
      BY <1>0, <2>1, <2>2, <2>4, <2>5, <3>1 DEF TakeSlot
    <3>3. QED  BY <1>0, <2>1, <3>1, <3>2
  <2>6. CASE FindBusy(c)
    <3>1. /\ client[c].at = "take" /\ client'[c] = [client[c] EXCEPT !.at = "unlock"]
          /\ queueState \in {"pending", "running"}
          /\ UNCHANGED <<queueState, queuedEnable>>
      BY <1>0, <2>6 DEF FindBusy
    <3>2. queueState = "running"  BY <2>2, <3>1
    <3>3. Open = {asked} /\ Open' = {}  BY <1>0, <2>1, <2>2, <2>4, <3>1, <3>2
    <3>4. Active = {queuedEnable} /\ Active' = Active  BY <3>1, <3>2
    <3>5. answers[asked] = NoAnswer  BY <2>2, <3>1 DEF KeepsContract, ToldOnce
    <3>6. answers' = [answers EXCEPT ![asked] = [told |-> "Busy", of |-> 0]]
      BY <2>2, <2>6 DEF FindBusy
    <3>7. Contract!Refuse(asked)
      BY <1>0, <2>1, <3>3, <3>4, <3>5, <3>6 DEF Contract!Refuse, Contract!Answer
    <3> HIDE DEF Open, Active
    <3>8. QED  BY <2>3, <3>7 DEF Contract!Next
  <2>7. CASE FillSlot(c)
    <3>1. /\ client[c].at = "fill" /\ client'[c] = [client[c] EXCEPT !.at = "publish"]
          /\ queueState = "empty"
          /\ UNCHANGED <<answers, queueState>>
      BY <1>0, <2>7 DEF FillSlot, KeepsContract, QueueInv, SlotOfClient
    <3>2. Open' = {asked} /\ Open = {asked}
      BY <1>0, <2>1, <2>2, <2>4, <3>1
    <3>3. Active' = Active  BY <3>1
    <3>4. QED  BY <1>0, <2>1, <3>1, <3>2, <3>3
  <2>8. CASE Publish(c)
    <3>1. /\ client[c].at = "publish" /\ client'[c] = [client[c] EXCEPT !.at = "wait"]
          /\ queueState = "empty" /\ queueState' = "pending"
          /\ queuedEnable = asked
          /\ UNCHANGED <<answers, queuedEnable>>
      BY <1>0, <2>8 DEF Publish, KeepsContract, QueueInv, SlotOfClient
    <3>2. Open' = {asked} /\ Open = {asked}
      BY <1>0, <2>1, <2>2, <2>4, <3>1
    <3>3. Active' = Active  BY <3>1
    <3>4. QED  BY <1>0, <2>1, <3>1, <3>2, <3>3
  <2>9. CASE WaitSucceeds(c) \/ FreeSlot(c) \/ LeaveLock(c)
    <3>1. /\ ~Early /\ client'[c].at \notin {"take", "fill", "publish"}
          /\ UNCHANGED <<answers, queuedEnable>>
          /\ queueState' = queueState \/ (queueState = "done" /\ queueState' = "empty")
      BY <1>0, <2>9 DEF WaitSucceeds, FreeSlot, LeaveLock, KeepsContract, QueueInv,
         SlotOfClient
    <3>2. Open' = Open
      BY <1>0, <2>1, <2>2, <3>1
    <3>3. Active' = Active  BY <3>1
    <3>4. QED  BY <1>0, <2>1, <3>1, <3>2, <3>3
  <2>10. CASE WaitTimesOut(c)
    <3>1. /\ client[c].at = "wait" /\ client'[c].at = "withdraw"
          /\ UNCHANGED <<queueState, queuedEnable>>
          /\ answers' = [answers EXCEPT ![asked] = [told |-> "HookStalled", of |-> 0]]
      BY <1>0, <2>2, <2>10 DEF WaitTimesOut
    <3>2. answers[asked] = NoAnswer  BY <2>2, <3>1 DEF KeepsContract, ToldOnce
    <3>3. Open' = Open  BY <1>0, <2>1, <2>2, <3>1
    <3>4. Contract!Stall(asked)
      BY <1>0, <2>1, <3>1, <3>2, <3>3 DEF Contract!Stall, Contract!Answer
    <3>5. QED  BY <2>3, <3>4 DEF Contract!Next
  <2>11. CASE ReadStatus(c)
    <3>1. /\ client[c].at = "read" /\ client'[c].at = "free"
          /\ UNCHANGED <<queueState, queuedEnable>>
          /\ answers' = [answers EXCEPT ![asked] = [told |-> "outcome", of |-> queuedStatus]]
      BY <1>0, <2>2, <2>11 DEF ReadStatus
    <3>2. queueState = "done" /\ queuedStatus = asked /\ asked \in Executed
      BY <3>1 DEF KeepsContract, QueueInv, SlotOfClient, DoneHolds
    <3>3. answers[asked] = NoAnswer  BY <2>2, <3>1 DEF KeepsContract, ToldOnce
    <3>4. Open' = Open /\ Active' = Active /\ Active = {}
      BY <1>0, <2>1, <2>2, <3>1, <3>2
    <3>5. Contract!TellOutcome(asked)
      BY <1>0, <2>1, <3>1, <3>2, <3>3, <3>4
         DEF Contract!TellOutcome, Contract!Answer, Contract!Ran, Executed
    <3>6. QED  BY <2>3, <3>5 DEF Contract!Next
  <2>12. CASE Withdraw(c)
    <3>1. /\ client[c].at = "withdraw" /\ client'[c].at = "unlock"
          /\ queueState' = IF queueState = "pending" THEN "empty" ELSE queueState
          /\ UNCHANGED <<queuedEnable, answers>>
      BY <1>0, <2>12 DEF Withdraw, AfterWithdrawal
    <3>2. queuedEnable = asked
      BY <2>2, <3>1 DEF KeepsContract, CallerInv, CallerParts, OwnInSlot
    <3>3. Active' = Active  BY <3>1
    <3>4. CASE queueState = "pending"
      <4>1. Open = {asked} /\ Open' = {}
        BY <1>0, <2>1, <2>2, <2>4, <3>1, <3>2, <3>4
      <4>2. answers[asked].told = "HookStalled"
        BY <2>2, <3>1 DEF KeepsContract, ToldOnce
      <4>3. Contract!Withdraw(asked)
        BY <1>0, <2>1, <3>1, <3>3, <4>1, <4>2 DEF Contract!Withdraw
      <4> HIDE DEF Open, Active
      <4>4. QED  BY <2>3, <4>3 DEF Contract!Next
    <3>5. CASE queueState # "pending"
      <4>1. Open' = Open  BY <1>0, <2>1, <2>2, <3>1, <3>5
      <4>2. QED  BY <1>0, <2>1, <3>1, <3>3, <4>1
    <3>6. QED  BY <3>4, <3>5
  <2>13. QED
    BY <1>2, <2>5, <2>6, <2>7, <2>8, <2>9, <2>10, <2>11, <2>12 DEF InCall
<1>3. QED  BY <1>1, <1>2

LEMMA ContractDrain ==
  ASSUME KeepsContract, NEW d \in Drainers, DrainStep(d)
  PROVE  Contract!Next \/ UNCHANGED Contract!vars
<1> USE DEF Open, Active
<1>1. UNCHANGED <<client, asked, answers, queuedEnable>> /\ asked \in Nat
  BY DEF DrainStep, EnterFrame, ClaimCommand, NothingPending, Execute,
     StoreStatus, MarkDone, SignalDone, KeepsContract, CallerInv, TypeInv, Room
<1>2. queuedEnable \in Nat /\ queuedEnable <= asked /\ asked <= MaxRequests
  <2>1. IsFiniteSet(Waiting) /\ asked + Cardinality(Waiting) <= MaxRequests
    BY DEF KeepsContract, CallerInv, TypeInv, Room
  <2>2. Cardinality(Waiting) \in Nat  BY <2>1, FS_CardinalityType
  <2>3. queuedEnable \in Nat /\ queuedEnable <= asked
    BY DEF KeepsContract, QueueInv, Types, NoneFromTheFuture
  <2>4. QED  BY <1>1, <2>1, <2>2, <2>3
<1>3. CASE ClaimCommand(d)
  <2>1. queueState = "pending" /\ queueState' = "running" /\ executed' = executed
    BY <1>3 DEF ClaimCommand, IsPending
  <2>2. PICK c \in Clients : AtSlot(c)
    BY <2>1 DEF KeepsContract, CallerInv, CallerParts, PendingHasCaller
  <2>3. \A e \in Clients : client[e].at \notin {"take", "fill", "publish"}
    BY <2>2, HolderAlone DEF AtSlot
  <2>4. queuedEnable \in Requests  BY <2>1 DEF KeepsContract, CallerInv, TypeInv, Numbered
  <2>5. Open = {queuedEnable} /\ Open' = {}  BY <1>1, <2>1, <2>3, <2>4
  <2>6. Active = {} /\ Active' = {queuedEnable}  BY <1>1, <2>1
  <2>7. \A i \in DOMAIN executed : executed[i] < queuedEnable
    BY <2>1 DEF KeepsContract, QueueInv, PendingIsNewer
  <2>8. Contract!Claim(queuedEnable)
    BY <1>1, <2>1, <2>5, <2>6, <2>7 DEF Contract!Claim
  <2>9. queuedEnable \in 1..asked  BY <1>1, <1>2, <2>4 DEF Requests
  <2> HIDE DEF Open, Active
  <2>10. QED  BY <2>8, <2>9 DEF Contract!Next
<1>4. CASE Execute(d)
  <2>1. /\ drainer[d].at = "claimed" /\ executed' = Append(executed, queuedEnable)
        /\ queueState' = queueState
    BY <1>4 DEF Execute
  <2>2. /\ queueState = "running"
        /\ \A i \in DOMAIN executed : executed[i] < queuedEnable
    BY <2>1 DEF KeepsContract, QueueInv, SlotOfDrain
  <2>3. Active = {queuedEnable} /\ Active' = Active /\ Open' = Open
    BY <1>1, <2>1, <2>2
  <2>4. queuedEnable \notin Contract!Ran  BY <1>2, <2>2 DEF Contract!Ran
  <2>5. Contract!Run(queuedEnable)
    BY <1>1, <2>1, <2>3, <2>4 DEF Contract!Run
  <2>6. queuedEnable \in Requests
    BY <2>1 DEF KeepsContract, CallerInv, TypeInv, Numbered
  <2>7. QED  BY <1>1, <1>2, <2>5, <2>6 DEF Contract!Next, Requests
<1>5. CASE MarkDone(d)
  <2>1. /\ drainer[d].at = "mark" /\ queueState' = "done" /\ executed' = executed
    BY <1>5 DEF MarkDone, Done
  <2>2. queueState = "running" /\ queuedEnable \in Executed
    BY <2>1 DEF KeepsContract, QueueInv, SlotOfDrain
  <2>3. Active = {queuedEnable} /\ Active' = {} /\ Open' = Open
    BY <1>1, <2>1, <2>2
  <2>4. Contract!Record(queuedEnable)
    BY <1>1, <2>1, <2>2, <2>3 DEF Contract!Record, Contract!Ran, Executed
  <2>5. queuedEnable \in Requests
    BY <2>2 DEF Executed, KeepsContract, CallerInv, TypeInv, SlotTypes
  <2>6. QED  BY <1>1, <1>2, <2>4, <2>5 DEF Contract!Next, Requests
<1>6. CASE EnterFrame(d) \/ NothingPending(d) \/ StoreStatus(d) \/ SignalDone(d)
  <2>1. UNCHANGED <<queueState, executed>>
    BY <1>6 DEF EnterFrame, NothingPending, StoreStatus, SignalDone
  <2>2. QED  BY <1>1, <2>1 DEF Contract!vars
<1>7. QED  BY <1>3, <1>4, <1>5, <1>6 DEF DrainStep

LEMMA ContractStep ==
  ASSUME KeepsContract, [Next]_vars
  PROVE  [Contract!Next]_(Contract!vars)
<1>1. ASSUME NEW c \in Clients, InCall(c) PROVE Contract!Next \/ UNCHANGED Contract!vars
  BY <1>1, ContractInCall
<1>2. ASSUME NEW c \in Clients, Call(c) PROVE UNCHANGED Contract!vars
  <2>1. UNCHANGED <<slotVars, asked, executed, answers>>  BY <1>2 DEF Call
  <2>2. /\ \A e \in Clients : e # c => client'[e] = client[e]
        /\ client[c].at = "out" /\ client'[c].at = "lock"
    BY <1>2, CallStarts DEF KeepsContract, CallerInv
  <2>3. Open' = Open  BY <2>1, <2>2 DEF Open
  <2>4. QED  BY <2>1, <2>3 DEF Contract!vars, Active
<1>3. ASSUME NEW d \in Drainers, DrainStep(d)
      PROVE  Contract!Next \/ UNCHANGED Contract!vars
  BY <1>3, ContractDrain
<1>4. CASE Hook \/ UNCHANGED vars
  <2>1. UNCHANGED <<slotVars, client, asked, executed, answers>>
    BY <1>4 DEF Hook, HookComesIn, StartDraining, StopDraining, HookGoes, vars
  <2>2. QED  BY <2>1 DEF Contract!vars, Open, Active
<1>5. QED  BY <1>1, <1>2, <1>3, <1>4 DEF Next

\* The lock, the state word and the event keep what RequestSetMenu promises,
\* for any number of callers, game threads and requests: one command at a time,
\* in order and at most once; one true answer to each caller; and nothing is
\* claimed that its caller has taken back.
THEOREM Refinement ==
  ASSUME ~OvertakesDrain
  PROVE  Spec => ImplementsContract
<1>1. Init => Contract!Init
  BY DEF Init, Contract!Init, Open, Active, Requests
<1>2. Init => KeepsContract
  BY QueueInvInit, CallerInvInit DEF Init, KeepsContract, ToldOnce
<1>3. KeepsContract /\ [Next]_vars => KeepsContract'
  <2>1. QueueInv /\ [Next]_vars => QueueInv'  BY QueueInvNext
  <2>2. CallerInv /\ [Next]_vars => CallerInv'
    BY CallerInvStep, TypeInvNext DEF CallerInv
  <2>3. QED  BY <2>1, <2>2, ToldOnceStep DEF KeepsContract
<1>4. KeepsContract /\ [Next]_vars => [Contract!Next]_(Contract!vars)
  BY ContractStep
<1>5. QED
  BY <1>1, <1>2, <1>3, <1>4, PTL DEF Spec, ImplementsContract, Contract!Spec
=============================================================================
