------------------------------ MODULE MCScanner ------------------------------
(* Small builds for Scanner: the game as it is, and games that differ from it
   in one or two places, so that each decision of a pass has both outcomes.  *)
EXTENDS Scanner

MCAddresses ==
  {"FrameTick", "Dispatch", "Enable", "Disable", "Create", "Destroy", "Gate",
   "LogicAccessor", "MenuAccessor", "Spare", "Constant"}
MCSlots == {"TickSlot", "LogicSlot", "MenuSlot", "SystemSlot", "ReadOnlySlot"}
MCWritable == MCSlots \ {"ReadOnlySlot"}
MCNowhere == "Nowhere"
MCShared == {"FrameTick", "Enable"}

\* Two chunks of code and one of constants.
MCChunkOf ==
  [a \in MCAddresses |->
     IF a = "Constant" THEN 3
     ELSE IF a \in {"FrameTick", "Enable", "Create", "LogicAccessor"} THEN 1
     ELSE 2]
MCExecutable == {1, 2}

Is(sig, ref, jump) == [sig |-> sig, ref |-> ref, tail |-> jump]
Other == Is("other", "Nowhere", "Nowhere")

Code0 ==
  [a \in MCAddresses |->
     CASE a = "FrameTick" -> Is("tick", "Nowhere", "Nowhere")
       [] a = "Dispatch" -> Is("dispatch", "TickSlot", "Nowhere")
       [] a = "Enable" -> Is("enable", "LogicAccessor", "Create")
       [] a = "Disable" -> Is("disable", "LogicAccessor", "Destroy")
       [] a = "Create" -> Is("create", "MenuAccessor", "Nowhere")
       [] a = "Destroy" -> Is("destroy", "MenuAccessor", "Nowhere")
       [] a = "Gate" -> Is("gate", "SystemSlot", "Nowhere")
       [] a = "LogicAccessor" -> Is("accessor", "LogicSlot", "Nowhere")
       [] a = "MenuAccessor" -> Is("accessor", "MenuSlot", "Nowhere")
       [] OTHER -> Other]
Slot0 == [s \in MCSlots |-> IF s = "TickSlot" THEN "FrameTick" ELSE "Nowhere"]

With(code) == [code |-> code, slot |-> Slot0]

\* A copy of a function elsewhere in the code, and of one in data.
Doubled == {With([Code0 EXCEPT !["Spare"] = Code0["Enable"]])}
InData == {With([Code0 EXCEPT !["Constant"] = Code0["FrameTick"]])}
\* The slot of the loop leads elsewhere than to the match of FrameTick.
Moved ==
  {With([Code0 EXCEPT !["Spare"] = Code0["FrameTick"], !["FrameTick"] = Other])}
\* Tail jumps and calls that lead to something else.
Crossed ==
  {With([Code0 EXCEPT !["Enable"].tail = "Destroy"]),
   With([Code0 EXCEPT !["Create"].ref = "LogicAccessor", !["Destroy"].ref = "LogicAccessor"]),
   With([Code0 EXCEPT !["LogicAccessor"].ref = "ReadOnlySlot"]),
   With([Code0 EXCEPT !["Gate"].ref = "ReadOnlySlot"])}
\* Two wrong places that agree with each other, one of them decrypted late.
Paired ==
  {With([Code0 EXCEPT !["Spare"] = Is("enable", "LogicAccessor", "Destroy")]),
   With([Code0 EXCEPT !["Spare"] = Is("enable", "MenuAccessor", "Create"),
                      !["Disable"].ref = "MenuAccessor"]),
   With([Code0 EXCEPT !["Spare"] = Is("create", "LogicAccessor", "Nowhere")])}

\* The game as it is but for its headers.
MCMalformed == {With([Code0 EXCEPT !["Spare"] = Code0["LogicAccessor"]])}

MCBuilds ==
  {With(Code0)} \cup MCMalformed \cup Doubled \cup InData \cup Moved \cup Crossed \cup Paired
=============================================================================
