------------------------------ MODULE Scanner ------------------------------
(***************************************************************************)
(* One pass of ScanToolsMenu over an image that may change under it:       *)
(* src/scanner/tools_menu_scan.cpp, pattern.cpp, image.cpp, with the       *)
(* worker's loop of src/dll/module.cpp and src/tools/scan/main.cpp.        *)
(*                                                                         *)
(* The module scans the game it is loaded in while the game decrypts its   *)
(* code, fills its slots and may be patched by other tools.  The           *)
(* command-line scan copies a running game range by range and scans the    *)
(* copy, or lays out a file.                                               *)
(*                                                                         *)
(* Bytes are abstracted to what a place in the code is: the signature it   *)
(* matches, the place or slot its call, load or lea leads to, and the      *)
(* target of its tail jump.  A chunk is a part of a section that is        *)
(* searched, copied and decrypted as a whole.                              *)
(***************************************************************************)
EXTENDS Naturals

CONSTANTS
  Addresses,      \* places in the code
  Slots,          \* places in the data
  Nowhere,        \* neither
  LastChunk,      \* the chunks are 1..LastChunk, in the order of the sections
  ChunkOf,        \* the chunk of each address
  Executable,     \* the chunks that lie in executable sections
  Writable,       \* the slots that lie in writable sections
  Builds,         \* games the tool may meet, decrypted and started
  Malformed,      \* those whose headers do not parse
  Shared          \* functions another tool may hook as well

\* The signatures, in the order ScanToolsMenu looks for them.
Order == <<"tick", "dispatch", "enable", "disable", "create", "destroy", "gate">>
Anchors == {"tick", "dispatch", "enable", "disable", "create", "destroy", "gate"}
Bindings == {"enable", "disable"}
ThroughAccessor == {"enable", "disable", "create", "destroy"}
Sampled == {"tick", "enable", "disable"}

Chunks == 1..LastChunk
Sites == Addresses \cup {Nowhere}
Content ==
  [sig: Anchors \cup {"accessor", "other"},
   ref: Addresses \cup Slots \cup {Nowhere},
   tail: Sites]

ASSUME ScannerAssumption ==
  /\ Nowhere \notin Addresses \cup Slots
  /\ LastChunk \in Nat
  /\ ChunkOf \in [Addresses -> Chunks]
  /\ Executable \subseteq Chunks
  /\ Writable \subseteq Slots
  /\ Builds \subseteq [code: [Addresses -> Content], slot: [Slots -> Sites]]
  /\ Malformed \subseteq Builds
  /\ Shared \subseteq Addresses

VARIABLES
  source,     \* "module", "snapshot" or "file"
  build,      \* the game that is scanned
  decrypted,  \* the chunks its startup has decrypted
  started,    \* its startup has written the slots
  patched,    \* the functions another tool has hooked
  copy,       \* what the command-line scan has read
  pc,         \* where the scan is
  turn,       \* the signature it looks for, an index into Order
  chunk,      \* the chunk it looks at next
  first,      \* FindAll's first match
  several,    \* FindAll has reached its limit of two
  rva,        \* what each signature resolved to
  slot,       \* the slot decoded there
  tail,       \* the tail jump decoded there
  sample,     \* the bytes kept for the hook and the menu
  usable,     \* ScanReport.usable
  hooked,     \* InstallFrameHook was through
  again,      \* g_scan_again is signalled
  steady,     \* history: memory is as it was when the pass began
  cutIn       \* history: a tool hooked FrameTick between its match and its sample

game == <<decrypted, started, patched>>
search == <<turn, chunk, first, several>>
findings == <<rva, slot, tail>>
report == <<findings, sample, usable>>
history == <<steady, cutIn>>
vars == <<source, build, game, copy, pc, search, report, hooked, again, history>>

-----------------------------------------------------------------------------
(* What is where.                                                          *)

\* Encrypted, unreadable or zeroed bytes.
Blank == [sig |-> "other", ref |-> Nowhere, tail |-> Nowhere]

\* A foreign jump over the first fourteen bytes: the call of a binding at +11
\* is gone with them, its tail jump at +23 is not.
Overwritten(c) == [c EXCEPT !.sig = "other", !.ref = Nowhere]

InMemory(a) ==
  IF ChunkOf[a] \notin decrypted THEN Blank
  ELSE IF a \in patched THEN Overwritten(build.code[a])
  ELSE build.code[a]

SlotHolds(s) == IF started THEN build.slot[s] ELSE Nowhere

\* Image::At: the module reads the game itself, the tool its copy.
Code(a) == IF source = "module" THEN InMemory(a) ELSE copy.code[a]
Data(s) == IF source = "module" THEN SlotHolds(s) ELSE copy.slot[s]
Live == source # "file"

InExecutable(a) == a \in Addresses /\ ChunkOf[a] \in Executable
InWritable(s) == s \in Writable

Matches(sig) == {a \in Addresses : InExecutable(a) /\ Code(a).sig = sig}

\* Follows the call at a site into a `lea rax, [slot]; ret` accessor.
AccessorSlot(a) ==
  LET accessor == Code(a).ref
  IN IF /\ InExecutable(accessor)
        /\ Code(accessor).sig = "accessor"
        /\ InWritable(Code(accessor).ref)
     THEN Code(accessor).ref
     ELSE Nowhere

\* The slot a site loads from or calls through: RipSlot and IndirectCallSlot.
DirectSlot(a) == IF InWritable(Code(a).ref) THEN Code(a).ref ELSE Nowhere

SlotAt(sig, a) == IF sig \in ThroughAccessor THEN AccessorSlot(a) ELSE DirectSlot(a)
TailJump(a) == Code(a).tail

\* The cross-checks: two ways to the same thing have to agree.
Agree(r, s, t) ==
  /\ t["enable"] = r["create"]
  /\ t["disable"] = r["destroy"]
  /\ s["enable"] = s["disable"]
  /\ s["create"] = s["destroy"]
  /\ s["enable"] # s["create"]

Resolved(r, s) ==
  /\ \A sig \in Anchors : r[sig] # Nowhere
  /\ \A sig \in Anchors \ {"tick"} : s[sig] # Nowhere

\* The slot is written at startup, so a file cannot be asked.
DispatchCalls(r, s) == Live => Data(s["dispatch"]) = r["tick"]

-----------------------------------------------------------------------------
Nothing == [sig \in Anchors |-> Nowhere]
NoSample == [sig \in Sampled |-> Blank]

Init ==
  /\ source \in {"module", "snapshot", "file"}
  /\ build \in Builds
  /\ decrypted = Chunks \ Executable
  /\ started = FALSE
  /\ patched = {}
  /\ copy = [code |-> [a \in Addresses |-> Blank], slot |-> [s \in Slots |-> Nowhere]]
  /\ pc = "begin"
  /\ turn = 1
  /\ chunk = 1
  /\ first = Nowhere
  /\ several = FALSE
  /\ rva = Nothing
  /\ slot = Nothing
  /\ tail = Nothing
  /\ sample = NoSample
  /\ usable = FALSE
  /\ hooked = FALSE
  /\ again = FALSE
  /\ steady = TRUE
  /\ cutIn = FALSE

-----------------------------------------------------------------------------
(* The game and the other tools.                                           *)

\* What the game does once nobody reads it any more is left out.
GameIsRead ==
  \/ source = "module"
  \/ source = "snapshot" /\ pc \in {"begin", "copy"}

GameActs ==
  /\ GameIsRead
  /\ steady' = FALSE
  /\ UNCHANGED <<source, build, copy, pc, search, report, hooked, again>>

Decrypt(k) ==
  /\ k \in Chunks \ decrypted
  /\ decrypted' = decrypted \cup {k}
  /\ UNCHANGED <<started, patched, cutIn>>
  /\ GameActs

FillSlots ==
  /\ ~started
  /\ started' = TRUE
  /\ UNCHANGED <<decrypted, patched, cutIn>>
  /\ GameActs

\* FrameTick has been matched and its sample is not read yet.
Matched(a) ==
  /\ source = "module" /\ pc \in {"find", "check", "sample"}
  /\ a = IF turn = 1 /\ pc = "find" THEN first ELSE rva["tick"]

\* At any time: nothing keeps another tool out of a pass.
ForeignPatch(a) ==
  /\ a \notin patched /\ ChunkOf[a] \in decrypted
  /\ ~hooked
  /\ patched' = patched \cup {a}
  /\ cutIn' = (cutIn \/ Matched(a))
  /\ UNCHANGED <<decrypted, started>>
  /\ GameActs

ForeignRestore(a) ==
  /\ a \in patched
  /\ ~hooked
  /\ patched' = patched \ {a}
  /\ cutIn' = (cutIn /\ ~Matched(a))
  /\ UNCHANGED <<decrypted, started>>
  /\ GameActs

-----------------------------------------------------------------------------
(* Getting at the bytes.                                                   *)

ScanActs == UNCHANGED <<source, build, game>>

\* Image::Parse takes the image, or the report stays empty.
Parsed == build \notin Malformed
Search == IF Parsed THEN "find" ELSE "done"

\* A fresh report; the module reads in place, the tool copies first.
BeginPass ==
  /\ pc = "begin"
  /\ source # "file"
  /\ pc' = IF source = "module" THEN Search ELSE "copy"
  /\ rva' = Nothing /\ slot' = Nothing /\ tail' = Nothing
  /\ sample' = NoSample
  /\ usable' = FALSE
  /\ steady' = TRUE /\ cutIn' = FALSE
  /\ UNCHANGED <<copy, search, hooked, again>>
  /\ ScanActs

\* One range of the running game; one that cannot be read stays zeroed.
CopyChunk ==
  /\ pc = "copy" /\ chunk <= LastChunk
  /\ \/ copy' = [copy EXCEPT !.code =
                   [a \in Addresses |-> IF ChunkOf[a] = chunk THEN InMemory(a) ELSE @[a]]]
     \/ UNCHANGED copy
  /\ chunk' = chunk + 1
  /\ UNCHANGED <<pc, turn, first, several, report, hooked, again, history>>
  /\ ScanActs

\* The data comes after the code.
CopyData ==
  /\ pc = "copy" /\ chunk > LastChunk
  /\ \/ copy' = [copy EXCEPT !.slot = [s \in Slots |-> SlotHolds(s)]]
     \/ UNCHANGED copy
  /\ chunk' = 1
  /\ pc' = Search
  /\ UNCHANGED <<turn, first, several, report, hooked, again, history>>
  /\ ScanActs

\* The sections of a file at their RVAs; SteamStub encrypts the code on disk.
MapFile ==
  /\ pc = "begin"
  /\ source = "file"
  /\ \E wrapped \in BOOLEAN :
       copy' = [copy EXCEPT !.code =
                  [a \in Addresses |-> IF wrapped /\ InExecutable(a)
                                       THEN Blank ELSE build.code[a]]]
  /\ pc' = Search
  /\ UNCHANGED <<search, report, hooked, again, history>>
  /\ ScanActs

-----------------------------------------------------------------------------
(* ScanToolsMenu.                                                          *)

Signature == Order[turn]

\* The matches FindAll adds from one chunk, none from one that holds no code.
Hits(k) == {a \in Matches(Signature) : ChunkOf[a] = k}

FirstOf(S) == IF S = {} THEN Nowhere ELSE CHOOSE a \in S : TRUE

\* Mutant: the search stops at its first match.
NeverMore(f, S) == FALSE
MoreThan(f, S) == S \ {f} # {}

\* FindAll, one chunk further, until the second match.
Look ==
  /\ pc = "find" /\ chunk <= LastChunk /\ ~several
  /\ first' = IF first = Nowhere THEN FirstOf(Hits(chunk)) ELSE first
  /\ several' = MoreThan(first', Hits(chunk))
  /\ chunk' = chunk + 1
  /\ UNCHANGED <<copy, pc, turn, report, hooked, again, history>>
  /\ ScanActs

\* Exactly one match counts, and only if what it leads to can be decoded.
Resolve ==
  /\ pc = "find" /\ (several \/ chunk > LastChunk)
  /\ LET site == IF several THEN Nowhere ELSE first
         led == IF site # Nowhere /\ Signature # "tick"
                THEN SlotAt(Signature, site) ELSE Nowhere
     IN /\ rva' = [rva EXCEPT ![Signature] = site]
        /\ slot' = [slot EXCEPT ![Signature] = led]
        /\ tail' = [tail EXCEPT ![Signature] =
                      IF led # Nowhere /\ Signature \in Bindings
                      THEN TailJump(site) ELSE Nowhere]
  /\ turn' = IF turn = 7 THEN 1 ELSE turn + 1
  /\ pc' = IF turn = 7 THEN "check" ELSE "find"
  /\ chunk' = 1 /\ first' = Nowhere /\ several' = FALSE
  /\ UNCHANGED <<copy, sample, usable, hooked, again, history>>
  /\ ScanActs

\* Mutant: the tail jumps are not compared with what they should lead to.
AgreedOnSlots(r, s, t) ==
  /\ Resolved(r, s) /\ DispatchCalls(r, s)
  /\ s["enable"] = s["disable"] /\ s["create"] = s["destroy"]
  /\ s["enable"] # s["create"]
Agreed(r, s, t) == Agree(r, s, t) /\ Resolved(r, s) /\ DispatchCalls(r, s)

Check ==
  /\ pc = "check"
  /\ pc' = IF Agreed(rva, slot, tail) THEN "sample" ELSE "done"
  /\ UNCHANGED <<copy, search, report, hooked, again, history>>
  /\ ScanActs

\* The bytes of the three sites, read once more.
Sample ==
  /\ pc = "sample"
  /\ sample' = [sig \in Sampled |-> Code(rva[sig])]
  /\ usable' = TRUE
  /\ pc' = "done"
  /\ UNCHANGED <<copy, search, findings, hooked, again, history>>
  /\ ScanActs

-----------------------------------------------------------------------------
(* The worker of the module around the pass.                               *)

WorkerActs ==
  /\ source = "module"
  /\ UNCHANGED <<copy, search, report, history>>
  /\ ScanActs

\* Mutant: the event is reset before the worker waits for it.
ParkForgets ==
  /\ pc = "done" /\ ~usable
  /\ \/ pc' = "begin" /\ UNCHANGED again
     \/ pc' = "parked" /\ again' = FALSE
  /\ UNCHANGED hooked
  /\ WorkerActs
\* A build that does not resolve is looked at again, until the deadline.
PassFails ==
  /\ pc = "done" /\ ~usable
  /\ pc' \in {"begin", "parked"}
  /\ UNCHANGED <<hooked, again>>
  /\ WorkerActs

\* Mutant: the site is patched whatever it holds.
SampleNotCompared == TRUE
\* InstallFrameHook writes only over the bytes of the sample.
SampleMatches == Code(rva["tick"]) = sample["tick"]

\* ConfigureToolsMenu goes on only if the bindings still hold their samples.
Configured == \A sig \in Bindings : Code(rva[sig]) = sample[sig]

Install ==
  /\ pc = "done" /\ usable
  /\ hooked' = (Configured /\ SampleMatches)
  /\ pc' = IF hooked' THEN "ready" ELSE "parked"
  /\ UNCHANGED again
  /\ WorkerActs

\* Parked, the worker waits for the user to ask again.
LookAgain ==
  /\ pc = "parked" /\ again
  /\ again' = FALSE
  /\ pc' = "begin"
  /\ UNCHANGED hooked
  /\ WorkerActs

RequestRescan ==
  /\ ~again
  /\ again' = TRUE
  /\ UNCHANGED <<pc, hooked>>
  /\ WorkerActs

-----------------------------------------------------------------------------
Scan ==
  \/ BeginPass \/ CopyChunk \/ CopyData \/ MapFile
  \/ Look \/ Resolve \/ Check \/ Sample
  \/ PassFails \/ Install \/ LookAgain

Next ==
  \/ Scan
  \/ RequestRescan
  \/ \E k \in Chunks : Decrypt(k)
  \/ FillSlots
  \/ \E a \in Shared : ForeignPatch(a) \/ ForeignRestore(a)

Spec == Init /\ [][Next]_vars

\* The worker is a scheduled thread; its waits have deadlines.
FairSpec == Spec /\ WF_vars(source = "module" /\ Scan)

-----------------------------------------------------------------------------
(* Properties.                                                             *)

TypeOK ==
  /\ source \in {"module", "snapshot", "file"}
  /\ build \in Builds
  /\ decrypted \in SUBSET Chunks
  /\ started \in BOOLEAN
  /\ patched \in SUBSET Shared
  /\ copy \in [code: [Addresses -> Content], slot: [Slots -> Sites]]
  /\ pc \in {"begin", "copy", "find", "check", "sample", "done", "parked", "ready"}
  /\ turn \in 1..7
  /\ chunk \in 1..(LastChunk + 1)
  /\ first \in Sites
  /\ several \in BOOLEAN
  /\ rva \in [Anchors -> Sites]
  /\ slot \in [Anchors -> Writable \cup {Nowhere}]
  /\ tail \in [Anchors -> Sites]
  /\ sample \in [Sampled -> Content]
  /\ {usable, hooked, again, steady, cutIn} \subseteq BOOLEAN

\* The reference: what the documents call a supported build.
The(sig) == CHOOSE a \in Matches(sig) : TRUE
OneMatch(sig) == \E a \in Matches(sig) : Matches(sig) = {a}
RefRva == [sig \in Anchors |-> The(sig)]
RefSlot == [sig \in Anchors |-> IF sig = "tick" THEN Nowhere ELSE SlotAt(sig, The(sig))]
RefTail == [sig \in Anchors |-> IF sig \in Bindings THEN TailJump(The(sig)) ELSE Nowhere]
Supported ==
  /\ Parsed
  /\ \A sig \in Anchors : OneMatch(sig)
  /\ Agreed(RefRva, RefSlot, RefTail)

\* A pass over an image that does not change under it, which a file and a copy
\* never do, finds the build usable exactly if every signature matches once
\* and all that they lead to agrees, and then reports just these places:
\* tools_menu_scan.h, "only usable when every signature matched exactly once
\* and every independent resolution of the same thing agrees".
StablePassIsExact ==
  (pc = "done" /\ (steady \/ source # "module")) =>
    /\ usable <=> Supported
    /\ usable => rva = RefRva /\ slot = RefSlot

\* What a report says is true of the build.
LayoutIsReal ==
  /\ \A sig \in Anchors :
       /\ InExecutable(rva[sig])
       /\ build.code[rva[sig]].sig = sig
  /\ \A sig \in Anchors \ {"tick"} : InWritable(slot[sig])
  /\ \A sig \in ThroughAccessor :
       LET accessor == build.code[rva[sig]].ref
       IN /\ InExecutable(accessor)
          /\ build.code[accessor].sig = "accessor"
          /\ build.code[accessor].ref = slot[sig]
  /\ \A sig \in {"dispatch", "gate"} : build.code[rva[sig]].ref = slot[sig]
  /\ build.code[rva["enable"]].tail = rva["create"]
  /\ build.code[rva["disable"]].tail = rva["destroy"]
  /\ slot["enable"] = slot["disable"]
  /\ slot["create"] = slot["destroy"]
  /\ slot["enable"] # slot["create"]
  /\ Live => build.slot[slot["dispatch"]] = rva["tick"]

\* Whatever the game decrypts or fills in and whoever patches it during the
\* pass, what a usable report names is real: each place is the function of its
\* signature in the build, the bindings end in the very functions that raise
\* and remove the menu, and the slots are theirs.  No pass puts a report
\* together from an image that never was, as when the code of one binding is
\* decrypted between two reads.
LayoutHolds == usable => LayoutIsReal

\* The hook goes in only over the bytes of FrameTick, though another tool may
\* hook the function before a pass, after it or while the worker sleeps
\* (frame_hook.cpp: "what keeps a patched, updated or mis-resolved build from
\* being written to at all").  One interleaving gets through: the bytes compared
\* are those of the sample, which is read after the signature was matched, so
\* the jump of a tool that cuts in between the two is taken for the function.
HooksOnlyTheSignature ==
  [][(hooked' /\ ~hooked /\ ~cutIn) =>
       /\ InMemory(rva["tick"]) = build.code[rva["tick"]]
       /\ build.code[rva["tick"]].sig = "tick"]_vars

Settled ==
  /\ source = "module" /\ decrypted = Chunks /\ started /\ patched = {}
  /\ Supported

\* Whoever asks for another look gets one that counts: if the game's startup is
\* through and other tools leave the shared functions alone from then on, the
\* hook goes in.  It does so although the request may come while a pass is
\* still failing over what it read before, or while the worker is on its way to
\* park: it is neither used up by the pass it comes too late for nor lost
\* (module.cpp, "both are worth being able to take back").
TryAgainResolves == (again /\ ~hooked /\ Settled) ~> (hooked \/ patched # {})
=============================================================================
