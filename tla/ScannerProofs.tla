---------------------------- MODULE ScannerProofs ----------------------------
(***************************************************************************)
(* Type correctness and safety of Scanner, for any image, in any number of *)
(* chunks, of any build, whatever becomes of it during a pass, and how     *)
(* long a pass takes.                                                      *)
(***************************************************************************)
EXTENDS Scanner, TLAPS

USE ScannerAssumption

-----------------------------------------------------------------------------
(* What is read.                                                           *)

LEMMA BlankIs ==
  /\ Blank \in Content
  /\ Blank.sig = "other" /\ Blank.ref = Nowhere /\ Blank.tail = Nowhere
BY DEF Blank, Content, Sites

LEMMA OverwrittenIs ==
  ASSUME NEW c \in Content
  PROVE  /\ Overwritten(c) \in Content
         /\ Overwritten(c).sig = "other"
         /\ Overwritten(c).ref = Nowhere
         /\ Overwritten(c).tail = c.tail
BY DEF Overwritten, Content, Sites

LEMMA BuildIs ==
  ASSUME TypeOK
  PROVE  /\ build.code \in [Addresses -> Content]
         /\ build.slot \in [Slots -> Sites]
BY DEF TypeOK

LEMMA CopyIs ==
  ASSUME TypeOK
  PROVE  /\ copy.code \in [Addresses -> Content]
         /\ copy.slot \in [Slots -> Sites]
BY DEF TypeOK

\* What is read of the build: its own bytes, as far as they can be read.
Faithful(x, y) ==
  /\ x.sig \in {"other", y.sig}
  /\ x.ref \in {Nowhere, y.ref}
  /\ x.tail \in {Nowhere, y.tail}

\* The bytes of a signature are those of a function nobody has patched.
LEMMA MemoryIs ==
  ASSUME TypeOK, NEW a \in Addresses
  PROVE  /\ InMemory(a) \in Content
         /\ Faithful(InMemory(a), build.code[a])
         /\ InMemory(a).sig # "other" => ChunkOf[a] \in decrypted /\ a \notin patched
         /\ ChunkOf[a] \in decrypted /\ a \notin patched => InMemory(a) = build.code[a]
<1>1. build.code[a] \in Content
  BY BuildIs
<1>2. CASE ChunkOf[a] \notin decrypted
  BY <1>2, BlankIs DEF InMemory, Faithful
<1>3. CASE ChunkOf[a] \in decrypted /\ a \in patched
  BY <1>1, <1>3, OverwrittenIs DEF InMemory, Faithful
<1>4. CASE ChunkOf[a] \in decrypted /\ a \notin patched
  BY <1>1, <1>4 DEF InMemory, Faithful
<1> QED
  BY <1>2, <1>3, <1>4

LEMMA SlotHoldsIs ==
  ASSUME TypeOK, NEW s \in Slots
  PROVE  SlotHolds(s) \in Sites /\ SlotHolds(s) \in {Nowhere, build.slot[s]}
BY BuildIs DEF SlotHolds, Sites

LEMMA CodeIs == ASSUME TypeOK, NEW a \in Addresses PROVE Code(a) \in Content
BY MemoryIs, CopyIs DEF Code

LEMMA SlotAtIs ==
  ASSUME TypeOK, NEW sig \in Anchors, NEW a \in Addresses
  PROVE  SlotAt(sig, a) \in Writable \cup {Nowhere}
BY CodeIs DEF SlotAt, AccessorSlot, DirectSlot, InExecutable, InWritable

LEMMA TailJumpIs ==
  ASSUME TypeOK, NEW a \in Addresses PROVE TailJump(a) \in Sites
BY CodeIs DEF TailJump, Content

LEMMA FirstIs == ASSUME NEW S, S # {} PROVE FirstOf(S) \in S
BY DEF FirstOf

-----------------------------------------------------------------------------
(* The order of the signatures.                                            *)

\* The signatures that have been looked for when turn is t.
Before(t) == {Order[i] : i \in 1..(t - 1)}

LEMMA OrderIs ==
  ASSUME NEW t \in 1..7
  PROVE  /\ Order[t] \in Anchors
         /\ Order[t] \notin Before(t)
         /\ Before(t + 1) = Before(t) \cup {Order[t]}
<1>1. t \in {1, 2, 3, 4, 5, 6, 7}
  OBVIOUS
<1>2. Order[t] \in Anchors
  BY <1>1 DEF Order, Anchors
<1>3. \A i \in 1..(t - 1) : Order[i] # Order[t]
  <2> SUFFICES ASSUME NEW i \in 1..(t - 1) PROVE Order[i] # Order[t]
    OBVIOUS
  <2>1. i \in {1, 2, 3, 4, 5, 6} /\ i < t
    BY <1>1
  <2> QED
    BY <1>1, <2>1 DEF Order
<1>4. 1..(t + 1 - 1) = 1..(t - 1) \cup {t}
  OBVIOUS
<1>5. Before(t + 1) = Before(t) \cup {Order[t]}
  <2>1. ASSUME NEW x PROVE x \in Before(t + 1) <=> x \in Before(t) \/ x = Order[t]
    <3>1. x \in Before(t + 1) <=> \E i \in 1..(t + 1 - 1) : x = Order[i]
      BY DEF Before
    <3>2. x \in Before(t) <=> \E i \in 1..(t - 1) : x = Order[i]
      BY DEF Before
    <3> QED
      BY <1>4, <3>1, <3>2
  <2> QED
    BY <2>1
<1>6. Order[t] \notin Before(t)
  BY <1>3 DEF Before
<1> QED
  BY <1>2, <1>5, <1>6

LEMMA BeforeIs == Before(1) = {} /\ Before(8) = Anchors
<1>1. 1..(1 - 1) = {} /\ 1..(8 - 1) = {1, 2, 3, 4, 5, 6, 7}
  OBVIOUS
<1> QED
  BY <1>1 DEF Before, Order, Anchors

-----------------------------------------------------------------------------
(* Types.  Between two passes nothing is left of the search, and a report  *)
(* that is sampled has all its places.                                     *)

Rests ==
  /\ pc # "find" => turn = 1 /\ first = Nowhere /\ ~several
  /\ pc \notin {"find", "copy"} => chunk = 1
  /\ pc \in {"find", "check", "sample"} => Parsed
Complete == pc = "sample" => Resolved(rva, slot)
Shape == Rests /\ Complete

LEMMA TypeInit == Init => TypeOK /\ Shape
<1> SUFFICES ASSUME Init PROVE TypeOK /\ Shape
  OBVIOUS
<1>1. copy \in [code: [Addresses -> Content], slot: [Slots -> Sites]]
  BY BlankIs DEF Init, Sites
<1>2. sample \in [Sampled -> Content]
  BY BlankIs DEF Init, NoSample
<1>3. Shape
  BY DEF Init, Shape, Rests, Complete
<1>4. {usable, hooked, again, steady, cutIn} \subseteq BOOLEAN
  BY DEF Init
<1>5. chunk \in 1..(LastChunk + 1) /\ turn \in 1..7
  BY DEF Init
<1>6. /\ rva \in [Anchors -> Sites]
      /\ slot \in [Anchors -> Writable \cup {Nowhere}]
      /\ tail \in [Anchors -> Sites]
  BY DEF Init, Nothing, Sites
<1>7. started \in BOOLEAN /\ several \in BOOLEAN /\ first \in Sites
  BY DEF Init, Sites
<1>8. decrypted \in SUBSET Chunks /\ patched \in SUBSET Shared
  BY DEF Init
<1>9. /\ source \in {"module", "snapshot", "file"} /\ build \in Builds
      /\ pc \in {"begin", "copy", "find", "check", "sample", "done", "parked", "ready"}
  BY DEF Init
<1> QED
  BY <1>1, <1>2, <1>3, <1>4, <1>5, <1>6, <1>7, <1>8, <1>9 DEF TypeOK

LEMMA TypeStep == TypeOK /\ Shape /\ [Next]_vars => TypeOK' /\ Shape'
<1> SUFFICES ASSUME TypeOK, Shape, [Next]_vars PROVE TypeOK' /\ Shape'
  OBVIOUS
<1> USE DEF vars, game, search, findings, report, history, Parsed, Search, Shape, Rests, Complete
<1>1. CASE BeginPass
  <2>1. sample' \in [Sampled -> Content]
    BY <1>1, BlankIs DEF BeginPass, NoSample
  <2> QED
    BY <1>1, <2>1 DEF BeginPass, ScanActs, TypeOK, Nothing, Sites, Chunks
<1>2. CASE CopyChunk
  <2>1. copy' \in [code: [Addresses -> Content], slot: [Slots -> Sites]]
    BY <1>2, MemoryIs, CopyIs DEF CopyChunk, TypeOK
  <2> QED
    BY <1>2, <2>1 DEF CopyChunk, ScanActs, TypeOK, Chunks
<1>3. CASE CopyData
  <2>1. copy' \in [code: [Addresses -> Content], slot: [Slots -> Sites]]
    BY <1>3, SlotHoldsIs, CopyIs DEF CopyData, TypeOK
  <2> QED
    BY <1>3, <2>1 DEF CopyData, ScanActs, TypeOK, Chunks
<1>4. CASE MapFile
  <2>1. copy' \in [code: [Addresses -> Content], slot: [Slots -> Sites]]
    BY <1>4, BuildIs, BlankIs, CopyIs DEF MapFile, TypeOK
  <2> QED
    BY <1>4, <2>1 DEF MapFile, ScanActs, TypeOK, Chunks
<1>5. CASE Look
  <2>1. Hits(chunk) \subseteq Addresses
    BY DEF Hits, Matches
  <2>2. first' \in Sites
    BY <1>5, <2>1, FirstIs DEF Look, TypeOK, Sites, FirstOf
  <2>3. several' \in BOOLEAN
    BY <1>5 DEF Look, MoreThan
  <2>4. chunk' \in 1..(LastChunk + 1)
    BY <1>5 DEF Look, TypeOK
  <2> QED
    BY <1>5, <2>2, <2>3, <2>4 DEF Look, ScanActs, TypeOK
<1>6. CASE Resolve
  <2>1. Signature \in Anchors
    BY OrderIs DEF Signature, TypeOK
  <2> DEFINE site == IF several THEN Nowhere ELSE first
             led == IF site # Nowhere /\ Signature # "tick"
                    THEN SlotAt(Signature, site) ELSE Nowhere
             jump == IF led # Nowhere /\ Signature \in Bindings
                     THEN TailJump(site) ELSE Nowhere
  <2>2. site \in Sites
    BY DEF TypeOK, Sites
  <2>3. led \in Writable \cup {Nowhere}
    BY <2>1, <2>2, SlotAtIs DEF Sites
  <2>4. jump \in Sites
    BY <2>2, TailJumpIs DEF Sites
  <2>5. /\ rva' = [rva EXCEPT ![Signature] = site]
        /\ slot' = [slot EXCEPT ![Signature] = led]
        /\ tail' = [tail EXCEPT ![Signature] = jump]
    BY <1>6 DEF Resolve
  <2> HIDE DEF site, led, jump
  <2>6. /\ rva' \in [Anchors -> Sites]
        /\ slot' \in [Anchors -> Writable \cup {Nowhere}]
        /\ tail' \in [Anchors -> Sites]
    BY <2>2, <2>3, <2>4, <2>5 DEF TypeOK
  <2>7. turn' \in 1..7 /\ pc' \in {"find", "check"} /\ chunk' = 1
        /\ first' = Nowhere /\ several' = FALSE /\ (pc' = "check" => turn' = 1)
    BY <1>6 DEF Resolve, TypeOK
  <2>8. pc' # "sample" /\ UNCHANGED <<copy, sample, usable, hooked, again, steady, cutIn>>
        /\ UNCHANGED <<source, build, decrypted, started, patched>>
    BY <1>6, <2>7 DEF Resolve, ScanActs
  <2>9. first' \in Sites /\ several' \in BOOLEAN
    BY <2>7 DEF Sites
  <2>10. chunk' \in 1..(LastChunk + 1)
    BY <2>7 DEF ScannerAssumption
  <2>11. TypeOK'
    BY <2>6, <2>7, <2>8, <2>9, <2>10 DEF TypeOK
  <2>12. Parsed' = Parsed /\ pc = "find"
    BY <1>6, <2>8 DEF Resolve, Parsed
  <2> QED
    BY <2>7, <2>8, <2>11, <2>12
<1>7. CASE Check
  BY <1>7 DEF Check, ScanActs, TypeOK, Agreed
<1>8. CASE Sample
  <2>1. \A sig \in Sampled : rva[sig] \in Addresses
    BY <1>8 DEF Sample, Resolved, TypeOK, Sites, Sampled, Anchors
  <2>2. sample' \in [Sampled -> Content]
    BY <1>8, <2>1, CodeIs DEF Sample
  <2> QED
    BY <1>8, <2>2 DEF Sample, ScanActs, TypeOK
<1>9. CASE PassFails
  BY <1>9 DEF PassFails, WorkerActs, ScanActs, TypeOK
<1>10. CASE Install
  <2>1. hooked' \in BOOLEAN
    BY <1>10 DEF Install, SampleMatches
  <2> QED
    BY <1>10, <2>1 DEF Install, WorkerActs, ScanActs, TypeOK
<1>11. CASE LookAgain
  BY <1>11 DEF LookAgain, WorkerActs, ScanActs, TypeOK
<1>12. CASE RequestRescan
  BY <1>12 DEF RequestRescan, WorkerActs, ScanActs, TypeOK
<1>13. ASSUME NEW k \in Chunks, Decrypt(k) PROVE TypeOK' /\ Shape'
  BY <1>13 DEF Decrypt, GameActs, TypeOK
<1>14. CASE FillSlots
  BY <1>14 DEF FillSlots, GameActs, TypeOK
<1>15. ASSUME NEW a \in Shared, ForeignPatch(a) PROVE TypeOK' /\ Shape'
  BY <1>15 DEF ForeignPatch, GameActs, TypeOK
<1>16. ASSUME NEW a \in Shared, ForeignRestore(a) PROVE TypeOK' /\ Shape'
  BY <1>16 DEF ForeignRestore, GameActs, TypeOK
<1>17. CASE UNCHANGED vars
  BY <1>17 DEF TypeOK, Resolved
<1> QED
  BY <1>1, <1>2, <1>3, <1>4, <1>5, <1>6, <1>7, <1>8, <1>9, <1>10,
     <1>11, <1>12, <1>13, <1>14, <1>15, <1>16, <1>17
  DEF Next, Scan

-----------------------------------------------------------------------------
(* What a report says.  Every place found, on whatever turn, is what it is *)
(* taken for in the build, as every byte read is the build's own.          *)

CopyIsFaithful ==
  /\ \A a \in Addresses : Faithful(copy.code[a], build.code[a])
  /\ \A s \in Slots : copy.slot[s] \in {Nowhere, build.slot[s]}

SiteIs(sig, a) == InExecutable(a) /\ build.code[a].sig = sig
SlotIs(sig, a, s) ==
  /\ InWritable(s)
  /\ IF sig \in ThroughAccessor
     THEN LET accessor == build.code[a].ref
          IN /\ InExecutable(accessor)
             /\ build.code[accessor].sig = "accessor"
             /\ build.code[accessor].ref = s
     ELSE build.code[a].ref = s

FirstIsReal == first # Nowhere => SiteIs(Signature, first)
FoundIsReal ==
  \A sig \in Anchors :
    /\ rva[sig] # Nowhere => SiteIs(sig, rva[sig])
    /\ slot[sig] # Nowhere => SlotIs(sig, rva[sig], slot[sig])
    /\ tail[sig] # Nowhere => tail[sig] = build.code[rva[sig]].tail
ReportIsReal == pc = "sample" \/ usable => LayoutIsReal
SearchIsFresh ==
  pc \in {"copy", "find", "check", "sample"} \/ (source = "file" /\ pc = "begin") => ~usable

Real ==
  CopyIsFaithful /\ FirstIsReal /\ FoundIsReal /\ ReportIsReal /\ SearchIsFresh

LEMMA ReadsFaithfully ==
  ASSUME TypeOK, CopyIsFaithful
  PROVE  /\ \A a \in Addresses : Faithful(Code(a), build.code[a])
         /\ \A s \in Slots : Data(s) \in {Nowhere, build.slot[s]}
BY MemoryIs, SlotHoldsIs DEF CopyIsFaithful, Code, Data

LEMMA SlotIsReal ==
  ASSUME TypeOK, CopyIsFaithful, NEW sig \in Anchors, NEW a \in Addresses,
         SlotAt(sig, a) # Nowhere
  PROVE  SlotIs(sig, a, SlotAt(sig, a))
<1> USE ReadsFaithfully DEF Faithful
<1>1. CASE sig \in ThroughAccessor
  <2> DEFINE accessor == Code(a).ref
  <2>1. /\ InExecutable(accessor)
        /\ Code(accessor).sig = "accessor"
        /\ InWritable(Code(accessor).ref)
        /\ SlotAt(sig, a) = Code(accessor).ref
    BY <1>1 DEF SlotAt, AccessorSlot
  <2>2. accessor \in Addresses /\ Code(accessor).ref # Nowhere
    BY <2>1 DEF InExecutable, InWritable, ScannerAssumption
  <2>3. accessor = build.code[a].ref
    BY <2>2, ScannerAssumption DEF ScannerAssumption
  <2>4. /\ build.code[accessor].sig = "accessor"
        /\ build.code[accessor].ref = Code(accessor).ref
    BY <2>1, <2>2
  <2> QED
    BY <1>1, <2>1, <2>3, <2>4 DEF SlotIs
<1>2. CASE sig \notin ThroughAccessor
  <2>1. SlotAt(sig, a) = Code(a).ref /\ InWritable(Code(a).ref)
    BY <1>2 DEF SlotAt, DirectSlot
  <2> QED
    BY <1>2, <2>1 DEF SlotIs
<1> QED
  BY <1>1, <1>2

LEMMA AgreedIsReal ==
  ASSUME TypeOK, CopyIsFaithful, FoundIsReal, Agreed(rva, slot, tail)
  PROVE  LayoutIsReal
<1>1. /\ \A sig \in Anchors : rva[sig] # Nowhere
      /\ \A sig \in Anchors \ {"tick"} : slot[sig] # Nowhere
  BY DEF Agreed, Resolved
<1>2. \A sig \in Anchors : SiteIs(sig, rva[sig])
  BY <1>1 DEF FoundIsReal
<1>3. \A sig \in Anchors \ {"tick"} : SlotIs(sig, rva[sig], slot[sig])
  BY <1>1 DEF FoundIsReal
<1>4. /\ tail["enable"] = rva["create"] /\ tail["disable"] = rva["destroy"]
      /\ slot["enable"] = slot["disable"] /\ slot["create"] = slot["destroy"]
      /\ slot["enable"] # slot["create"]
  BY DEF Agreed, Agree
<1>5. /\ build.code[rva["enable"]].tail = rva["create"]
      /\ build.code[rva["disable"]].tail = rva["destroy"]
  BY <1>1, <1>4 DEF FoundIsReal, Anchors
<1>6. Live => build.slot[slot["dispatch"]] = rva["tick"]
  <2>1. slot["dispatch"] \in Slots /\ rva["tick"] # Nowhere
    BY <1>1, <1>3 DEF SlotIs, InWritable, Anchors, ScannerAssumption
  <2> QED
    BY <2>1, ReadsFaithfully DEF Agreed, DispatchCalls
<1> QED
  BY <1>2, <1>3, <1>4, <1>5, <1>6
  DEF LayoutIsReal, SiteIs, SlotIs, ThroughAccessor, Anchors

LEMMA RealInit == Init => Real
BY BlankIs DEF Init, Real, CopyIsFaithful, Faithful, FirstIsReal, FoundIsReal,
               ReportIsReal, SearchIsFresh, Nothing

LEMMA RealStep == TypeOK /\ Shape /\ Real /\ [Next]_vars => Real'
<1> SUFFICES ASSUME TypeOK, Shape, Real, [Next]_vars PROVE Real'
  OBVIOUS
<1> USE DEF vars, game, search, findings, report, history, Parsed, Search, Real, Shape, Rests
<1> DEFINE Idles ==
             /\ UNCHANGED <<source, build, copy, turn, first, rva, slot, tail, usable>>
             /\ pc' \in {"copy", "find", "check", "sample"} => pc' = pc
             /\ pc' = "begin" /\ source = "file" => pc = "begin"
<1>0. ASSUME Idles PROVE Real'
  <2>1. CopyIsFaithful' /\ FirstIsReal' /\ FoundIsReal'
    BY <1>0 DEF CopyIsFaithful, FirstIsReal, FoundIsReal, SiteIs, SlotIs, Signature,
                InExecutable, InWritable, Faithful
  <2>2. ReportIsReal' /\ SearchIsFresh'
    BY <1>0 DEF ReportIsReal, SearchIsFresh, LayoutIsReal, InExecutable, InWritable, Live
  <2> QED
    BY <2>1, <2>2
<1>1. CASE BeginPass
  <2>1. CopyIsFaithful'
    BY <1>1 DEF BeginPass, ScanActs, CopyIsFaithful, Faithful
  <2>2. FirstIsReal' /\ FoundIsReal'
    BY <1>1 DEF BeginPass, ScanActs, FirstIsReal, FoundIsReal, Nothing
  <2>3. ReportIsReal' /\ SearchIsFresh'
    BY <1>1 DEF BeginPass, ScanActs, ReportIsReal, SearchIsFresh
  <2> QED
    BY <2>1, <2>2, <2>3
<1>2. CASE CopyChunk
  <2>1. \A a \in Addresses : copy'.code[a] \in {copy.code[a], InMemory(a)}
    BY <1>2, CopyIs DEF CopyChunk, TypeOK
  <2>2. copy'.slot = copy.slot
    BY <1>2, CopyIs DEF CopyChunk, TypeOK
  <2>3. CopyIsFaithful'
    BY <1>2, <2>1, <2>2, MemoryIs DEF CopyChunk, ScanActs, CopyIsFaithful, Faithful
  <2>4. FirstIsReal' /\ FoundIsReal'
    BY <1>2 DEF CopyChunk, ScanActs, FirstIsReal, FoundIsReal, SiteIs, SlotIs,
                Signature, InExecutable, InWritable
  <2>5. ReportIsReal' /\ SearchIsFresh'
    BY <1>2 DEF CopyChunk, ScanActs, ReportIsReal, SearchIsFresh, LayoutIsReal,
                InExecutable, InWritable, Live
  <2> QED
    BY <2>3, <2>4, <2>5
<1>3. CASE CopyData
  <2>1. \A s \in Slots : copy'.slot[s] \in {copy.slot[s], SlotHolds(s)}
    BY <1>3, CopyIs DEF CopyData, TypeOK
  <2>2. copy'.code = copy.code
    BY <1>3, CopyIs DEF CopyData, TypeOK
  <2>3. CopyIsFaithful'
    BY <1>3, <2>1, <2>2, SlotHoldsIs DEF CopyData, ScanActs, CopyIsFaithful, Faithful
  <2>4. FirstIsReal' /\ FoundIsReal'
    BY <1>3 DEF CopyData, ScanActs, FirstIsReal, FoundIsReal, SiteIs, SlotIs,
                Signature, InExecutable, InWritable
  <2>5. ReportIsReal'
    BY <1>3 DEF CopyData, ScanActs, ReportIsReal, LayoutIsReal,
                InExecutable, InWritable, Live
  <2>6. SearchIsFresh'
    BY <1>3 DEF CopyData, ScanActs, SearchIsFresh
  <2> QED
    BY <2>3, <2>4, <2>5, <2>6
<1>4. CASE MapFile
  <2>1. \A a \in Addresses : copy'.code[a] \in {Blank, build.code[a]}
    BY <1>4, CopyIs DEF MapFile, TypeOK
  <2>2. copy'.slot = copy.slot
    BY <1>4, CopyIs DEF MapFile, TypeOK
  <2>3. CopyIsFaithful'
    BY <1>4, <2>1, <2>2, BlankIs DEF MapFile, ScanActs, CopyIsFaithful, Faithful
  <2>4. FirstIsReal' /\ FoundIsReal'
    BY <1>4 DEF MapFile, ScanActs, FirstIsReal, FoundIsReal, SiteIs, SlotIs,
                Signature, InExecutable, InWritable
  <2>5. ReportIsReal' /\ SearchIsFresh'
    BY <1>4 DEF MapFile, ScanActs, ReportIsReal, SearchIsFresh
  <2> QED
    BY <2>3, <2>4, <2>5
<1>5. CASE Look
  <2>1. Signature \in Anchors
    BY OrderIs DEF Signature, TypeOK
  <2>2. \A a \in Hits(chunk) : SiteIs(Signature, a)
    BY <2>1, ReadsFaithfully DEF Hits, Matches, SiteIs, Faithful, Anchors
  <2>3. first' # Nowhere => SiteIs(Signature, first')
    BY <1>5, <2>2, FirstIs DEF Look, FirstIsReal, FirstOf
  <2>4. FirstIsReal'
    BY <1>5, <2>3 DEF Look, ScanActs, FirstIsReal, SiteIs, Signature, InExecutable
  <2>5. CopyIsFaithful' /\ FoundIsReal'
    BY <1>5 DEF Look, ScanActs, CopyIsFaithful, Faithful, FoundIsReal, SiteIs, SlotIs,
                InExecutable, InWritable
  <2>6. ReportIsReal' /\ SearchIsFresh'
    BY <1>5 DEF Look, ScanActs, ReportIsReal, SearchIsFresh
  <2> QED
    BY <2>4, <2>5, <2>6
<1>6. CASE Resolve
  <2>1. Signature \in Anchors
    BY OrderIs DEF Signature, TypeOK
  <2> DEFINE site == IF several THEN Nowhere ELSE first
             led == IF site # Nowhere /\ Signature # "tick"
                    THEN SlotAt(Signature, site) ELSE Nowhere
             jump == IF led # Nowhere /\ Signature \in Bindings
                     THEN TailJump(site) ELSE Nowhere
  <2>2. site \in Sites
    BY DEF TypeOK, Sites
  <2>3. site # Nowhere => SiteIs(Signature, site)
    BY DEF FirstIsReal
  <2>4. led # Nowhere => site # Nowhere /\ SlotIs(Signature, site, led)
    BY <2>1, <2>2, SlotIsReal DEF Sites
  <2>5. jump # Nowhere => jump = build.code[site].tail
    BY <2>2, <2>4, ReadsFaithfully DEF Sites, TailJump, Faithful
  <2>6. /\ rva' = [rva EXCEPT ![Signature] = site]
        /\ slot' = [slot EXCEPT ![Signature] = led]
        /\ tail' = [tail EXCEPT ![Signature] = jump]
    BY <1>6 DEF Resolve
  <2> HIDE DEF site, led, jump
  <2>7. ASSUME NEW sig \in Anchors
        PROVE  /\ rva'[sig] # Nowhere => SiteIs(sig, rva'[sig])
               /\ slot'[sig] # Nowhere => SlotIs(sig, rva'[sig], slot'[sig])
               /\ tail'[sig] # Nowhere => tail'[sig] = build.code[rva'[sig]].tail
    <3>1. CASE sig = Signature
      <4>1. rva'[sig] = site /\ slot'[sig] = led /\ tail'[sig] = jump
        BY <2>6, <3>1 DEF TypeOK
      <4> QED
        BY <2>3, <2>4, <2>5, <3>1, <4>1
    <3>2. CASE sig # Signature
      <4>1. rva'[sig] = rva[sig] /\ slot'[sig] = slot[sig] /\ tail'[sig] = tail[sig]
        BY <2>6, <3>2 DEF TypeOK
      <4> QED
        BY <4>1 DEF FoundIsReal
    <3> QED
      BY <3>1, <3>2
  <2>8. FoundIsReal'
    <3>1. build' = build  BY <1>6 DEF Resolve, ScanActs
    <3>2. /\ \A sig, a : SiteIs(sig, a)' <=> SiteIs(sig, a)
          /\ \A sig, a, s : SlotIs(sig, a, s)' <=> SlotIs(sig, a, s)
      BY <3>1 DEF SiteIs, SlotIs, InExecutable, InWritable
    <3> QED  BY <2>7, <3>1, <3>2 DEF FoundIsReal
  <2>9. CopyIsFaithful' /\ FirstIsReal'
    BY <1>6 DEF Resolve, ScanActs, CopyIsFaithful, Faithful, FirstIsReal
  <2>10. ReportIsReal' /\ SearchIsFresh'
    BY <1>6 DEF Resolve, ScanActs, ReportIsReal, SearchIsFresh
  <2> QED
    BY <2>8, <2>9, <2>10
<1>7. CASE Check
  <2>1. CopyIsFaithful' /\ FirstIsReal' /\ FoundIsReal'
    BY <1>7 DEF Check, ScanActs, CopyIsFaithful, FirstIsReal, FoundIsReal, SiteIs,
                SlotIs, Signature, InExecutable, InWritable, Faithful
  <2>2. pc' = "sample" \/ usable => LayoutIsReal
    BY <1>7, AgreedIsReal DEF Check, ReportIsReal
  <2>3. LayoutIsReal => LayoutIsReal'
    BY <1>7 DEF Check, ScanActs, LayoutIsReal, InExecutable, InWritable, Live
  <2>4. ReportIsReal' /\ SearchIsFresh'
    BY <1>7, <2>2, <2>3 DEF Check, ScanActs, ReportIsReal, SearchIsFresh
  <2> QED
    BY <2>1, <2>4
<1>8. CASE Sample
  <2>1. CopyIsFaithful' /\ FirstIsReal' /\ FoundIsReal'
    BY <1>8 DEF Sample, ScanActs, CopyIsFaithful, FirstIsReal, FoundIsReal, SiteIs,
                SlotIs, Signature, InExecutable, InWritable, Faithful
  <2>2. LayoutIsReal'
    BY <1>8 DEF Sample, ScanActs, ReportIsReal, LayoutIsReal, InExecutable,
                InWritable, Live
  <2>3. ReportIsReal' /\ SearchIsFresh'
    BY <1>8, <2>2 DEF Sample, ScanActs, ReportIsReal, SearchIsFresh
  <2> QED
    BY <2>1, <2>3
<1>9. CASE PassFails \/ Install \/ LookAgain \/ RequestRescan
  BY <1>0, <1>9
  DEF PassFails, Install, LookAgain, RequestRescan, WorkerActs, ScanActs
<1>10. CASE (\E k \in Chunks : Decrypt(k)) \/ FillSlots
           \/ (\E a \in Shared : ForeignPatch(a) \/ ForeignRestore(a))
  BY <1>0, <1>10 DEF Decrypt, FillSlots, ForeignPatch, ForeignRestore, GameActs
<1>11. CASE UNCHANGED vars
  BY <1>0, <1>11
<1> QED
  BY <1>1, <1>2, <1>3, <1>4, <1>5, <1>6, <1>7, <1>8, <1>9, <1>10, <1>11
  DEF Next, Scan

-----------------------------------------------------------------------------
(* What is hooked.  FrameTick has not been patched since it was matched in  *)
(* this pass, or a tool has cut in.                                        *)

Reading == pc \in {"find", "check", "sample"}
FoundIsClean ==
  source = "module" /\ Reading =>
    /\ turn = 1 /\ pc = "find" => rva["tick"] = Nowhere
    /\ \A a \in Addresses : Matched(a) =>
         ChunkOf[a] \in decrypted /\ (~cutIn => a \notin patched)
SampleIsReal ==
  source = "module" /\ usable /\ ~cutIn => sample["tick"] = build.code[rva["tick"]]
OnlyToolsCopy == pc = "copy" => source # "module"
Untouched == FoundIsClean /\ SampleIsReal /\ OnlyToolsCopy

LEMMA UntouchedInit == Init => Untouched
BY DEF Init, Untouched, FoundIsClean, SampleIsReal, OnlyToolsCopy, Reading

LEMMA UntouchedStep ==
  TypeOK /\ Shape /\ Real /\ Untouched /\ [Next]_vars => Untouched'
<1> SUFFICES ASSUME TypeOK, Shape, Real, Untouched, [Next]_vars PROVE Untouched'
  OBVIOUS
<1> USE DEF vars, game, search, findings, report, history, Parsed, Search,
            Shape, Rests, Untouched, FoundIsClean, SampleIsReal, OnlyToolsCopy,
            Reading, Matched
<1>0. pc \in {"find", "check", "sample"} => ~usable
  BY DEF Real, SearchIsFresh
<1>1. CASE BeginPass
  <2>1. rva'["tick"] = Nowhere /\ first' = Nowhere /\ turn' = 1 /\ ~usable'
    BY <1>1 DEF BeginPass, Nothing, Anchors
  <2>2. \A a \in Addresses : ~Matched(a)'
    BY <1>1, <2>1 DEF BeginPass, ScannerAssumption
  <2> QED
    BY <1>1, <2>1, <2>2 DEF BeginPass, ScanActs
<1>2. CASE CopyChunk \/ CopyData \/ MapFile
  BY <1>2 DEF CopyChunk, CopyData, MapFile, ScanActs
<1>3. CASE Look
  <2>1. pc = "find" /\ pc' = pc /\ turn' = turn /\ rva' = rva /\ usable' = usable
        /\ cutIn' = cutIn /\ decrypted' = decrypted /\ patched' = patched
        /\ source' = source /\ sample' = sample /\ build' = build
        /\ first' = IF first = Nowhere THEN FirstOf(Hits(chunk)) ELSE first
    BY <1>3 DEF Look, ScanActs
  <2>2. turn = 1 => Signature = "tick"
    BY DEF Signature, Order
  <2>3. source = "module" /\ turn = 1 =>
          \A a \in Hits(chunk) : ChunkOf[a] \in decrypted /\ a \notin patched
    BY <2>2, MemoryIs DEF Hits, Matches, Code
  <2>4. source = "module" /\ turn = 1 /\ first' # Nowhere /\ first' # first =>
          ChunkOf[first'] \in decrypted /\ first' \notin patched
    BY <2>1, <2>3, FirstIs DEF FirstOf
  <2>5. FoundIsClean'
    BY <2>1, <2>4, ScannerAssumption DEF ScannerAssumption
  <2> QED
    BY <1>0, <2>1, <2>5
<1>4. CASE Resolve
  <2>1. Signature \in Anchors /\ (Signature = "tick" <=> turn = 1)
    <3>1. turn \in {1, 2, 3, 4, 5, 6, 7}
      BY DEF TypeOK
    <3> QED
      BY <3>1 DEF Signature, Order, Anchors
  <2>2. PICK site \in {Nowhere, first} : rva' = [rva EXCEPT ![Signature] = site]
    BY <1>4 DEF Resolve
  <2>3. rva'["tick"] = IF turn = 1 THEN site ELSE rva["tick"]
    BY <2>1, <2>2 DEF TypeOK, Anchors
  <2>4. /\ pc = "find" /\ UNCHANGED <<source, decrypted, patched, usable, cutIn>>
        /\ pc' = (IF turn = 7 THEN "check" ELSE "find")
        /\ turn' = (IF turn = 7 THEN 1 ELSE turn + 1)
    BY <1>4 DEF Resolve, ScanActs
  <2>5. ~(turn' = 1 /\ pc' = "find")
    BY <2>4 DEF TypeOK
  <2>6. \A a \in Addresses : Matched(a)' => Matched(a)
    BY <2>2, <2>3, <2>4, <2>5 DEF ScannerAssumption
  <2> QED
    BY <1>0, <2>4, <2>5, <2>6
<1>5. CASE Check
  BY <1>5 DEF Check, ScanActs
<1>6. CASE Sample
  <2>1. rva["tick"] \in Addresses
    BY <1>6 DEF Sample, Complete, Resolved, TypeOK, Sites, Anchors
  <2>2. source = "module" /\ ~cutIn => Code(rva["tick"]) = build.code[rva["tick"]]
    BY <1>6, <2>1, MemoryIs DEF Sample, Code
  <2>3. sample'["tick"] = Code(rva["tick"])
    BY <1>6 DEF Sample, Sampled
  <2> QED
    BY <1>6, <2>2, <2>3 DEF Sample, ScanActs
<1>7. CASE PassFails \/ Install \/ LookAgain \/ RequestRescan
  BY <1>7 DEF PassFails, Install, LookAgain, RequestRescan, WorkerActs, ScanActs
<1>8. ASSUME NEW k \in Chunks, Decrypt(k) PROVE Untouched'
  BY <1>8 DEF Decrypt, GameActs
<1>9. CASE FillSlots
  BY <1>9 DEF FillSlots, GameActs
<1>10. ASSUME NEW a \in Shared, ForeignPatch(a) PROVE Untouched'
  BY <1>0, <1>10 DEF ForeignPatch, GameActs
<1>11. ASSUME NEW a \in Shared, ForeignRestore(a) PROVE Untouched'
  BY <1>0, <1>11 DEF ForeignRestore, GameActs
<1>12. CASE UNCHANGED vars
  BY <1>12
<1> QED
  BY <1>1, <1>2, <1>3, <1>4, <1>5, <1>6, <1>7, <1>8, <1>9, <1>10, <1>11, <1>12
  DEF Next, Scan

-----------------------------------------------------------------------------
(* What a pass over a still image finds.  Before its second match the      *)
(* search has seen what the chunks it has looked at hold; a signature done *)
(* with has been resolved as the image then has it.                        *)

Still == steady \/ source # "module"
Seen(k) == {a \in Matches(Signature) : ChunkOf[a] < k}
SearchIsExact ==
  pc = "find" =>
    /\ several => \E a, b \in Matches(Signature) : a # b
    /\ ~several => Seen(chunk) = IF first = Nowhere THEN {} ELSE {first}
IsFound(sig, r, s, t) ==
  /\ r = IF OneMatch(sig) THEN The(sig) ELSE Nowhere
  /\ s = IF r # Nowhere /\ sig # "tick" THEN SlotAt(sig, r) ELSE Nowhere
  /\ t = IF s # Nowhere /\ sig \in Bindings THEN TailJump(r) ELSE Nowhere
Found(S) == \A sig \in S : IsFound(sig, rva[sig], slot[sig], tail[sig])
TurnsAreExact ==
  /\ pc = "find" => Found(Before(turn))
  /\ pc \in {"check", "sample"} => Found(Anchors)
  /\ pc = "done" /\ Parsed => Found(Anchors)
VerdictIsExact ==
  /\ pc = "sample" => Agreed(rva, slot, tail)
  /\ pc = "done" => (usable <=> Parsed /\ Agreed(rva, slot, tail))
Exact == Still => SearchIsExact /\ TurnsAreExact /\ VerdictIsExact

LEMMA ExactInit == Init => Exact
BY DEF Init, Exact, SearchIsExact, TurnsAreExact, VerdictIsExact

\* Where nothing is written everything is read as before.
LEMMA ReadsAsBefore ==
  ASSUME UNCHANGED <<source, build, decrypted, started, patched, copy>>
  PROVE  /\ \A sig : Matches(sig)' = Matches(sig)
         /\ \A sig : OneMatch(sig)' = OneMatch(sig)
         /\ \A sig : The(sig)' = The(sig)
         /\ \A sig, r, s, t : IsFound(sig, r, s, t)' = IsFound(sig, r, s, t)
         /\ \A r, s, t : Agreed(r, s, t)' = Agreed(r, s, t)
<1>1. \A a : Code(a)' = Code(a)
  BY DEF Code, InMemory
<1>2. \A s : Data(s)' = Data(s)
  BY DEF Data, SlotHolds
<1>3. \A sig : Matches(sig)' = Matches(sig)
  BY <1>1 DEF Matches, InExecutable
<1>4. \A sig : OneMatch(sig)' = OneMatch(sig) /\ The(sig)' = The(sig)
  BY <1>3 DEF OneMatch, The
<1>5. \A sig, a : SlotAt(sig, a)' = SlotAt(sig, a) /\ TailJump(a)' = TailJump(a)
  BY <1>1 DEF SlotAt, AccessorSlot, DirectSlot, InExecutable, InWritable, TailJump
<1>6. \A sig, r, s, t : IsFound(sig, r, s, t)' = IsFound(sig, r, s, t)
  BY <1>4, <1>5 DEF IsFound
<1>7. \A r, s, t : Agreed(r, s, t)' = Agreed(r, s, t)
  BY <1>2 DEF Agreed, Agree, Resolved, DispatchCalls, Live
<1> QED
  BY <1>3, <1>4, <1>6, <1>7

LEMMA ExactStep == TypeOK /\ Shape /\ Real /\ Exact /\ [Next]_vars => Exact'
<1> SUFFICES ASSUME TypeOK, Shape, Real, Exact, [Next]_vars, Still'
             PROVE SearchIsExact' /\ TurnsAreExact' /\ VerdictIsExact'
  BY DEF Exact
<1> USE DEF vars, game, search, findings, report, history, Parsed, Search, Shape, Rests, Still
<1>0. pc \in {"copy", "find", "check", "sample"} => ~usable
  BY DEF Real, SearchIsFresh
<1>e. source = "file" /\ pc = "begin" => ~usable
  BY DEF Real, SearchIsFresh
<1>a. ASSUME pc' = "find", turn' = 1, chunk' = 1, first' = Nowhere, ~several'
      PROVE SearchIsExact' /\ TurnsAreExact' /\ VerdictIsExact'
  <2>1. Seen(chunk)' = {}
    BY <1>a DEF Seen, Matches, Chunks, ScannerAssumption
  <2>2. Before(turn)' = {}
    BY <1>a, BeforeIs DEF Before
  <2> QED
    BY <1>a, <2>1, <2>2 DEF SearchIsExact, TurnsAreExact, VerdictIsExact, Found
<1>d. ASSUME ~Parsed, build' = build, pc' # "find", pc' # "check", pc' # "sample",
             ~usable'
      PROVE  SearchIsExact' /\ TurnsAreExact' /\ VerdictIsExact'
  BY <1>d DEF SearchIsExact, TurnsAreExact, VerdictIsExact
<1>1. CASE BeginPass
  <2>1. CASE source = "module" /\ Parsed
    BY <1>a, <1>1, <2>1 DEF BeginPass
  <2>2. CASE source # "module" \/ ~Parsed
    BY <1>1, <1>d, <2>2 DEF BeginPass, ScanActs, SearchIsExact, TurnsAreExact, VerdictIsExact
  <2> QED
    BY <2>1, <2>2
<1>2. CASE CopyChunk
  BY <1>2 DEF CopyChunk, SearchIsExact, TurnsAreExact, VerdictIsExact
<1>3. CASE CopyData
  BY <1>0, <1>a, <1>d, <1>3 DEF CopyData, ScanActs
<1>4. CASE MapFile
  BY <1>e, <1>a, <1>d, <1>4 DEF MapFile, ScanActs
<1>5. CASE Look
  <2>1. /\ UNCHANGED <<source, build, decrypted, started, patched, copy, turn,
                       rva, slot, tail, steady, pc>>
        /\ pc = "find" /\ ~several /\ chunk' = chunk + 1
    BY <1>5 DEF Look, ScanActs
  <2>2. Signature' = Signature /\ Before(turn)' = Before(turn)
    BY <2>1 DEF Signature, Before
  <2>3. Matches(Signature)' = Matches(Signature) /\ Found(Before(turn))'
    BY <2>1, <2>2, ReadsAsBefore DEF Exact, TurnsAreExact, Found
  <2> DEFINE hits == Hits(chunk)
             had == IF first = Nowhere THEN {} ELSE {first}
  <2>4. /\ Seen(chunk) = had
        /\ Seen(chunk)' = Seen(chunk) \cup hits
        /\ Seen(chunk) \subseteq Matches(Signature) /\ hits \subseteq Matches(Signature)
        /\ Nowhere \notin hits
    <3>1. Seen(chunk) = had
      BY <2>1 DEF Exact, SearchIsExact
    <3>2. \A a \in Addresses : ChunkOf[a] \in Nat
      BY DEF Chunks, ScannerAssumption
    <3>3. Seen(chunk)' = Seen(chunk) \cup hits
      <4>1. Seen(chunk)' = {a \in Matches(Signature) : ChunkOf[a] < chunk + 1}
        BY <2>1, <2>3 DEF Seen
      <4>2. chunk \in Nat /\ \A a \in Matches(Signature) : ChunkOf[a] \in Nat
        BY <3>2 DEF Matches, TypeOK
      <4>3. \A k, n \in Nat : k < n + 1 <=> k < n \/ k = n
        OBVIOUS
      <4> QED
        BY <4>1, <4>2, <4>3 DEF Seen, Hits
    <3> QED
      BY <3>1, <3>3 DEF Seen, Hits, Matches, ScannerAssumption
  <2>5. /\ first' = IF first = Nowhere THEN FirstOf(hits) ELSE first
        /\ several' = (hits \ {first'} # {})
    BY <1>5 DEF Look, MoreThan
  <2> HIDE DEF hits
  <2>6. CASE hits = {}
    <3>1. first' = first /\ ~several'
      BY <2>5, <2>6 DEF FirstOf
    <3> QED
      BY <2>1, <2>3, <2>4, <2>6, <3>1 DEF SearchIsExact, TurnsAreExact, VerdictIsExact
  <2>7. CASE hits # {}
    <3>1. first' \in Matches(Signature) /\ first' # Nowhere
          /\ had \subseteq {first'} /\ (first = Nowhere => first' \in hits)
      BY <2>4, <2>5, <2>7, FirstIs
    <3>2. several' => \E a, b \in Matches(Signature) : a # b
      BY <2>4, <2>5, <3>1
    <3>3. ~several' => Seen(chunk)' = {first'}
      BY <2>4, <2>5, <2>7, <3>1
    <3> QED
      BY <2>1, <2>2, <2>3, <3>1, <3>2, <3>3
      DEF SearchIsExact, TurnsAreExact, VerdictIsExact
  <2> QED
    BY <2>6, <2>7
<1>6. CASE Resolve
  <2>1. Signature \in Anchors /\ Signature \notin Before(turn)
        /\ Before(turn + 1) = Before(turn) \cup {Signature}
    BY OrderIs DEF Signature, TypeOK
  <2>2. /\ UNCHANGED <<source, build, decrypted, started, patched, copy, steady>>
        /\ pc = "find" /\ (several \/ chunk > LastChunk)
        /\ chunk' = 1 /\ first' = Nowhere /\ ~several'
        /\ turn' = (IF turn = 7 THEN 1 ELSE turn + 1)
        /\ pc' = (IF turn = 7 THEN "check" ELSE "find")
    BY <1>6 DEF Resolve, ScanActs
  <2>3. SearchIsExact /\ Found(Before(turn))
    BY <2>2 DEF Exact, TurnsAreExact
  <2> DEFINE site == IF several THEN Nowhere ELSE first
             led == IF site # Nowhere /\ Signature # "tick"
                    THEN SlotAt(Signature, site) ELSE Nowhere
             jump == IF led # Nowhere /\ Signature \in Bindings
                     THEN TailJump(site) ELSE Nowhere
  <2>4. site = IF OneMatch(Signature) THEN The(Signature) ELSE Nowhere
    <3>1. CASE several
      BY <2>2, <2>3, <3>1 DEF SearchIsExact, OneMatch
    <3>2. CASE ~several
      <4>1. Seen(chunk) = IF first = Nowhere THEN {} ELSE {first}
        BY <2>2, <2>3, <3>2 DEF SearchIsExact
      <4>2. Seen(chunk) = Matches(Signature)
        BY <2>2, <3>2 DEF Seen, Matches, Chunks, TypeOK, ScannerAssumption
      <4>3. CASE first = Nowhere
        BY <3>2, <4>1, <4>2, <4>3 DEF OneMatch
      <4>4. CASE first # Nowhere
        BY <3>2, <4>1, <4>2, <4>4 DEF OneMatch, The
      <4> QED
        BY <4>3, <4>4
    <3> QED
      BY <3>1, <3>2
  <2>5. /\ rva' = [rva EXCEPT ![Signature] = site]
        /\ slot' = [slot EXCEPT ![Signature] = led]
        /\ tail' = [tail EXCEPT ![Signature] = jump]
    BY <1>6 DEF Resolve
  <2>6. IsFound(Signature, site, led, jump)
    BY <2>4 DEF IsFound
  <2> HIDE DEF site, led, jump
  <2>7. ASSUME NEW sig \in Before(turn + 1), sig \in Anchors
        PROVE  IsFound(sig, rva'[sig], slot'[sig], tail'[sig])
    <3>1. CASE sig = Signature
      <4>1. rva'[sig] = site /\ slot'[sig] = led /\ tail'[sig] = jump
        BY <2>5, <2>7, <3>1 DEF TypeOK
      <4> QED
        BY <2>6, <3>1, <4>1
    <3>2. CASE sig # Signature
      <4>1. rva'[sig] = rva[sig] /\ slot'[sig] = slot[sig] /\ tail'[sig] = tail[sig]
        BY <2>5, <2>7, <3>2 DEF TypeOK
      <4>2. sig \in Before(turn)
        BY <2>1, <2>7, <3>2
      <4> QED
        BY <2>3, <4>1, <4>2 DEF Found
    <3> QED
      BY <3>1, <3>2
  <2>8. Before(turn + 1) \subseteq Anchors
    <3>1. \A i \in 1..7 : Order[i] \in Anchors
      BY OrderIs
    <3> QED
      BY <3>1 DEF Before, TypeOK
  <2>9. \A sig \in Before(turn + 1) : IsFound(sig, rva[sig], slot[sig], tail[sig])'
    BY <2>2, <2>7, <2>8, ReadsAsBefore
  <2>10. CASE turn = 7
    <3>1. Before(turn + 1) = Anchors
      BY <2>10, BeforeIs
    <3>2. Found(Anchors)'
      BY <2>9, <3>1 DEF Found, Anchors
    <3> QED
      BY <2>2, <2>10, <3>2 DEF SearchIsExact, TurnsAreExact, VerdictIsExact
  <2>11. CASE turn # 7
    <3>1. Seen(chunk)' = {}
      BY <2>2 DEF Seen, Matches, Chunks, ScannerAssumption
    <3>2. Before(turn)' = Before(turn + 1)
      BY <2>2, <2>11 DEF Before
    <3>3. Found(Before(turn))'
      BY <2>9, <3>2 DEF Found
    <3> QED
      BY <2>2, <2>11, <3>1, <3>3 DEF SearchIsExact, TurnsAreExact, VerdictIsExact
  <2> QED
    BY <2>10, <2>11
<1>b. ASSUME UNCHANGED <<source, build, decrypted, started, patched, copy, rva, slot, tail>>,
             Found(Anchors)
      PROVE  Found(Anchors)' /\ (Agreed(rva, slot, tail)' <=> Agreed(rva, slot, tail))
  BY <1>b, ReadsAsBefore DEF Found, Anchors
<1>7. CASE Check
  <2>1. Found(Anchors)' /\ (Agreed(rva, slot, tail)' <=> Agreed(rva, slot, tail))
    BY <1>b, <1>7 DEF Check, ScanActs, Exact, TurnsAreExact
  <2> QED
    BY <1>0, <1>7, <2>1
    DEF Check, ScanActs, SearchIsExact, TurnsAreExact, VerdictIsExact
<1>8. CASE Sample
  <2>1. Agreed(rva, slot, tail)
    BY <1>8 DEF Sample, ScanActs, Exact, VerdictIsExact
  <2>2. Found(Anchors)' /\ (Agreed(rva, slot, tail)' <=> Agreed(rva, slot, tail))
    BY <1>b, <1>8 DEF Sample, ScanActs, Exact, TurnsAreExact
  <2> QED
    BY <1>8, <2>1, <2>2 DEF Sample, ScanActs, SearchIsExact, TurnsAreExact, VerdictIsExact
<1>9. CASE PassFails \/ Install \/ LookAgain
  BY <1>9 DEF PassFails, Install, LookAgain, SearchIsExact, TurnsAreExact,
              VerdictIsExact
<1>c. ASSUME UNCHANGED <<source, build, decrypted, started, patched, copy, pc, turn,
                         chunk, first, several, rva, slot, tail, usable, steady>>
      PROVE  SearchIsExact' /\ TurnsAreExact' /\ VerdictIsExact'
  <2>1. SearchIsExact /\ TurnsAreExact /\ VerdictIsExact
    BY <1>c DEF Exact
  <2>2. Signature' = Signature /\ Before(turn)' = Before(turn)
    BY <1>c DEF Signature, Before
  <2>3. Matches(Signature)' = Matches(Signature)
    BY <1>c, <2>2, ReadsAsBefore
  <2>4. SearchIsExact'
    BY <1>c, <2>1, <2>2, <2>3 DEF SearchIsExact, Seen
  <2>5. TurnsAreExact'
    BY <1>c, <2>1, <2>2, ReadsAsBefore DEF TurnsAreExact, Found, Anchors
  <2>6. VerdictIsExact'
    BY <1>c, <2>1, ReadsAsBefore DEF VerdictIsExact
  <2> QED
    BY <2>4, <2>5, <2>6
<1>10. CASE RequestRescan
  BY <1>c, <1>10 DEF RequestRescan, WorkerActs, ScanActs
<1>11. ASSUME GameActs PROVE pc' \in {"begin", "copy"}
  BY <1>11 DEF GameActs, GameIsRead
<1>12. CASE (\E k \in Chunks : Decrypt(k)) \/ FillSlots
           \/ (\E a \in Shared : ForeignPatch(a) \/ ForeignRestore(a))
  <2>1. pc' \in {"begin", "copy"}
    BY <1>11, <1>12 DEF Decrypt, FillSlots, ForeignPatch, ForeignRestore
  <2> QED
    BY <2>1 DEF SearchIsExact, TurnsAreExact, VerdictIsExact
<1>13. CASE UNCHANGED vars
  BY <1>c, <1>13
<1> QED
  BY <1>1, <1>2, <1>3, <1>4, <1>5, <1>6, <1>7, <1>8, <1>9, <1>10, <1>12, <1>13
  DEF Next, Scan

\* Where every signature has been resolved as the image has it, the report
\* agrees with itself exactly if the build is supported.
LEMMA VerdictIsSupported ==
  ASSUME TypeOK, Parsed, Found(Anchors)
  PROVE  /\ Agreed(rva, slot, tail) <=> Supported
         /\ Supported => rva = RefRva /\ slot = RefSlot
<1>1. \A sig \in Anchors : IsFound(sig, rva[sig], slot[sig], tail[sig])
  BY DEF Found
<1>2. ASSUME \A sig \in Anchors : OneMatch(sig)
      PROVE  rva = RefRva /\ slot = RefSlot
  <2>1. \A sig \in Anchors : rva[sig] = The(sig) /\ The(sig) # Nowhere
    BY <1>1, <1>2 DEF IsFound, OneMatch, The, Matches, ScannerAssumption
  <2>2. \A sig \in Anchors :
          slot[sig] = IF sig = "tick" THEN Nowhere ELSE SlotAt(sig, The(sig))
    BY <1>1, <2>1 DEF IsFound
  <2> QED
    BY <2>1, <2>2 DEF RefRva, RefSlot, TypeOK
<1>3. ASSUME \A sig \in Anchors : OneMatch(sig), Resolved(RefRva, RefSlot)
      PROVE  tail = RefTail
  <2>1. rva = RefRva /\ slot = RefSlot
    BY <1>2, <1>3
  <2>2. \A sig \in Anchors :
          tail[sig] = IF sig \in Bindings THEN TailJump(The(sig)) ELSE Nowhere
    BY <1>1, <1>3, <2>1 DEF IsFound, Resolved, RefRva, Bindings
  <2> QED
    BY <2>2 DEF RefTail, TypeOK
<1>4. ASSUME Agreed(rva, slot, tail) PROVE Supported
  <2>1. Resolved(rva, slot)
    BY <1>4 DEF Agreed
  <2>2. \A sig \in Anchors : OneMatch(sig)
    BY <1>1, <2>1 DEF IsFound, Resolved
  <2> QED
    BY <1>2, <1>3, <1>4, <2>1, <2>2 DEF Supported
<1>5. ASSUME Supported
      PROVE  Agreed(rva, slot, tail) /\ rva = RefRva /\ slot = RefSlot
  <2>1. Resolved(RefRva, RefSlot)
    BY <1>5 DEF Supported, Agreed
  <2> QED
    BY <1>2, <1>3, <1>5, <2>1 DEF Supported
<1> QED
  BY <1>4, <1>5

-----------------------------------------------------------------------------
(* The theorems.                                                           *)

SInv == TypeOK /\ Shape /\ Real

LEMMA AlwaysReal == Spec => []SInv
<1>1. Init => SInv
  BY TypeInit, RealInit DEF SInv
<1>2. SInv /\ [Next]_vars => SInv'
  BY TypeStep, RealStep DEF SInv
<1> QED
  BY <1>1, <1>2, PTL DEF Spec

\* Every variable keeps its type, whichever image is scanned.
THEOREM TypeCorrect == Spec => []TypeOK
<1>1. SInv => TypeOK
  BY DEF SInv
<1> QED
  BY <1>1, AlwaysReal, PTL

\* A usable report is true of the build (tools_menu_scan.cpp:258-316), however
\* the image changes while its signatures are looked for one after the other.
THEOREM LayoutReal == Spec => []LayoutHolds
<1>1. SInv => LayoutHolds
  BY DEF SInv, Real, ReportIsReal, LayoutHolds
<1> QED
  BY <1>1, AlwaysReal, PTL

\* A pass over an image that holds still is usable exactly if the build is
\* supported, and then names just its places (tools_menu_scan.cpp:97-119,
\* pattern.cpp:58-87).
THEOREM StablePassExact == Spec => []StablePassIsExact
<1> DEFINE EInv == SInv /\ Exact
<1>1. Init => EInv
  BY TypeInit, RealInit, ExactInit DEF SInv
<1>2. EInv /\ [Next]_vars => EInv'
  BY TypeStep, RealStep, ExactStep DEF SInv
<1>3. EInv => StablePassIsExact
  <2> SUFFICES ASSUME EInv, pc = "done", Still
               PROVE (usable <=> Supported) /\ (usable => rva = RefRva /\ slot = RefSlot)
    BY DEF StablePassIsExact, Still
  <2>1. /\ Parsed => Found(Anchors)
        /\ usable <=> Parsed /\ Agreed(rva, slot, tail)
    BY DEF Exact, TurnsAreExact, VerdictIsExact
  <2>2. CASE Parsed
    BY <2>1, <2>2, VerdictIsSupported DEF SInv
  <2>3. CASE ~Parsed
    BY <2>1, <2>3 DEF Supported
  <2> QED
    BY <2>2, <2>3
<1> QED
  BY <1>1, <1>2, <1>3, PTL DEF Spec

\* The hook goes in over the game's own FrameTick and nothing else
\* (frame_hook.cpp:283-289), unless another tool has hooked it between its match
\* and its sample.
THEOREM OnlyTheSignatureIsHooked == Spec => HooksOnlyTheSignature
<1> DEFINE HInv == SInv /\ Untouched
<1>1. Init => HInv
  BY TypeInit, RealInit, UntouchedInit DEF SInv
<1>2. HInv /\ [Next]_vars => HInv'
  BY TypeStep, RealStep, UntouchedStep DEF SInv
<1>3. HInv /\ [Next]_vars =>
        [(hooked' /\ ~hooked /\ ~cutIn) =>
           /\ InMemory(rva["tick"]) = build.code[rva["tick"]]
           /\ build.code[rva["tick"]].sig = "tick"]_vars
  <2> SUFFICES ASSUME HInv, [Next]_vars, hooked', ~hooked, ~cutIn
               PROVE  /\ InMemory(rva["tick"]) = build.code[rva["tick"]]
                      /\ build.code[rva["tick"]].sig = "tick"
    OBVIOUS
  <2>1. Install
    BY DEF Next, Scan, BeginPass, CopyChunk, CopyData, MapFile, Look, Resolve, Check,
           Sample, PassFails, LookAgain, RequestRescan, WorkerActs, Decrypt, FillSlots,
           ForeignPatch, ForeignRestore, GameActs, vars
  <2>2. source = "module" /\ usable /\ Code(rva["tick"]) = sample["tick"]
    BY <2>1 DEF Install, WorkerActs, SampleMatches
  <2>3. LayoutIsReal /\ sample["tick"] = build.code[rva["tick"]]
    BY <2>2 DEF SInv, Real, ReportIsReal, Untouched, SampleIsReal
  <2> QED
    BY <2>2, <2>3 DEF Code, LayoutIsReal, Anchors
<1> QED
  BY <1>1, <1>2, <1>3, PTL DEF Spec, HooksOnlyTheSignature

-----------------------------------------------------------------------------
(* How long a pass takes.                                                  *)

\* One look at each chunk and one decision for each signature, with the copy
\* before them and the checks after them.
Round == LastChunk + 1
ChunksLeft == LastChunk + 2 - chunk
RoundsLeft == (7 - turn) * Round
PassLeft ==
  IF pc = "begin" THEN 4 + 8 * Round
  ELSE IF pc = "copy" THEN 3 + 7 * Round + ChunksLeft
  ELSE IF pc = "find" THEN 3 + RoundsLeft + ChunksLeft
  ELSE IF pc = "check" THEN 3
  ELSE IF pc = "sample" THEN 2
  ELSE IF pc = "done" THEN 1
  ELSE 0

\* A new pass begins only after one that failed, or after a request.
PassIsBounded ==
  [][IF Scan THEN PassLeft' < PassLeft \/ PassFails \/ LookAgain
             ELSE PassLeft' = PassLeft]_vars

LEMMA RoundIs ==
  ASSUME TypeOK
  PROVE  /\ Round \in Nat /\ Round >= 1
         /\ ChunksLeft \in 1..Round
         /\ RoundsLeft \in 0..(6 * Round)
         /\ turn = 1 => RoundsLeft = 6 * Round
         /\ turn = 7 => RoundsLeft = 0
         /\ turn < 7 => RoundsLeft = (6 - turn) * Round + Round
<1>1. Round \in Nat /\ Round >= 1 /\ chunk \in 1..Round /\ turn \in 1..7
  BY DEF TypeOK, Round
<1>2. ChunksLeft \in 1..Round  BY <1>1 DEF ChunksLeft, Round
<1>3. \A r \in Nat : 0 * r = 0 /\ 1 * r = r  OBVIOUS
<1>4. \/ turn = 1 /\ 7 - turn = 6 /\ 6 - turn = 5
      \/ turn = 2 /\ 7 - turn = 5 /\ 6 - turn = 4
      \/ turn = 3 /\ 7 - turn = 4 /\ 6 - turn = 3
      \/ turn = 4 /\ 7 - turn = 3 /\ 6 - turn = 2
      \/ turn = 5 /\ 7 - turn = 2 /\ 6 - turn = 1
      \/ turn = 6 /\ 7 - turn = 1 /\ 6 - turn = 0
      \/ turn = 7 /\ 7 - turn = 0
  BY <1>1
<1>5. /\ RoundsLeft \in 0..(6 * Round)
      /\ turn = 1 => RoundsLeft = 6 * Round
      /\ turn = 7 => RoundsLeft = 0
      /\ turn < 7 => RoundsLeft = (6 - turn) * Round + Round
  BY <1>1, <1>3, <1>4 DEF RoundsLeft
<1> QED  BY <1>1, <1>2, <1>5

LEMMA PassLeftBounds ==
  ASSUME TypeOK
  PROVE  PassLeft \in 0..(4 + 8 * Round)
<1>1. pc \in {"begin", "copy", "find", "check", "sample", "done", "parked", "ready"}
  BY DEF TypeOK
<1> QED
  BY <1>1, RoundIs DEF PassLeft

LEMMA ScanUsesSteps ==
  ASSUME TypeOK, Shape, TypeOK', Scan
  PROVE  PassLeft' < PassLeft \/ PassFails \/ LookAgain
<1>0. /\ Round \in Nat /\ Round >= 1 /\ Round' = Round
      /\ ChunksLeft \in 1..Round
      /\ RoundsLeft \in 0..(6 * Round)
      /\ turn = 1 => RoundsLeft = 6 * Round
      /\ turn = 7 => RoundsLeft = 0
      /\ turn < 7 => RoundsLeft = (6 - turn) * Round + Round
      /\ pc # "find" => turn = 1
      /\ turn \in 1..7 /\ chunk \in 1..(LastChunk + 1)
  BY RoundIs DEF Round, Shape, Rests, TypeOK
<1> USE DEF PassLeft
<1>1. CASE BeginPass
  <2>1. pc = "begin" /\ pc' \in {"find", "copy", "done"} /\ turn' = 1 /\ chunk' = 1
    BY <1>1 DEF BeginPass, Search, search, Shape, Rests
  <2>2. ChunksLeft' = Round /\ RoundsLeft' = 6 * Round
    BY <1>0, <2>1 DEF ChunksLeft, RoundsLeft, Round
  <2> QED  BY <1>0, <2>1, <2>2
<1>2. CASE CopyChunk
  <2>1. pc = "copy" /\ pc' = pc /\ chunk' = chunk + 1  BY <1>2 DEF CopyChunk
  <2>2. ChunksLeft' = ChunksLeft - 1  BY <1>0, <2>1 DEF ChunksLeft
  <2> QED  BY <1>0, <2>1, <2>2
<1>3. CASE CopyData
  <2>1. pc = "copy" /\ pc' \in {"find", "done"} /\ chunk' = 1 /\ turn' = 1
    BY <1>0, <1>3 DEF CopyData, Search
  <2>2. ChunksLeft' = Round /\ RoundsLeft' = 6 * Round
    BY <1>0, <2>1 DEF ChunksLeft, RoundsLeft, Round
  <2> QED  BY <1>0, <2>1, <2>2
<1>4. CASE MapFile
  <2>1. pc = "begin" /\ pc' \in {"find", "done"} /\ turn' = 1 /\ chunk' = 1
    BY <1>4 DEF MapFile, Search, search, Shape, Rests
  <2>2. ChunksLeft' = Round /\ RoundsLeft' = 6 * Round
    BY <1>0, <2>1 DEF ChunksLeft, RoundsLeft, Round
  <2> QED  BY <1>0, <2>1, <2>2
<1>5. CASE Look
  <2>1. pc = "find" /\ pc' = pc /\ chunk' = chunk + 1 /\ turn' = turn
    BY <1>5 DEF Look
  <2>2. ChunksLeft' = ChunksLeft - 1 /\ RoundsLeft' = RoundsLeft
    BY <1>0, <2>1 DEF ChunksLeft, RoundsLeft
  <2> QED  BY <1>0, <2>1, <2>2
<1>6. CASE Resolve
  <2>1. pc = "find" /\ chunk' = 1
        /\ turn' = (IF turn = 7 THEN 1 ELSE turn + 1)
        /\ pc' = (IF turn = 7 THEN "check" ELSE "find")
    BY <1>6 DEF Resolve
  <2>2. CASE turn = 7  BY <1>0, <2>1, <2>2
  <2>3. CASE turn # 7
    <3>1. turn' = turn + 1 /\ turn < 7 /\ 7 - turn' = 6 - turn  BY <1>0, <2>1, <2>3
    <3>2. RoundsLeft = RoundsLeft' + Round  BY <1>0, <3>1 DEF RoundsLeft
    <3>3. ChunksLeft' = Round  BY <1>0, <2>1 DEF ChunksLeft, Round
    <3>4. RoundsLeft' \in Nat  BY <1>0, <3>1 DEF RoundsLeft
    <3>5. PassLeft = 3 + RoundsLeft + ChunksLeft  BY <2>1
    <3>6. PassLeft' = 3 + RoundsLeft' + Round  BY <2>1, <2>3, <3>3
    <3> HIDE DEF PassLeft
    <3>7. Round \in Nat /\ ChunksLeft \in Nat /\ ChunksLeft >= 1  BY <1>0
    <3>8. PassLeft = 3 + (RoundsLeft' + Round) + ChunksLeft  BY <3>2, <3>5
    <3>9. \A a, r, c \in Nat : c >= 1 => 3 + a + r < 3 + (a + r) + c  OBVIOUS
    <3>10. PassLeft' < PassLeft  BY <3>4, <3>6, <3>7, <3>8, <3>9
    <3> QED  BY <3>10
  <2> QED  BY <2>2, <2>3
<1>7. CASE Check  BY <1>7 DEF Check
<1>8. CASE Sample  BY <1>8 DEF Sample
<1>9. CASE Install
  <2>1. pc = "done" /\ pc' \in {"ready", "parked"}  BY <1>9 DEF Install
  <2> QED  BY <2>1
<1> QED
  BY <1>1, <1>2, <1>3, <1>4, <1>5, <1>6, <1>7, <1>8, <1>9 DEF Scan

LEMMA OthersLeavePass ==
  ASSUME [Next]_vars, ~Scan
  PROVE  PassLeft' = PassLeft
<1>1. UNCHANGED <<pc, turn, chunk>>
  BY DEF Next, RequestRescan, WorkerActs, Decrypt, FillSlots, ForeignPatch,
         ForeignRestore, GameActs, search, vars
<1> QED
  BY <1>1 DEF PassLeft, ChunksLeft, RoundsLeft, Round

\* A pass is over after a number of steps that is linear in the chunks of the
\* image (pattern.cpp:58-87, tools_menu_scan.cpp:97-119), and what the game, its
\* startup and other tools do to the image meanwhile makes it no longer.
THEOREM BoundedPass ==
  Spec => [](PassLeft \in 0..(4 + 8 * Round)) /\ PassIsBounded
<1>1. SInv => PassLeft \in 0..(4 + 8 * Round)
  BY PassLeftBounds DEF SInv
<1>2. SInv /\ SInv' /\ [Next]_vars =>
        [IF Scan THEN PassLeft' < PassLeft \/ PassFails \/ LookAgain
                 ELSE PassLeft' = PassLeft]_vars
  BY ScanUsesSteps, OthersLeavePass DEF SInv
<1> QED
  BY <1>1, <1>2, AlwaysReal, PTL DEF Spec, PassIsBounded

=============================================================================
