------------------------------ MODULE Recovery ------------------------------
(***************************************************************************)
(* Opening a device step by step (engine/recovery.rs): both superblocks,   *)
(* then for every slot the allocation header, the tail page, and either    *)
(* the footer or a scan of the frames.  Before a slot is read its past is  *)
(* played: a builder fills it and maybe seals it, and then any of its      *)
(* pages may turn out damaged.  Reads that fail end the open in Engine.    *)
(***************************************************************************)
EXTENDS Segment

CONSTANTS
    SegmentCount,
    Capacity,           \* Layout.capacity, which the slots need not fill
    MaxFrameLen,        \* limits.max_frame_len of the layout
    Owners,             \* what may open it: [capacity, routes, frame_bytes], the device's bytes,
                        \* the segments metadata_bytes can route, and the largest frame buffer
    Shapes,             \* the frames writers build: [len, metadata]
    MetadataBytes,      \* resources.metadata_bytes
    IndexFrames,        \* frames whose entries the index can hold
    ValidateLen,        \* bytes FooterValidator checks in one step
    None

ASSUME RecoveryAssumption ==
    /\ SegmentCount \in Nat \ {0} /\ MetadataBytes \in Nat /\ IndexFrames \in Nat
    /\ ValidateLen \in Nat \ {0}
    /\ \A shape \in Shapes : ValidShape(shape) /\ shape.len <= MaxFrameLen
    /\ Capacity \in Nat /\ Capacity >= 2 * PAGE_SIZE + SegmentCount * SegmentLen
    /\ Owners \subseteq [capacity : Nat, routes : Nat, frame_bytes : Nat]

\* What decoding a page or a frame says.  A torn frame has a valid header and a bad body.
FrameStates == {"ok", "torn", "lost", "unsupported"}
FooterStates == {"ok", "damaged", "unsupported"}
HeaderStates == {"zero", "ok", "bad"}
TailStates == {"zero", "torn", "unsupported", "older", "same", "foreign"}
SuperStates == {"none", "layout", "other", "unsupported"}

VARIABLES
    owner,              \* who opens the device, never changes
    stage,
    found,              \* the layout the superblocks gave
    number,
    slot,               \* the pages of slot `number': header, tail, footer, frames
    builder, chunk,     \* what its owner had built; how much of the footer is encoded
    seal,               \* the header's sealed view, or None
    scan,               \* cursor of Scanner, FooterValidator and Restore
    checked,            \* FooterValidator: bytes summed so far
    restored,           \* frames of this slot given to the index
    indexed             \* frames in the index from earlier slots

ownerVars == <<slot, builder, chunk>>
vars == <<owner, stage, found, number, ownerVars, seal, scan, checked, restored, indexed>>

EmptySlot == [header |-> "zero", tail |-> "zero", footer |-> "ok", frames |-> <<>>]

Init ==
    /\ owner \in Owners
    /\ stage = "SuperA" /\ found = None
    /\ number = 0 /\ slot = EmptySlot /\ builder = NewBuilder /\ chunk = 0
    /\ seal = None /\ scan = NewBuilder /\ checked = 0 /\ restored = <<>> /\ indexed = 0

Goto(next) == stage' = next

(***************************************************************************)
(* The slot's past                                                         *)
(***************************************************************************)
Fill(shape) ==
    /\ stage = "Fill" /\ Fits(builder, shape)
    /\ builder' = AppendFrame(builder, shape)
    /\ slot' = [slot EXCEPT !.frames =
                    Append(@, [offset |-> builder.data_end, len |-> shape.len,
                               metadata |-> shape.metadata, state |-> "ok"])]
    /\ UNCHANGED <<stage, found, number, chunk, seal, scan, checked, restored, indexed>>

BeginSeal ==
    /\ stage = "Fill" /\ Goto("Encode")
    /\ UNCHANGED <<found, number, ownerVars, seal, scan, checked, restored, indexed>>

EncodeChunk ==
    /\ stage = "Encode"
    /\ LET next == NextChunk(builder, chunk)
       IN  /\ chunk' = chunk + next.size
           /\ IF next.last THEN Goto("Sealed") ELSE UNCHANGED stage
    /\ UNCHANGED <<found, number, slot, builder, seal, scan, checked, restored, indexed>>

\* Which tail pages the owner can have left behind, undamaged or not.
Tails == IF stage = "Sealed" THEN {"same", "torn", "unsupported", "foreign"}
                             ELSE {"zero", "torn", "older"}

\* The owner is gone; what it wrote reads back well or not, and frame `hole' reads as `state'.
Found(header, tail, footer, hole, state) ==
    /\ stage \in {"Fill", "Sealed"}
    /\ tail \in Tails
    /\ header = "zero" => builder = NewBuilder
    /\ stage = "Fill" => footer = "ok"
    /\ slot' = [header |-> header, tail |-> tail, footer |-> footer,
                frames |-> [i \in DOMAIN slot.frames |->
                                IF i = hole THEN [slot.frames[i] EXCEPT !.state = state]
                                ELSE slot.frames[i]]]
    /\ Goto("Header")
    /\ UNCHANGED <<found, number, builder, chunk, seal, scan, checked, restored, indexed>>

(***************************************************************************)
(* Superblocks                                                             *)
(***************************************************************************)
Fail == Goto("failed") /\ UNCHANGED <<found, number, ownerVars, seal, scan, checked, restored, indexed>>

superblock(state, then) ==
    IF state = "unsupported" \/ (found # None /\ state \notin {"none", found})
    THEN Fail
    ELSE /\ found' = IF state = "none" THEN found ELSE state
         /\ Goto(then)
         /\ UNCHANGED <<number, ownerVars, seal, scan, checked, restored, indexed>>

SuperA == stage = "SuperA" /\ \E state \in SuperStates : superblock(state, "SuperB")

SuperB == stage = "SuperB" /\ \E state \in SuperStates : superblock(state, "Layout")

Truncated == owner.capacity < Capacity
OutOfReach == SegmentCount > owner.routes \/ MaxFrameLen > owner.frame_bytes

\* A device shorter than its layout is refused, and so is a layout beyond the owner's resources.
Layout ==
    /\ stage = "Layout"
    /\ IF found = None \/ Truncated \/ OutOfReach THEN Fail
       ELSE Goto("Fill") /\ UNCHANGED <<found, number, ownerVars, seal, scan, checked, restored, indexed>>

(***************************************************************************)
(* One slot                                                                *)
(***************************************************************************)
NextSlot ==
    /\ number' = number + 1
    /\ Goto(IF number + 1 = SegmentCount THEN "done" ELSE "Fill")
    /\ slot' = EmptySlot /\ builder' = NewBuilder /\ chunk' = 0
    /\ seal' = None /\ scan' = NewBuilder /\ checked' = 0
    /\ restored' = <<>> /\ indexed' = indexed + Len(restored)
    /\ UNCHANGED found

StartScan(then) == scan' = NewBuilder /\ Goto(then)

\* Slots whose footer is too large to hold in memory are scanned.
FooterUsable(s) == s # None /\ footer_len(s.metadata_len) <= MetadataBytes

\* A trailer of this generation seals the slot; an older or a broken one is ignored.
SealOf == IF slot.tail = "same" THEN builder ELSE None

HeaderAndTail ==
    /\ stage = "Header"
    /\ IF slot.header = "zero" /\ slot.tail = "zero" THEN NextSlot
       ELSE IF slot.header \in {"zero", "bad"} \/ slot.tail \in {"unsupported", "foreign"}
       THEN Fail
       ELSE /\ seal' = SealOf
            /\ StartScan(IF FooterUsable(SealOf) THEN "FooterValidate" ELSE "Scan")
            /\ UNCHANGED <<found, number, ownerVars, checked, restored, indexed>>

\* The frame whose header is on the page at the cursor, if any was ever written there.
At(cursor) == {i \in DOMAIN slot.frames : slot.frames[i].offset = cursor.data_end}

\* The checksum of the whole footer first, then its frames one at a time.
FooterValidate ==
    /\ stage = "FooterValidate"
    /\ LET len == footer_len(seal.metadata_len)
           end == IF checked + ValidateLen < len THEN checked + ValidateLen ELSE len
       IN  IF checked < len
           THEN /\ checked' = end
                /\ IF end = len /\ slot.footer = "damaged" THEN StartScan("Scan")
                   ELSE UNCHANGED <<stage, scan>>
                /\ UNCHANGED <<found, number, ownerVars, seal, restored, indexed>>
           ELSE IF scan.frame_count = seal.frame_count
           THEN /\ IF scan = seal THEN StartScan("Restore") ELSE StartScan("Scan")
                /\ UNCHANGED <<found, number, ownerVars, seal, checked, restored, indexed>>
           ELSE IF slot.footer = "unsupported" THEN Fail
           ELSE /\ \E i \in At(scan) : scan' = AppendFrame(scan, slot.frames[i])
                /\ UNCHANGED <<stage, found, number, ownerVars, seal, checked, restored, indexed>>

\* pipeline.restore; it fails when the index is full.
RestoreFrame(i, then) ==
    IF indexed + Len(restored) = IndexFrames THEN Fail
    ELSE /\ restored' = Append(restored, i)
         /\ scan' = AppendFrame(scan, slot.frames[i])
         /\ Goto(then)
         /\ UNCHANGED <<found, number, ownerVars, seal, checked, indexed>>

Restore ==
    /\ stage = "Restore"
    /\ IF scan.data_end = seal.data_end THEN NextSlot
       ELSE \E i \in At(scan) : RestoreFrame(i, "Restore")

AtEnd == IF seal = None THEN ActiveAtEnd(scan) ELSE scan.data_end = seal.data_end
ScanLimit == IF seal = None THEN SegmentLen ELSE seal.data_end

RejectUnsealed(unsupported) == Fail

\* A bad frame ends an unsealed slot; in a sealed one, or if its version is unknown, it is
\* an error.
Reject(unsupported) == IF seal # None \/ unsupported THEN Fail ELSE NextSlot

HeaderDecodes(i) ==
    slot.frames[i].state \in {"ok", "torn"} /\ HeaderFits(scan, slot.frames[i], ScanLimit)

FrameDecodes(i) ==
    /\ slot.frames[i].state = "ok"
    /\ LeavesFooter(scan, slot.frames[i])
    /\ seal # None => SummaryAgrees(scan, slot.frames[i], seal)

\* ScanHeader reads the first page of the candidate and ScanBody the rest.
Scan ==
    /\ stage = "Scan"
    /\ IF AtEnd THEN NextSlot
       ELSE \/ /\ At(scan) = {}
               /\ Reject(FALSE)
            \/ \E i \in At(scan) :
                 IF ~HeaderDecodes(i) THEN Reject(slot.frames[i].state = "unsupported")
                 ELSE IF FrameDecodes(i) THEN RestoreFrame(i, "Scan") ELSE Reject(FALSE)

Ended == stage \in {"done", "failed"} /\ UNCHANGED vars

Past ==
    \/ \E shape \in Shapes : Fill(shape)
    \/ BeginSeal \/ EncodeChunk
    \/ \E header \in HeaderStates, tail \in TailStates, footer \in FooterStates,
          hole \in DOMAIN slot.frames \cup {0}, state \in FrameStates :
            Found(header, tail, footer, hole, state)

Step == SuperA \/ SuperB \/ Layout \/ HeaderAndTail \/ FooterValidate \/ Restore \/ Scan

Next == (Past \/ Step \/ Ended) /\ UNCHANGED owner

Spec == Init /\ [][Next]_vars

(***************************************************************************)
(* What recovery of the slot should find, said without cursors or stages   *)
(***************************************************************************)
BadFrames == {i \in DOMAIN slot.frames : slot.frames[i].state # "ok"}
FirstBad == CHOOSE i \in BadFrames : \A j \in BadFrames : i <= j
IsSealed == slot.header = "ok" /\ slot.tail = "same"
FooterRead == IsSealed /\ footer_len(builder.metadata_len) <= MetadataBytes

MustRefuse ==
    \/ slot.header = "bad" \/ (slot.header = "zero" /\ slot.tail # "zero")
    \/ slot.tail \in {"unsupported", "foreign"}
    \/ FooterRead /\ slot.footer = "unsupported" /\ slot.frames # <<>>
    \/ IsSealed /\ ~(FooterRead /\ slot.footer = "ok") /\ BadFrames # {}
    \/ ~IsSealed /\ BadFrames # {} /\ slot.frames[FirstBad].state = "unsupported"

ExpectedFrames ==
    IF IsSealed \/ BadFrames = {} THEN Len(slot.frames) ELSE FirstBad - 1

(***************************************************************************)
(* Properties                                                              *)
(***************************************************************************)
\* Recovery leaves a slot having restored every frame of a sealed segment, or the longest
\* run of good frames of an unsealed one, each once and in order: falling back from a broken
\* footer to a scan does not restore a frame again.  In particular the scanner's test for the end of
\* the segment never stops short of a frame the builder placed.
RecoversReference ==
    [][number' # number =>
         ~MustRefuse /\ restored = [i \in 1..ExpectedFrames |-> i]]_vars

\* Apart from a full index, a slot ends the open only if its pages contradict each other,
\* a version is unknown, or a frame a trailer vouches for is gone.
RefusesOnlyDamage ==
    [][stage' = "failed" /\ stage \in {"Header", "FooterValidate", "Restore", "Scan"}
         => MustRefuse \/ indexed + Len(restored) = IndexFrames]_vars

\* Whatever frames the builder accepted, its footer lies behind them, the encoder's chunks
\* stay within it and end exactly at the segment's end, and its trailer decodes.
FooterClearOfData ==
    /\ stage \in {"Fill", "Encode", "Sealed"} => SealDecodes(builder, footer_len(builder.metadata_len))
    /\ stage = "Encode" =>
         LET next == NextChunk(builder, chunk)
         IN  /\ next.size > 0 /\ next.from >= builder.data_end
             /\ next.from + next.size <= SegmentLen
             /\ next.last = (next.from + next.size = SegmentLen)
    /\ stage = "Sealed" => chunk = footer_len(builder.metadata_len)
=============================================================================
