------------------------------ MODULE Segment ------------------------------
(***************************************************************************)
(* The geometry of a segment (segment/): a header page, frames from the    *)
(* front, and at the very end a page-aligned footer with a copy of every   *)
(* frame's metadata and a trailer.  Lengths and offsets are in bytes.      *)
(***************************************************************************)
EXTENDS Integers, Sequences

CONSTANTS
    PAGE_SIZE,
    FOOTER_TRAILER_LEN,
    MIN_FRAME_METADATA_LEN,
    SegmentLen,         \* Layout.segment_size
    ChunkLen            \* largest write of the footer encoder

ASSUME SegmentAssumption ==
    /\ {PAGE_SIZE, FOOTER_TRAILER_LEN, MIN_FRAME_METADATA_LEN} \subseteq Nat \ {0}
    /\ FOOTER_TRAILER_LEN + MIN_FRAME_METADATA_LEN <= PAGE_SIZE
    /\ SegmentLen \in Nat /\ SegmentLen >= 2 * PAGE_SIZE /\ SegmentLen % PAGE_SIZE = 0
    /\ ChunkLen \in Nat \ {0} /\ ChunkLen % PAGE_SIZE = 0

align_up(n) == ((n + PAGE_SIZE - 1) \div PAGE_SIZE) * PAGE_SIZE

footer_len(metadata_len) == align_up(FOOTER_TRAILER_LEN + metadata_len)

(***************************************************************************)
(* SegmentBuilder.  Its state is also the Seal the trailer records.        *)
(***************************************************************************)
NewBuilder == [data_end |-> PAGE_SIZE, frame_count |-> 0, metadata_len |-> 0]

\* A frame as the builder sees it: its length and that of its metadata.
ValidShape(frame) ==
    /\ frame.len > 0 /\ frame.len % PAGE_SIZE = 0
    /\ frame.metadata \in MIN_FRAME_METADATA_LEN..frame.len /\ frame.metadata % 4 = 0

\* Room for the frame and for a footer that lists it.
FitsWithoutFooter(b, frame) == ValidShape(frame) /\ b.data_end + frame.len <= SegmentLen

Fits(b, frame) ==
    /\ ValidShape(frame)
    /\ b.data_end + frame.len + footer_len(b.metadata_len + frame.metadata) <= SegmentLen

AppendFrame(b, frame) ==
    [data_end |-> b.data_end + frame.len, frame_count |-> b.frame_count + 1,
     metadata_len |-> b.metadata_len + frame.metadata]

(***************************************************************************)
(* FooterEncoder: the footer leaves in chunks, its final page alone.       *)
(***************************************************************************)
FooterStart(seal) == SegmentLen - footer_len(seal.metadata_len)

\* The chunk at `offset' in the footer, as a range of the segment.
NextChunk(seal, offset) ==
    LET len == footer_len(seal.metadata_len)
        last == offset = len - PAGE_SIZE
        left == len - PAGE_SIZE - offset
        size == IF last THEN PAGE_SIZE ELSE IF left < ChunkLen THEN left ELSE ChunkLen
    IN  [from |-> FooterStart(seal) + offset, size |-> size, last |-> last]

\* FooterTrailer::decode accepts the lengths a trailer claims.
SealDecodes(seal, len) ==
    /\ seal.data_end >= PAGE_SIZE /\ seal.data_end % PAGE_SIZE = 0 /\ seal.metadata_len % 4 = 0
    /\ len = footer_len(seal.metadata_len)
    /\ seal.data_end + len <= SegmentLen
    /\ (seal.frame_count = 0) = (seal.data_end = PAGE_SIZE)
    /\ (seal.frame_count = 0) = (seal.metadata_len = 0)
    /\ seal.frame_count * PAGE_SIZE <= seal.data_end - PAGE_SIZE
    /\ seal.frame_count * MIN_FRAME_METADATA_LEN <= seal.metadata_len
    /\ seal.metadata_len <= seal.data_end - PAGE_SIZE

(***************************************************************************)
(* Scanner.  Its state is a builder state: what it has validated so far.   *)
(***************************************************************************)
ActiveAtEndEarly(scan) ==
    scan.data_end + PAGE_SIZE + footer_len(scan.metadata_len + MIN_FRAME_METADATA_LEN) >= SegmentLen

\* No further frame could have been placed in an unsealed segment.
ActiveAtEnd(scan) ==
    scan.data_end + PAGE_SIZE + footer_len(scan.metadata_len + MIN_FRAME_METADATA_LEN) > SegmentLen

\* Recovery validates the length of a frame header against the space up to `end'.
HeaderFits(scan, frame, end) == ValidShape(frame) /\ frame.len <= end - scan.data_end

LeavesFooter(scan, frame) ==
    LET next == AppendFrame(scan, frame)
    IN  next.data_end + footer_len(next.metadata_len) <= SegmentLen

\* The frames found so far do not contradict the trailer's summary.
SummaryAgrees(scan, frame, seal) ==
    LET next == AppendFrame(scan, frame)
    IN  /\ next.frame_count <= seal.frame_count
        /\ next.metadata_len <= seal.metadata_len
        /\ next.data_end = seal.data_end => next = seal
        /\ next.data_end < seal.data_end => next.frame_count # seal.frame_count
=============================================================================
