----------------------------- MODULE Flashblocks -----------------------------
(***************************************************************************)
(* The preconfirmed stream of a sequencer: frames of the block being built   *)
(* arrive over a feed that may lose, repeat and reorder them; a parser drops *)
(* transactions it has already emitted and counts discontinuities; a tracker *)
(* keeps the newest state, which pins are checked against, and grades the    *)
(* frames of a block when the canonical block arrives.                      *)
(*                                                                         *)
(* A frame adds one transaction to its block, but for frame 0, which holds    *)
(* the system's deposit alone; both are identified by the frame's state id.  *)
(***************************************************************************)
EXTENDS Integers, Sequences, SequencesExt, FiniteSets, FiniteSetsExt

CONSTANTS
    Blocks,         \* 1 .. Blocks: the blocks of the model
    Indices,        \* 0 .. Indices: frames of a block
    Irregular,      \* payloads replaced and links missing, in all
    DedupeBlocks,   \* DEDUPE_BLOCKS
    TrackedBlocks,  \* TRACKED_BLOCKS
    Deposits,       \* blocks start with a deposit transaction (OP stack)
    NoFrame

ASSUME FlashAssumption ==
    /\ {Blocks, Indices, TrackedBlocks} \subseteq Nat \ {0}
    /\ {Irregular, DedupeBlocks} \subseteq Nat
    /\ Deposits \in BOOLEAN

VARIABLES
    (* the sequencer *)
    built,          \* frames built
    building,       \* the newest of them
    ended,          \* last index of a finished block
    rebuilt,        \* blocks whose payload was replaced
    (* FlashblockParser *)
    lastFrame,      \* (block_number, index) of the last accepted frame
    window,         \* seen_order: the pairs (state id, transaction) emitted
    gaps,           \* state_gaps is not zero
    (* PreconfirmedTracker *)
    latest,
    byBlock,        \* frames of a block, in arrival order
    graded,         \* outcome of observe_sealed
    (* history *)
    delivered, emitted

sequencerVars == <<built, building, ended, rebuilt>>
parserVars == <<lastFrame, window, gaps>>
trackerVars == <<latest, byBlock, graded>>
flashVars == <<sequencerVars, parserVars, trackerVars, delivered, emitted>>

Positions == (1 .. Blocks) \X (0 .. Indices)

(* A link that is missing, or that does not parse *)
NoLink == <<0, 0>>

(* link is prev_flashblock_id: the position of the frame before. *)
Frames == [block : 1 .. Blocks, payload : 0 .. Irregular, index : 0 .. Indices,
           link : Positions \cup {NoLink}]

ASSUME NoFrameAssumption == NoFrame \notin Positions \cup Frames

Position(f) == <<f.block, f.index>>

Before(p, q) == p[1] < q[1] \/ (p[1] = q[1] /\ p[2] < q[2])

FlashTypeOK ==
    /\ built \subseteq Frames /\ building \in Frames
    /\ ended \in [1 .. Blocks -> 0 .. Indices]
    /\ rebuilt \subseteq 1 .. Blocks
    /\ lastFrame \in Positions \cup {NoFrame}
    /\ Range(window) \subseteq Frames /\ IsInjective(window)
    /\ gaps \in BOOLEAN
    /\ latest \in Frames \cup {NoFrame}
    /\ DOMAIN byBlock \subseteq 1 .. Blocks
    /\ Cardinality(DOMAIN byBlock) <= TrackedBlocks
    /\ \A b \in DOMAIN byBlock : Range(byBlock[b]) \subseteq Frames
    /\ graded \in [1 .. Blocks -> {"pending", "none", "match", "mismatch"}]
    /\ delivered \subseteq built /\ emitted \subseteq delivered

-----------------------------------------------------------------------------
(* The sequencer *)

Unlinked == {f \in built : f.link = NoLink /\ Position(f) # <<1, 0>>}

MayBeIrregular == building.payload + Cardinality(Unlinked) < Irregular

LinksTo(p) == {p} \cup (IF MayBeIrregular THEN {NoLink} ELSE {})

Build(f) ==
    /\ built' = built \cup {f} /\ building' = f
    /\ UNCHANGED <<parserVars, trackerVars, delivered, emitted>>

NextFrame ==
    /\ building.index < Indices
    /\ \E link \in LinksTo(Position(building)) :
          Build([building EXCEPT !.index = @ + 1, !.link = link])
    /\ UNCHANGED <<ended, rebuilt>>

NextBlock ==
    /\ building.block < Blocks
    /\ \E link \in LinksTo(Position(building)) :
          Build([block |-> building.block + 1, payload |-> building.payload,
                 index |-> 0, link |-> link])
    /\ ended' = [ended EXCEPT ![building.block] = building.index]
    /\ UNCHANGED rebuilt

EndBefore(b) == IF b = 1 THEN NoLink ELSE <<b - 1, ended[b - 1]>>

(* Another payload for the same block, from its first frame on. *)
Rebuild ==
    /\ MayBeIrregular /\ building.payload < Irregular
    /\ Build([block |-> building.block, payload |-> building.payload + 1,
              index |-> 0, link |-> EndBefore(building.block)])
    /\ rebuilt' = rebuilt \cup {building.block}
    /\ UNCHANGED ended

Sealed(b) == b < building.block

(* The payload a block was sealed with is the last one built for it. *)
SealedPayload(b) == Max({f.payload : f \in {g \in built : g.block = b}})

FramesOf(b) ==
    SetToSortSeq({f \in built : f.block = b /\ f.payload = SealedPayload(b)},
                 LAMBDA f, g : f.index < g.index)

-----------------------------------------------------------------------------
(* FlashblockParser::parse *)

(* The transactions of a frame which are not deposits *)
Adds(f) == f.index > 0

MutantGapFirstOnly(f) == lastFrame = NoFrame /\ f.index # 0

(* sequence_gap: the frame does not follow the last accepted one, by its     *)
(* position or by its link; a frame at or before it, in the same block, is   *)
(* none.  Without a usable link the position alone decides.  The payload is *)
(* not looked at.                                                          *)
SequenceGap(f) ==
    IF lastFrame = NoFrame THEN f.index # 0
    ELSE LET b == lastFrame[1]
             i == lastFrame[2] IN
         \/ /\ f.block = b /\ f.index > i
            /\ f.index # i + 1 \/ f.link \notin {NoLink, <<b, i>>}
         \/ /\ f.block = b + 1
            /\ f.index # 0 \/ f.link \notin {NoLink, <<b, i>>}
         \/ f.block \notin {b, b + 1}

(* state_id_is_duplicate *)
Redelivered(f) == lastFrame = Position(f) /\ f \in Range(window)

Advances(f) == lastFrame = NoFrame \/ Before(lastFrame, Position(f))

New(f) == Adds(f) /\ f \notin Range(window)

MutantEvictOneMore(w, block) ==
    SelectSeq(w, LAMBDA f : f.block > block - DedupeBlocks)

(* evict_before: from the front, up to the first entry that is young enough. *)
Evicted(w, block) ==
    LET kept == {k \in DOMAIN w : w[k].block >= block - DedupeBlocks} IN
    SubSeq(w, IF kept = {} THEN Len(w) + 1 ELSE Min(kept), Len(w))

Parse(f) ==
    /\ gaps' = (gaps \/ (~Redelivered(f) /\ SequenceGap(f)))
    /\ window' = Evicted(IF New(f) THEN Append(window, f) ELSE window, f.block)
    /\ lastFrame' = IF ~Redelivered(f) /\ Advances(f) THEN Position(f)
                    ELSE lastFrame

-----------------------------------------------------------------------------
(* PreconfirmedTracker *)

MutantLatest(f) == f

(* Never moved backwards by a frame that is out of order. *)
Latest(f) ==
    IF latest = NoFrame \/ Before(Position(latest), Position(f)) THEN f
    ELSE latest

Known(f) ==
    /\ f.block \in DOMAIN byBlock
    /\ \E k \in DOMAIN byBlock[f.block] : byBlock[f.block][k] = f

(* Arrival order; the oldest block makes room. *)
Track(f) ==
    LET frames == IF f.block \in DOMAIN byBlock THEN byBlock[f.block] ELSE <<>>
        blocks == DOMAIN byBlock \cup {f.block}
        kept   == IF Cardinality(blocks) > TrackedBlocks
                  THEN blocks \ {Min(blocks)} ELSE blocks IN
    [b \in kept |->
        IF b # f.block THEN byBlock[b]
        ELSE IF Known(f) THEN frames ELSE Append(frames, f)]

(* The frame is parsed by the feed's task and observed by the engine, in     *)
(* order, before any of its transactions is.                                *)
Deliver(f) ==
    /\ f \in built
    /\ Parse(f)
    /\ latest' = Latest(f)
    /\ byBlock' = Track(f)
    /\ delivered' = delivered \cup {f}
    /\ emitted' = IF New(f) THEN emitted \cup {f} ELSE emitted
    /\ UNCHANGED <<sequencerVars, graded>>

(* The ordered transactions the tracker expects in a block: those the frames *)
(* added, in the order in which they arrived.                               *)
Cumulative(frames) == SelectSeq(frames, Adds)

(* The canonical transactions; parse_tx_object leaves deposits in. *)
Canonical(b) ==
    (IF Deposits THEN <<Head(FramesOf(b))>> ELSE <<>>)
        \o SelectSeq(FramesOf(b), Adds)

(* enqueue_replay_block: a block of the chain feed is graded, if any of its  *)
(* frames is tracked, and its frames are forgotten.                         *)
ObserveSealed(b) ==
    /\ Sealed(b) /\ graded[b] = "pending"
    /\ graded' = [graded EXCEPT ![b] =
            IF b \notin DOMAIN byBlock THEN "none"
            ELSE IF Cumulative(byBlock[b]) = Canonical(b) THEN "match"
            ELSE "mismatch"]
    /\ byBlock' = [c \in DOMAIN byBlock \ {b} |-> byBlock[c]]
    /\ UNCHANGED <<sequencerVars, parserVars, latest, delivered, emitted>>

(* pinned_is_current: the newest state is the pin's or a descendant of it.   *)
PinIsCurrent(pin) ==
    /\ latest # NoFrame
    /\ latest.block = pin.block /\ latest.payload = pin.payload
    /\ latest.index >= pin.index

-----------------------------------------------------------------------------
FirstFrame == [block |-> 1, payload |-> 0, index |-> 0, link |-> NoLink]

FlashInit ==
    /\ built = {FirstFrame} /\ building = FirstFrame
    /\ ended = [b \in 1 .. Blocks |-> 0] /\ rebuilt = {}
    /\ lastFrame = NoFrame /\ window = <<>> /\ gaps = FALSE
    /\ latest = NoFrame /\ byBlock = <<>>
    /\ graded = [b \in 1 .. Blocks |-> "pending"]
    /\ delivered = {} /\ emitted = {}

FlashNext ==
    \/ NextFrame \/ NextBlock \/ Rebuild
    \/ \E f \in built : Deliver(f)
    \/ \E b \in 1 .. Blocks : ObserveSealed(b)

FlashSpec == FlashInit /\ [][FlashNext]_flashVars

-----------------------------------------------------------------------------
(* Properties *)

(* A transaction of one state is emitted once: the feed may repeat its frame *)
(* after a reconnect, at any time and in any order, and it comes again only  *)
(* when a frame more than DEDUPE_BLOCKS ahead has been taken in between      *)
(* (flashblocks.rs 113-116, 191-416).                                        *)
NothingEmittedTwice ==
    [][\A f \in emitted :
          (f \notin Range(window) /\ f \in Range(window'))
              => lastFrame[1] > f.block + DedupeBlocks]_flashVars

(* Frames after the last one delivered of their block, when the next block's  *)
(* first frame came without a link to tell where that block ended           *)
UnlinkedTail(f) ==
    /\ \E g \in delivered : g.block = f.block + 1 /\ g.index = 0 /\ g.link = NoLink
    /\ \E g \in delivered : g.block = f.block
    /\ \A g \in delivered : g.block = f.block => g.index < f.index

(* While no gap is counted, every frame between the first one taken and the  *)
(* last one was delivered, though frames may be lost or overtaken anywhere,  *)
(* at the end of a block too, where only the link tells: a tail is missed    *)
(* there, and nowhere else, if the next block's first frame has no link that *)
(* parses (flashblocks.rs 242-246, 441-476).  It says nothing of a block     *)
(* whose payload was replaced.                                              *)
LossIsCounted ==
    (~gaps /\ rebuilt = {}) =>
        \A first \in delivered : \A f \in built :
            (/\ ~Before(Position(f), Position(first))
             /\ ~Before(lastFrame, Position(f)))
                => f \in delivered \/ UnlinkedTail(f)

(* A pin that has expired does not come back to life when older frames are   *)
(* delivered late, so a candidate refused at one check is refused at every   *)
(* later one (flashblocks.rs 526-557, 570-575), unless a payload is replaced.*)
ExpiredPinStaysExpired ==
    [][rebuilt = {} =>
          \A pin \in delivered : ~PinIsCurrent(pin) => ~PinIsCurrent(pin)']_flashVars
=============================================================================
