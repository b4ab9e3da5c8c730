--------------------------- MODULE AdaptiveCapture ---------------------------
(***************************************************************************)
(* AdaptiveCaptureController and AdaptiveCaptureFlow (capture/adaptive.py):*)
(* when a frame is captured (cadence, debounced context changes, back-off) *)
(* and which captured frames are coalesced with the one before.            *)
(*                                                                         *)
(* A context is a privacy scope (generation and revisions) and a metadata  *)
(* key; a fingerprint is the set of its bits.  Time is in debounce units;  *)
(* the capture itself is awaited, so a reset or an overload may come       *)
(* between its start and the classification of its frame.                  *)
(***************************************************************************)
EXTENDS Integers, FiniteSets, Options

CONSTANTS
    Scopes, Keys,       \* privacy scopes and metadata keys
    Bits,               \* positions of the fingerprint
    Threshold,          \* change_threshold, in bits
    Cadence, Debounce,  \* in units of time
    MaxBackoff,         \* max_backoff_multiplier, a power of two
    MaxTicks            \* bound of the model

(* The multipliers max_backoff_multiplier may name: powers of two up to 64. *)
Multipliers == {1, 2, 4, 8, 16, 32, 64}

DedupContexts == [scope : Scopes, key : Keys]

ASSUME AdaptiveAssumption ==
    /\ {Cadence, MaxTicks} \subseteq Nat \ {0} /\ Debounce \in Nat
    /\ MaxBackoff \in Multipliers
    /\ Threshold \in 0 .. Cardinality(Bits)
    /\ None \notin [context : DedupContexts, at : Int]

VARIABLES
    ticks,      \* the monotonic clock
    backoff,    \* _backoff_multiplier
    last,       \* _last_capture_ns and _last_capture_context, or None
    pending,    \* _pending_change_context and its time, or None
    span,       \* _last_dedup_context and _last_fingerprint, or None
    flow,       \* the call of capture_if_due that awaits its frame, or None
    keySince,   \* history: the poll since which every poll saw the same context
    kept        \* history: context and fingerprint of the frame admitted last

adaptiveVars == <<ticks, backoff, last, pending, span, flow, keySince, kept>>

Distance(f, g) == Cardinality((f \ g) \cup (g \ f))

AdaptiveInit ==
    /\ ticks = 0 /\ backoff = 1
    /\ last = None /\ pending = None /\ span = None /\ flow = None
    /\ keySince = None /\ kept = None
-----------------------------------------------------------------------------
CadenceDue == ticks - last.at >= Cadence * backoff

(* Mutant: any difference from the pending change is a confirmation of it. *)
SamePendingAny(context) == pending # None

(* The change that poll has seen before and still sees.                    *)
SamePending(context) == pending # None /\ pending.context.key = context.key

(* poll: the trigger, and what becomes of the pending change.              *)
Trigger(context) ==
    IF last = None \/ context.scope # last.context.scope THEN "cadence"
    ELSE IF /\ context.key # last.context.key
            /\ SamePending(context)
            /\ ticks - pending.at >= Debounce THEN "context-change"
    ELSE IF CadenceDue THEN "cadence"
    ELSE "none"

PendingAfterPoll(context) ==
    IF last = None THEN pending
    ELSE IF context.scope # last.context.scope \/ context.key = last.context.key THEN None
    ELSE IF SamePending(context) THEN pending
    ELSE [context |-> context, at |-> ticks]

Observe(context) ==
    keySince' = IF keySince # None /\ keySince.context = context
                THEN keySince ELSE [context |-> context, at |-> ticks]

PollSkips(context) ==
    /\ flow = None
    /\ Trigger(context) = "none"
    /\ pending' = PendingAfterPoll(context)
    /\ Observe(context)
    /\ UNCHANGED <<ticks, backoff, last, span, flow, kept>>

(* mark_capture_started: a new privacy scope forgets the span.             *)
CaptureStarts(context) ==
    /\ flow = None
    /\ Trigger(context) # "none"
    /\ flow' = [context |-> context, at |-> ticks, trigger |-> Trigger(context)]
    /\ last' = [context |-> context, at |-> ticks]
    /\ pending' = None
    /\ span' = IF last # None /\ context.scope # last.context.scope THEN None ELSE span
    /\ Observe(context)
    /\ UNCHANGED <<ticks, backoff, kept>>

(* The backend raises, or the frame is of another generation or format.    *)
CaptureFails ==
    /\ flow # None
    /\ flow' = None
    /\ UNCHANGED <<ticks, backoff, last, pending, span, keySince, kept>>

SameSpan(context, fingerprint) ==
    /\ span # None /\ span.context = context
    /\ Distance(span.fingerprint, fingerprint) <= Threshold

(* _accept_new_span *)
FrameAdmitted(fingerprint) ==
    /\ flow # None
    /\ ~SameSpan(flow.context, fingerprint)
    /\ span' = [context |-> flow.context, fingerprint |-> fingerprint]
    /\ kept' = span'
    /\ flow' = None
    /\ UNCHANGED <<ticks, backoff, last, pending, keySince>>

(* Mutant: the span follows the frame that was coalesced last.             *)
FrameCoalescedDrifting(fingerprint) ==
    /\ flow # None
    /\ SameSpan(flow.context, fingerprint)
    /\ span' = [span EXCEPT !.fingerprint = fingerprint]
    /\ flow' = None
    /\ UNCHANGED <<ticks, backoff, last, pending, keySince, kept>>

FrameCoalesced(fingerprint) ==
    /\ flow # None
    /\ SameSpan(flow.context, fingerprint)
    /\ flow' = None
    /\ UNCHANGED <<ticks, backoff, last, pending, span, keySince, kept>>

(* The end of capture_if_due: any frame of the right generation and format *)
(* is fingerprinted and classified against the span.                       *)
FrameClassified == \E f \in SUBSET Bits : FrameAdmitted(f) \/ FrameCoalesced(f)

NoteOverload ==
    /\ backoff' = IF 2 * backoff < MaxBackoff THEN 2 * backoff ELSE MaxBackoff
    /\ UNCHANGED <<ticks, last, pending, span, flow, keySince, kept>>

NoteSuccess ==
    /\ backoff' = IF backoff \div 2 > 1 THEN backoff \div 2 ELSE 1
    /\ UNCHANGED <<ticks, last, pending, span, flow, keySince, kept>>

ControllerReset ==
    /\ last' = None /\ pending' = None /\ span' = None /\ backoff' = 1
    /\ UNCHANGED <<ticks, flow, keySince, kept>>

Tick ==
    /\ ticks < MaxTicks /\ ticks' = ticks + 1
    /\ UNCHANGED <<backoff, last, pending, span, flow, keySince, kept>>

AdaptiveNext ==
    \/ Tick \/ NoteOverload \/ NoteSuccess \/ ControllerReset \/ CaptureFails
    \/ \E c \in DedupContexts : PollSkips(c) \/ CaptureStarts(c)
    \/ FrameClassified

AdaptiveSpec == AdaptiveInit /\ [][AdaptiveNext]_adaptiveVars
-----------------------------------------------------------------------------
AdaptiveTypeOK ==
    /\ backoff \in Multipliers /\ backoff <= MaxBackoff
    /\ pending # None => /\ last # None /\ pending.context.scope = last.context.scope
                         /\ pending.context.key # last.context.key /\ pending.at <= ticks

(* A frame that is dropped as a duplicate is one: the frame admitted last  *)
(* has exactly its context and differs from it in at most Threshold bits,  *)
(* so small changes never add up to an unrecorded large one and no frame   *)
(* is coalesced across a privacy scope (classify_frame).                   *)
CoalescedIsCovered ==
    [][\A f \in SUBSET Bits :
          FrameCoalesced(f) =>
              /\ kept # None /\ kept.context = flow.context
              /\ Distance(kept.fingerprint, f) <= Threshold]_adaptiveVars

(* A capture for a changed context follows a context that every poll of at *)
(* least the debounce time has seen: a window that was only passed through *)
(* never triggers one (poll).                                              *)
DebounceHolds ==
    flow # None /\ flow.trigger = "context-change" =>
        keySince.context = flow.context /\ flow.at - keySince.at >= Debounce

\* The controller neither captures a change too early nor drops one it has not recorded.
CaptureFaithful == [](AdaptiveTypeOK /\ DebounceHolds) /\ CoalescedIsCovered

-----------------------------------------------------------------------------
(* The difference hash: which pixels it reads and which bits it sets.      *)
CONSTANTS HashRows, HashColumns     \* 8 and 9

ASSUME HashAssumption == {HashRows, HashColumns} \subseteq Nat \ {0, 1}

(* Mutant: the last sample is taken one step past the edge.                *)
SampleCoordinatePast(index, samples, extent) ==
    (index * extent) \div (samples - 1)

SampleCoordinate(index, samples, extent) ==
    IF extent = 1 THEN 0 ELSE (index * (extent - 1)) \div (samples - 1)

(* image[y][x] is the luminance of a pixel.                                *)
DHash(image, width, height) ==
    LET at(r, c) == image[SampleCoordinate(r, HashRows, height)]
                         [SampleCoordinate(c, HashColumns, width)]
    IN  {rc \in (0 .. HashRows - 1) \X (0 .. HashColumns - 2) :
            at(rc[1], rc[2]) > at(rc[1], rc[2] + 1)}

(* Every sample lies in the image, the first and the last on its edges,    *)
(* so images that agree at the samples have the same hash and the hash of  *)
(* no image reads outside it (perceptual_dhash_rgb8).                      *)
HashReadsInside(width, height) ==
    /\ \A r \in 0 .. HashRows - 1 : SampleCoordinate(r, HashRows, height) \in 0 .. height - 1
    /\ \A c \in 0 .. HashColumns - 1 : SampleCoordinate(c, HashColumns, width) \in 0 .. width - 1
    /\ SampleCoordinate(HashColumns - 1, HashColumns, width) = width - 1
    /\ \A dark \in 0 .. width - 1 :
          LET image == [y \in 0 .. height - 1 |-> [x \in 0 .. width - 1 |-> IF x > dark THEN 0 ELSE 1]]
          IN  (dark < width - 1) = (DHash(image, width, height) # {})
=============================================================================
