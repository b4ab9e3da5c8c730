----------------------------- MODULE Redaction -----------------------------
(***************************************************************************)
(* The plaintext privacy boundary: local OCR, secret detection, and the    *)
(* removal of what was detected from text, pixels and metadata before a    *)
(* record may be encrypted.  Everything here is a function of one stage    *)
(* item, so the module has operators and no state.  A character is its     *)
(* place in its block; what the regular expressions find is given as a set *)
(* of candidates, each an interval of the document [from, to).             *)
(***************************************************************************)
EXTENDS Integers, Sequences, FiniteSets, SequencesExt, FiniteSetsExt, Options

CONSTANTS LowConfidence,   \* low_confidence_threshold, in per cent
          MaxInputBytes,   \* max_input_bytes of the OCR settings
          Replacement      \* "[REDACTED]" in a redacted text

Failed(code) == [ok |-> FALSE, code |-> code]

BytesPerPixel(format) ==
  CASE format = "gray8" -> 1 [] format = "rgb8" -> 3 [] format = "rgba8" -> 4

ValidFrame(frame) ==
  /\ frame.width > 0 /\ frame.height > 0
  /\ frame.stride >= frame.width * BytesPerPixel(frame.format)
  /\ frame.bytes = frame.stride * frame.height

ValidRegion(r) == r.x >= 0 /\ r.y >= 0 /\ r.width > 0 /\ r.height > 0
Inside(frame, r) == r.x + r.width <= frame.width /\ r.y + r.height <= frame.height

----------------------------------------------------------------------------
(* The stage codec: a header and the pixels.  The header has no place for  *)
(* the provenance of the capture, which ends with the raw stage.           *)

Header(frame) == [k \in DOMAIN frame \ {"provenance"} |-> frame[k]]
FrameOf(header) == [k \in DOMAIN header \union {"provenance"} |->
                      IF k = "provenance" THEN None ELSE header[k]]

SameIdentity(item, frame) ==
  frame.id = item.record /\ frame.generation = item.generation

\* What decoding a stage item refuses; None when the item is taken.
DecodeFault(item) ==
  IF item.parts # 2 \/ ~item.wellFormed \/ item.version # 1 THEN "codec"
  ELSE IF ~ValidFrame(item.header) THEN "invalid"
  ELSE IF ~SameIdentity(item, item.header) THEN "mismatch"
  ELSE None

StageItem(source, header, more) ==
  [ok |-> TRUE, record |-> source.record, generation |-> source.generation,
   deadline |-> source.deadline, header |-> header, parts |-> 2,
   wellFormed |-> TRUE, version |-> 1, more |-> more]

----------------------------------------------------------------------------
(* Local OCR.                                                              *)

Digits(n) == 1 + Cardinality({k \in 1 .. 9 : 10 ^ k <= n})

\* "P5" or "P6", width and height, "255" and their separators, then the pixels.
PortableAnymapBytes(frame) ==
  9 + Digits(frame.width) + Digits(frame.height)
    + frame.height * frame.width * (IF frame.format = "gray8" THEN 1 ELSE 3)

\* Rows of the TSV with text; a row with a negative confidence is no word.
Words(rows) == SelectSeq(rows, LAMBDA row : row.length > 0 /\ row.confidence >= 0)

ParseTesseractTsv(frame, rows) ==
  LET words == Words(rows)
  IN IF \A i \in DOMAIN words : ValidRegion(words[i].region) /\ Inside(frame, words[i].region)
       THEN [ok |-> TRUE, frame |-> frame.id,
             blocks |-> [i \in DOMAIN words |->
                           [words[i] EXCEPT !.confidence = Min({100, @})]]]
       ELSE Failed("malformed-output")

\* The runner kills the process it waited too long for.
RunnerFault(tool) ==
  CASE tool.result = "missing"  -> "executable-unavailable"
    [] tool.result = "late"     -> "timeout"
    [] tool.result = "broken"   -> "execution-failed"
    [] tool.result = "non-zero" -> "execution-failed"
    [] OTHER -> None

\* recognize; `tool.languages' says that the language names are well formed.
Recognize(frame, tool) ==
  IF PortableAnymapBytes(frame) > MaxInputBytes THEN Failed("input-too-large")
  ELSE IF ~tool.languages THEN Failed("execution-failed")
  ELSE IF RunnerFault(tool) # None THEN Failed(RunnerFault(tool))
  ELSE ParseTesseractTsv(frame, tool.rows)

EncodeAnalyzed(item, frame, ocr) ==
  IF ~SameIdentity(item, frame) \/ ocr.frame # frame.id THEN Failed("mismatch")
  ELSE StageItem(item, Header(frame), [blocks |-> ocr.blocks])

\* LocalOCRStageProcessor.process
ProcessRaw(item, tool) ==
  IF DecodeFault(item) # None THEN Failed(DecodeFault(item))
  ELSE LET frame == FrameOf(item.header)
           ocr   == Recognize(frame, tool)
       IN IF ocr.ok THEN EncodeAnalyzed(item, frame, ocr) ELSE ocr

----------------------------------------------------------------------------
(* Detection.  A candidate has the detector family that found it (direct,  *)
(* encoded or entropy), its interval, and whether an allowlist names its   *)
(* exact value for its detector, or, for an encoded one, for the detector  *)
(* that found the decoded value.                                           *)

Allowlisted(c) == c.allowed \/ (c.family = "encoded" /\ c.decodedAllowed)

Overlaps(a, b) == a.from < b.to /\ a.to > b.from

\* _scan_direct and _scan_encoded
Direct(candidates) ==
  {c \in candidates : c.family \in {"direct", "encoded"} /\ ~Allowlisted(c)}

\* A token that looks random is a match only where nothing else matched.
Entropy(candidates) ==
  {c \in candidates : /\ c.family = "entropy" /\ c.suspicious
                      /\ \A d \in Direct(candidates) : ~Overlaps(c, d)
                      /\ ~Allowlisted(c)}

Scan(candidates) == Direct(candidates) \union Entropy(candidates)

\* A pattern that matched the empty string has no valid SecretMatch.
ScanFails(candidates) == \E c \in Scan(candidates) : c.to <= c.from

----------------------------------------------------------------------------
(* Redaction.                                                              *)

SettingsAllow(settings) ==
  settings.enabled /\ settings.deterministicRequired /\ settings.failOnUncertain

\* Mutant: the separators are not counted.
SlicesJoined(blocks) ==
  [i \in DOMAIN blocks |->
     LET start == FoldLeft(LAMBDA n, b : n + b.length, 0, SubSeq(blocks, 1, i - 1))
     IN [from |-> start, to |-> start + blocks[i].length]]

\* _ocr_document: the blocks joined by one separator each.
Slices(blocks) ==
  [i \in DOMAIN blocks |->
     LET start == (i - 1) + FoldLeft(LAMBDA n, b : n + b.length, 0, SubSeq(blocks, 1, i - 1))
     IN [from |-> start, to |-> start + blocks[i].length]]

\* _apply_document_match: the part of each match that falls in the block.
Local(slice, matches) ==
  {<<Max({m.from, slice.from}) - slice.from, Min({m.to, slice.to}) - slice.from>> :
     m \in {n \in matches : Overlaps(n, slice)}}

LowConfidenceSpan(block) ==
  IF block.length > 0 /\ block.confidence < LowConfidence THEN {<<0, block.length>>} ELSE {}

Spans(blocks, matches) ==
  LET slices == Slices(blocks)
  IN [i \in DOMAIN blocks |-> Local(slices[i], matches) \union LowConfidenceSpan(blocks[i])]

ExtendsLast(last, range) == <<last[1], Max({last[2], range[2]})>>

MergeRanges(ranges) ==
  LET before(a, b) == a[1] < b[1] \/ (a[1] = b[1] /\ a[2] < b[2])
      add(merged, range) ==
        IF merged = <<>> \/ range[1] > Last(merged)[2]
          THEN Append(merged, range)
          ELSE [merged EXCEPT ![Len(merged)] = ExtendsLast(@, range)]
  IN FoldLeft(add, <<>>, SetToSortSeq(ranges, before))

Characters(from, to) == [k \in 1..Max({0, to - from}) |-> from + k - 1]

ReplaceSpans(length, spans) ==
  LET replace(done, range) ==
        [text |-> done.text \o Characters(done.cursor, range[1]) \o <<Replacement>>,
         cursor |-> range[2]]
      done == FoldLeft(replace, [text |-> <<>>, cursor |-> 0], MergeRanges(spans))
  IN done.text \o Characters(done.cursor, length)

\* The bytes of the pixel buffer that masking a region overwrites.
MaskRegion(frame, r) ==
  LET bytes == BytesPerPixel(frame.format)
  IN {row * frame.stride + column * bytes + k :
        row \in r.y..(r.y + r.height - 1), column \in r.x..(r.x + r.width - 1),
        k \in 0..(bytes - 1)}

\* One text and one pixel finding for every span of a block.
FindingsForBlock(i, block, spans) ==
  {[target |-> "ocr-text", block |-> i, span |-> s] : s \in spans}
    \union {[target |-> "pixels", block |-> i, region |-> block.region] : s \in spans}

RetainedFields(fields) ==
  {f \in fields : ~f.sensitiveName /\ ~(f.text /\ f.found)}

\* DeterministicRedactionPolicy.redact
Redact(frame, ocr, candidates, settings, revision) ==
  IF ocr.frame # frame.id THEN Failed("mismatch")
  ELSE IF revision # settings.revision \/ ~SettingsAllow(settings) THEN Failed("policy")
  ELSE IF \E i \in DOMAIN ocr.blocks : ~Inside(frame, ocr.blocks[i].region)
    THEN Failed("invalid-region")
  ELSE IF ScanFails(candidates) THEN Failed("policy")
  ELSE LET spans == Spans(ocr.blocks, Scan(candidates))
       IN [ok |-> TRUE,
           text |-> [i \in DOMAIN spans |-> ReplaceSpans(ocr.blocks[i].length, spans[i])],
           masked |-> UNION {MaskRegion(frame, ocr.blocks[i].region) :
                               i \in {j \in DOMAIN spans : spans[j] # {}}},
           findings |-> UNION {FindingsForBlock(i, ocr.blocks[i], spans[i]) : i \in DOMAIN spans},
           metadata |-> RetainedFields(frame.metadata),
           revision |-> settings.revision]

EncodeRedacted(item, frame, record) ==
  IF ~SameIdentity(item, frame) THEN Failed("mismatch")
  ELSE StageItem(item, [Header(frame) EXCEPT !.metadata = record.metadata],
                 [record EXCEPT !.ok = TRUE])

\* PrePersistenceRedactionStageProcessor.process
ProcessAnalyzed(item, candidates, settings) ==
  IF DecodeFault(item) # None THEN Failed(DecodeFault(item))
  ELSE LET frame  == FrameOf(item.header)
           record == Redact(frame, [frame |-> frame.id, blocks |-> item.more.blocks],
                            candidates, settings, settings.revision)
       IN IF record.ok THEN EncodeRedacted(item, frame, record) ELSE record

----------------------------------------------------------------------------
(* Properties.                                                             *)

\* The document as the detectors read it: each place holds a character of a
\* block or the separator between two blocks.
Document(blocks) ==
  FlattenSeq([i \in DOMAIN blocks |->
    (IF i = 1 THEN <<>> ELSE <<None>>) \o [k \in 1..blocks[i].length |-> <<i, k - 1>>]])

\* The characters a set of matches covers, block by block.
Covered(blocks, matches) ==
  {Document(blocks)[k + 1] : k \in {n \in 0..(Len(Document(blocks)) - 1) :
     \E m \in matches : m.from <= n /\ n < m.to}} \ {None}

\* The bytes of the buffer that belong to the pixels of a region.
Box(frame, r) ==
  {b \in 0..(frame.bytes - 1) :
     /\ b \div frame.stride \in r.y..(r.y + r.height - 1)
     /\ (b % frame.stride) \div BytesPerPixel(frame.format) \in r.x..(r.x + r.width - 1)}

\* What the detectors found is gone and nothing else is: in the redacted item
\* of every text read by OCR (PrePersistenceRedactionStageProcessor.process
\* after LocalOCRStageProcessor.process), a block keeps exactly, and in their
\* order, the characters that no match covers, keeps none when it was read
\* with low confidence, and its whole bounding box is masked as soon as it
\* lost one character, while no byte outside such a box is overwritten.
SecretsGone(item, tool, candidates, settings) ==
  LET analyzed == ProcessRaw(item, tool)
  IN analyzed.ok =>
       LET blocks  == analyzed.more.blocks
           out     == ProcessAnalyzed(analyzed, candidates, settings)
           hidden  == Covered(blocks, Scan(candidates)) \union
                        {h \in (DOMAIN blocks) \X (0..20) :
                           h[2] < blocks[h[1]].length /\ blocks[h[1]].confidence < LowConfidence}
           hit     == {h[1] : h \in hidden}
       IN out.ok =>
            /\ \A i \in DOMAIN blocks :
                 SelectSeq(out.more.text[i], LAMBDA c : c # Replacement)
                   = SelectSeq(Characters(0, blocks[i].length), LAMBDA c : <<i, c>> \notin hidden)
            /\ out.more.masked = UNION {Box(analyzed.header, blocks[i].region) : i \in hit}
            /\ hit = {f.block : f \in out.more.findings}

=============================================================================
