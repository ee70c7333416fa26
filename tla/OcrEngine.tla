------------------------------- MODULE OcrEngine -------------------------------
(***************************************************************************)
(* One recognition by the PP-OCR engine: recognize_blocking() of           *)
(* crates/impossible-ocr-pipeline/src/engine.rs with the post-processing,  *)
(* cropping, batching, CTC decoding and result validation it calls.        *)
(*                                                                         *)
(* The engine is one thread.  Its environment cancels the request, lets    *)
(* its deadline pass, and answers its calls of the tensor runtime, with    *)
(* tensors or errors.  Pixels and probabilities are abstracted to what the *)
(* control depends on: a region has the top-left corner, the size and the  *)
(* best class of each recognizer time step.                                *)
(***************************************************************************)
EXTENDS Integers, FiniteSets, SequencesExt

CONSTANTS
    Images,        \* what the detector finds: sequences of regions
    RowTolerance,  \* READING_ORDER_ROW_TOLERANCE
    BatchLimit,    \* RECOGNIZER_BATCH_LIMIT
    MaxPixels,     \* MAX_PIXELS, for the crops of one image
    Foreign        \* the classes whose symbols are not printable ASCII

Regions == [y : Int, x : Int, w : Nat \ {0}, h : Nat \ {0}, steps : Seq(Nat), clear : BOOLEAN]

ASSUME EngineAssumption ==
    /\ \A found \in Images : found \in Seq(Regions)
    /\ RowTolerance \in Nat
    /\ BatchLimit \in Nat \ {0}
    /\ MaxPixels \in Nat

VARIABLES
    image,      \* the regions in the order of the detector
    cancelled,  \* the request is cancelled
    expired,    \* its deadline has passed
    stage,      \* the next piece of work of the engine
    checked,    \* the context was checked before it
    regions,    \* the regions in reading order
    crops,      \* the crops made so far, and
    pixels,     \* temporary_pixels, their sum
    output,     \* the tensor of the last runtime call: "good" or "bad" shape
    sequences,  \* the decoded texts, in the order of the regions
    blocks,     \* the blocks of the result so far, and
    seen,       \* the number of regions considered for them
    answer,     \* "none" or the outcome of the request
    late,       \* runtime calls begun after the request was stopped
    fault       \* the runtime failed or broke its contract

context == <<image, cancelled, expired>>
work == <<regions, crops, pixels, output, sequences, blocks, seen>>
vars == <<context, stage, checked, work, answer, late, fault>>

Stages == {"decode", "preprocess", "detect", "detecting", "postprocess", "crop",
           "recognize", "recognizing", "read", "assemble", "end"}
Answers == {"none", "result", "cancelled", "late", "invalid_request", "invalid_image",
            "overloaded", "internal"}

Stopped == cancelled \/ expired

(***************************************************************************)
(* Reading order, sort_reading_order() of the domain crate: a stable sort  *)
(* by the top-left corner, then backward adjacent swaps within a row.      *)
(***************************************************************************)
Above(a, b) == a.y < b.y \/ (a.y = b.y /\ a.x < b.x)

\* The members of S in an order of them: each comes after as many as are before it.
Positions(S, before) ==
    [k \in 1..Cardinality(S) |->
        CHOOSE i \in S : Cardinality({j \in S : <<j, i>> \in before}) = k - 1]

ByKey(items) ==
    LET before(i, j) ==
            \/ Above(items[i], items[j])
            \/ ~Above(items[j], items[i]) /\ i < j
        order == Positions(DOMAIN items,
                           {p \in (DOMAIN items) \X (DOMAIN items) : before(p[1], p[2])})
    IN  [k \in DOMAIN items |-> items[order[k]]]

\* Two neighbours in a row, the right one first.
Reversed(a, b) ==
    /\ b.y - a.y < RowTolerance
    /\ a.y - b.y < RowTolerance
    /\ b.x < a.x

\* Mutant: equal corners are swapped as well.
SwapEqual(items, item) ==
    LET stays(a) == ~(Reversed(a, item) \/ (a.y = item.y /\ a.x = item.x))
    IN  InsertAt(items, SelectLastInSeq(items, stays) + 1, item)

\* The inner loop: an item is swapped backwards until its neighbour may stay.
SwapBack(items, item) ==
    LET stays(a) == ~Reversed(a, item)
    IN  InsertAt(items, SelectLastInSeq(items, stays) + 1, item)

\* The outer loop.
SwapAll(items) ==
    LET swapped[k \in 0..Len(items)] ==
            IF k = 0 THEN <<>> ELSE SwapBack(swapped[k - 1], items[k])
    IN  swapped[Len(items)]

ReadingOrder(items) == SwapAll(ByKey(items))

\* validate_reading_order(): sorting the indices again must leave them alone.
InReadingOrder(items) ==
    LET indexed == [k \in DOMAIN items |->
                        [index |-> k, y |-> items[k].y, x |-> items[k].x]]
    IN  ReadingOrder(indexed) = indexed

(***************************************************************************)
(* Recognizer batches and CTC.                                             *)
(***************************************************************************)

\* perspective_crop(): tall crops are rotated.
CropOf(region) ==
    LET tall == 2 * region.h >= 3 * region.w
    IN  [w |-> IF tall THEN region.h ELSE region.w,
         h |-> IF tall THEN region.w ELSE region.h,
         steps |-> region.steps, clear |-> region.clear]

\* sorted_to_original: the crops of a batch by aspect ratio, ties by position.
AspectOrder(batch) ==
    LET wide(i, j) == batch[i].w * batch[j].h
        before(i, j) == wide(i, j) < wide(j, i) \/ (wide(i, j) = wide(j, i) /\ i < j)
    IN  Positions(DOMAIN batch,
                  {p \in (DOMAIN batch) \X (DOMAIN batch) : before(p[1], p[2])})

\* Mutant: the permutation is applied once more instead of being undone.
RestoreTwice(order, sorted) == [i \in DOMAIN sorted |-> sorted[order[i]]]

\* restore_order(): the output at position k belongs to the crop order[k].
RestoreOrder(order, sorted) ==
    [i \in DOMAIN sorted |-> sorted[CHOOSE k \in DOMAIN order : order[k] = i]]

\* The items at some positions, in their order.
Select(items, kept) ==
    LET order == Positions(kept, {p \in kept \X kept : p[1] < p[2]})
    IN  [k \in DOMAIN order |-> items[order[k]]]

\* decode_probabilities(): class zero is blank, a repeated class is one letter.
CtcDecode(steps) ==
    Select(steps, {t \in DOMAIN steps :
                      steps[t] # 0 /\ (t = 1 \/ steps[t - 1] # steps[t])})

Batch == SubSeq(crops, Len(sequences) + 1, Min({Len(sequences) + BatchLimit, Len(crops)}))

(***************************************************************************)
(* The engine.                                                             *)
(***************************************************************************)
Init ==
    /\ image \in Images
    /\ cancelled = FALSE /\ expired = FALSE
    /\ stage = "decode" /\ checked = FALSE
    /\ regions = <<>> /\ crops = <<>> /\ pixels = 0
    /\ output = "good"
    /\ sequences = <<>>
    /\ blocks = <<>> /\ seen = 0
    /\ answer = "none" /\ late = 0 /\ fault = FALSE

\* The request is stopped from outside while the engine works.
Cancel ==
    /\ answer = "none" /\ ~cancelled
    /\ cancelled' = TRUE
    /\ UNCHANGED <<image, expired, stage, checked, work, answer, late, fault>>

Expire ==
    /\ answer = "none" /\ ~expired
    /\ expired' = TRUE
    /\ UNCHANGED <<image, cancelled, stage, checked, work, answer, late, fault>>

Answer(code) ==
    /\ answer' = code
    /\ stage' = "end" /\ checked' = FALSE

\* The work of a stage is done, and the next one starts with a check.
Continue(next) ==
    /\ stage' = next /\ checked' = FALSE
    /\ UNCHANGED answer

StopCode == IF cancelled THEN "cancelled" ELSE "late"

\* Mutant: the context is checked only before the detector.
CheckOnce ==
    /\ stage \notin {"detecting", "recognizing", "end"} /\ ~checked
    /\ IF Stopped /\ stage \in {"decode", "preprocess", "detect"}
          THEN Answer(StopCode)
          ELSE checked' = TRUE /\ UNCHANGED <<stage, answer>>
    /\ UNCHANGED <<context, work, late, fault>>

\* check_context() precedes every piece of work; a cancellation goes first.
Check ==
    /\ stage \notin {"detecting", "recognizing", "end"} /\ ~checked
    /\ IF Stopped
          THEN Answer(StopCode)
          ELSE checked' = TRUE /\ UNCHANGED <<stage, answer>>
    /\ UNCHANGED <<context, work, late, fault>>

At(s) == stage = s /\ checked

\* The encoded image exceeds a configured limit, is refused, or is decoded.
Decode ==
    /\ At("decode")
    /\ \/ \E code \in {"invalid_request", "invalid_image"} : Answer(code)
       \/ Continue("preprocess")
    /\ UNCHANGED <<context, work, late, fault>>

Preprocess ==
    /\ At("preprocess")
    /\ Continue("detect")
    /\ UNCHANGED <<context, work, late, fault>>

\* A call of the runtime begins, and its request may have been stopped since
\* the check.
Call(calling) ==
    /\ stage' = calling /\ checked' = FALSE
    /\ late' = late + (IF Stopped THEN 1 ELSE 0)
    /\ UNCHANGED <<context, work, answer, fault>>

Detect == At("detect") /\ Call("detecting")

\* The runtime returns a tensor, which may have the wrong shape, or an error,
\* which is the reason of the stop or an internal one.
Return(next) ==
    \/ \E shape \in {"good", "bad"} :
          /\ output' = shape
          /\ fault' = (fault \/ shape = "bad")
          /\ Continue(next)
    \/ /\ Stopped
       /\ Answer(StopCode)
       /\ UNCHANGED <<output, fault>>
    \/ /\ Answer("internal")
       /\ fault' = TRUE
       /\ UNCHANGED output

DetectorReturns ==
    /\ stage = "detecting"
    /\ Return("postprocess")
    /\ UNCHANGED <<context, regions, crops, pixels, sequences, blocks, seen, late>>

\* validate_text(): a text consists of printable ASCII symbols.
Plain(block) == \A t \in DOMAIN block.text : block.text[t] \notin Foreign

\* finish_result(): the result is delivered if it passes its validation.
FinishResult(found) ==
    Answer(IF InReadingOrder(found) /\ \A i \in DOMAIN found : Plain(found[i])
              THEN "result" ELSE "internal")

\* into_map(), DbPostProcessor::process(), which looks for a stop as it goes,
\* and the sort.
Postprocess ==
    /\ At("postprocess")
    /\ \/ output = "bad" /\ Answer("internal") /\ UNCHANGED regions
       \/ output = "good" /\ Stopped /\ Answer(StopCode) /\ UNCHANGED regions
       \/ output = "good" /\ regions' = ReadingOrder(image) /\ Continue("crop")
    /\ UNCHANGED <<context, crops, pixels, output, sequences, blocks, seen, late, fault>>

\* Without regions the crops and the recognizer are skipped.
NothingFound ==
    /\ At("crop") /\ regions = <<>>
    /\ FinishResult(<<>>)
    /\ UNCHANGED <<context, work, late, fault>>

Fits(region) == pixels + region.w * region.h <= MaxPixels

\* One region is counted against the budget and cut out of the image, unless
\* the projection bent or shrank it to something that is no quadrilateral.
CropRegion ==
    /\ At("crop") /\ Len(crops) < Len(regions)
    /\ LET region == regions[Len(crops) + 1]
       IN  \/ /\ Fits(region)
              /\ pixels' = pixels + region.w * region.h
              /\ crops' = Append(crops, CropOf(region))
              /\ Continue(IF Len(crops) + 1 = Len(regions) THEN "recognize" ELSE "crop")
           \/ Fits(region) /\ Answer("invalid_image") /\ UNCHANGED <<pixels, crops>>
           \/ ~Fits(region) /\ Answer("overloaded") /\ UNCHANGED <<pixels, crops>>
    /\ UNCHANGED <<context, regions, output, sequences, blocks, seen, late, fault>>

\* preprocess_recognizer_batch() and the call of the recognizer.
Recognize == At("recognize") /\ Call("recognizing")

RecognizerReturns ==
    /\ stage = "recognizing"
    /\ Return("read")
    /\ UNCHANGED <<context, regions, crops, pixels, sequences, blocks, seen, late>>

\* decode() and restore_order(): the tensor has the texts in its own order.
Read ==
    /\ At("read")
    /\ IF output = "bad"
          THEN Answer("internal") /\ UNCHANGED sequences
          ELSE LET order == AspectOrder(Batch)
                   sorted == [k \in DOMAIN order |->
                                 [text |-> CtcDecode(Batch[order[k]].steps),
                                  clear |-> Batch[order[k]].clear]]
               IN  /\ sequences' = sequences \o RestoreOrder(order, sorted)
                   /\ Continue(IF Len(sequences') < Len(crops) THEN "recognize" ELSE "assemble")
    /\ UNCHANGED <<context, regions, crops, pixels, output, blocks, seen, late, fault>>

\* An empty text, or one below the minimum confidence, makes no block.
Block(i) ==
    IF sequences[i].text = <<>> \/ ~sequences[i].clear
        THEN <<>>
        ELSE <<[y |-> regions[i].y, x |-> regions[i].x, text |-> sequences[i].text]>>

Assemble ==
    /\ At("assemble")
    /\ seen' = seen + 1
    /\ blocks' = blocks \o Block(seen')
    /\ IF seen' = Len(regions) THEN FinishResult(blocks') ELSE Continue("assemble")
    /\ UNCHANGED <<context, regions, crops, pixels, output, sequences, late, fault>>

Work ==
    \/ Decode \/ Preprocess \/ Detect \/ Postprocess
    \/ NothingFound \/ CropRegion \/ Recognize \/ Read \/ Assemble

RuntimeReturns == DetectorReturns \/ RecognizerReturns

Next == Cancel \/ Expire \/ Check \/ Work \/ RuntimeReturns

Spec == Init /\ [][Next]_vars

TypeOK ==
    /\ image \in Images
    /\ cancelled \in BOOLEAN /\ expired \in BOOLEAN
    /\ stage \in Stages /\ checked \in BOOLEAN
    /\ output \in {"good", "bad"} /\ fault \in BOOLEAN
    /\ answer \in Answers
    /\ {pixels, seen, late} \subseteq Nat

(***************************************************************************)
(* Safety.                                                                 *)
(***************************************************************************)

\* The text of a crop as CTC defines it: runs collapse, then blanks go.
Runs(steps) ==
    LET runs[t \in 0..Len(steps)] ==
            IF t = 0 THEN <<>>
            ELSE IF runs[t - 1] # <<>> /\ Last(runs[t - 1]) = steps[t] THEN runs[t - 1]
            ELSE Append(runs[t - 1], steps[t])
    IN  runs[Len(steps)]

Reading(region) ==
    LET runs == Runs(region.steps)
    IN  Select(runs, {k \in DOMAIN runs : runs[k] # 0})

\* "Regions retain the canonical Paddle reading order across chunk boundaries":
\* whatever order the batches are recognized in, a result has each region that
\* reads as something, with its own text; the sort by swaps loses no region, and
\* leaves no two neighbours of a row reversed.
TextsOfTheirRegions ==
    answer = "result" =>
        /\ ToBag(regions) = ToBag(image)
        /\ \A i \in 1..(Len(regions) - 1) : ~Reversed(regions[i], regions[i + 1])
        /\ LET read == [i \in DOMAIN regions |->
                           [y |-> regions[i].y, x |-> regions[i].x,
                            text |-> Reading(regions[i]), clear |-> regions[i].clear]]
               kept == Select(read, {i \in DOMAIN read : read[i].text # <<>> /\ read[i].clear})
           IN  blocks = [i \in DOMAIN kept |->
                            [y |-> kept[i].y, x |-> kept[i].x, text |-> kept[i].text]]

\* Validation sorts the blocks of a result once more.  It accepts the engine's
\* own order as long as no region is left out: then an internal error has its
\* cause in the runtime or in a symbol outside of ASCII.
WholeResultsAreValid ==
    answer = "internal" =>
        \/ fault
        \/ \E i \in DOMAIN sequences : Block(i) = <<>>
        \/ \E i \in DOMAIN blocks : ~Plain(blocks[i])

\* "Empty or below-threshold recognition is filtered without reordering
\* survivors": so an internal error has its cause in the runtime, or in a symbol
\* outside of ASCII.
SurvivorsAreValid ==
    answer = "internal" => fault \/ \E i \in DOMAIN blocks : ~Plain(blocks[i])

\* Between the stages the engine sees that it was stopped: of the calls of the
\* runtime at most one begins afterwards, between its check and its start.
StopIsPrompt == late <= 1
==============================================================================
