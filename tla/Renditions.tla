------------------------------ MODULE Renditions ------------------------------
(***************************************************************************)
(* What the worker makes of one photo (photo_processor.py, anonymize.py,   *)
(* detections.py, blur.py): it reads the embedded data, merges what the    *)
(* uploader knows, finds people and vehicles at several scales and tile by *)
(* tile, hides them, and publishes one rendition after another under paths *)
(* that are the same for every job of the photo.  A photo is processed     *)
(* again when it failed, or when its owner edits what is to be hidden.     *)
(*                                                                         *)
(* A picture is a row of cells.  Boxes, tiles and crops are intervals of   *)
(* cells; a cell is wider than the detector's tolerance of one pixel.      *)
(***************************************************************************)
EXTENDS Integers, SequencesExt

CONSTANTS
    Width,          \* of the picture, in cells
    Tile, TileStep,     \* max_tile_size, and what the overlap leaves of it
    MaxBoxes,       \* bound: boxes that the detector finds
    MaxJobs         \* bound: how often the photo is processed

ASSUME RenditionsAssumption ==
    /\ Width \in Nat \ {0, 1, 2} /\ Tile \in Nat \ {0} /\ TileStep \in 1..Tile
    /\ MaxBoxes \in Nat /\ MaxJobs \in Nat

VARIABLES
    image,          \* the file, what was uploaded with it, and what is in it
    work,           \* the job under way, or the last one
    saved,          \* the last result that was reported as completed
    online,         \* the rendition at each path: what it hides
    jobs            \* jobs that were started

renderVars == <<image, work, saved, online, jobs>>

\* One of the sizes, the centre crop, the variant for the language model, and
\* the pyramid, in the order in which they are published. (A job that is asked
\* to be fast ends after the first two; it is left out.)
Sizes == <<"full", "crop", "llm", "dzi">>

Cells == 0..(Width - 1)
CellsOf(o) == o.from..(o.to - 1)

\* create_center_crop shows the middle of the picture.
Area(r) == IF r = "crop" THEN 1..(Width - 2) ELSE Cells

-----------------------------------------------------------------------------
(* Detection                                                               *)

StepsWithin(length) == {s \in 0..(length - Tile) : s % TileStep = 0}

\* Faulty variant: the trailing edge is only covered if the steps reach it.
StepsAlone(length) == StepsWithin(length) \cup {0}

\* _tile_starts: every TileStep, and a last tile that ends with the picture.
TileStarts(length) == IF length <= Tile THEN {0} ELSE StepsWithin(length) \cup {length - Tile}

\* A box lies within a tile of the picture at one of the scales, and is scaled
\* back; halving stops when the picture fits into a tile.
Found(scale) ==
    {o \in [from : Cells, to : 1..Width, conf : {"low", "high"}, blurred : {"unset"}] :
        /\ o.from < o.to /\ o.from % scale = 0 /\ o.to % scale = 0
        /\ \E t \in TileStarts(Width \div scale) :
              scale * t <= o.from /\ o.to <= scale * (t + Tile)}

Findable == Found(1) \cup (IF Width > Tile THEN Found(2) ELSE {})

Length(o) == o.to - o.from

\* Neither the class nor the confidence of the two boxes matters.
Redundant(o, k) == CellsOf(o) \subseteq CellsOf(k)

\* Descending by area; boxes of one area stay in the order they were found in.
Earlier(raw, i, j) ==
    \/ Length(raw[i]) > Length(raw[j])
    \/ Length(raw[i]) = Length(raw[j]) /\ i < j

\* A box is dropped for an earlier one that is kept.  Whether the earlier one is
\* kept makes no difference: what it was dropped for contains this box too.
KeptBoxes(raw) ==
    {i \in DOMAIN raw :
        ~ \E j \in DOMAIN raw : Earlier(raw, j, i) /\ Redundant(raw[i], raw[j])}

deduplicate_boxes(raw) == {raw[i] : i \in KeptBoxes(raw)}

\* Manual rectangles and the oldest records carry no confidence.
should_blur(o) == o.conf # "low"

\* anonymize_image stores its decision; what reads a record without it decides anew.
Decided(o) == [o EXCEPT !.blurred = IF should_blur(o) THEN "yes" ELSE "no"]

IsBlurred(o) == IF o.blurred = "unset" THEN should_blur(o) ELSE o.blurred = "yes"

CellsOfAll(objects) == (UNION {CellsOf(o) : o \in objects}) \cap Cells

\* apply_blur, of every object that is to be blurred.
Painted(objects) == CellsOfAll({o \in objects : IsBlurred(o)})

\* Faulty variant: the near-misses are blacked out as well.
AllBlackened(objects) == CellsOfAll(objects)

\* The language model's variant is made from the source file anew.
Blackened(objects) == CellsOfAll({o \in objects : IsBlurred(o)})

HiddenIn(r, objects) == Area(r) \cap (IF r = "llm" THEN Blackened(objects) ELSE Painted(objects))

-----------------------------------------------------------------------------
(* Where the photo was taken                                               *)

Fields == {"lat", "lon", "bearing"}
Nowhere == [f \in Fields |-> "none"]
Somewhere == [f \in Fields |-> "some"]

\* extract_exif_data: a bearing out of range costs the coordinates as well.
Embedded == IF ~ image.readable \/ image.exif["bearing"] = "bad" THEN Nowhere ELSE image.exif

\* Metadata wins over what is embedded where it is not silent.
Place == [f \in Fields |-> IF image.meta[f] # "none" THEN image.meta[f] ELSE Embedded[f]]

\* `not latitude` also holds of the equator.
Located == Place["lat"] = "some" /\ Place["lon"] # "none" /\ Place["bearing"] # "none"

\* exif_data['data'] is asked for an orientation before anything has put it there.
DataMissing == ~ image.readable /\ image.with \in {"nothing", "orientation"}

\* What read_image can decode without guessing; an EXR must say how it is encoded.
Decodable == image.colour = "plain" \/ (image.colour = "untagged" /\ image.with = "encoding")

PlainImage == [content |-> "image", readable |-> TRUE, exif |-> Somewhere, colour |-> "plain",
               with |-> "nothing", meta |-> Nowhere, boxes |-> <<>>, looked |-> FALSE]

Images ==
    [content : {"image", "junk", "badRaw"}, readable : BOOLEAN,
     exif : [Fields -> {"some", "none", "zero", "bad"}],
     colour : {"plain", "doubtful", "untagged"}, with : {"nothing", "orientation", "encoding"},
     meta : {Nowhere, Somewhere}, boxes : {<<>>}, looked : {FALSE}]

\* Files with something amiss, with and without what metadata can mend.
OddImages ==
    {g \in Images :
        \/ \E c \in {"junk", "badRaw"} : g = [PlainImage EXCEPT !.content = c]
        \/ \E c \in {"doubtful", "untagged"}, w \in {"nothing", "encoding"} :
              g = [PlainImage EXCEPT !.colour = c, !.with = w]
        \/ \E w \in {"nothing", "orientation", "encoding"}, m \in {Nowhere, Somewhere} :
              /\ w = "nothing" => m = Nowhere
              /\ g = [PlainImage EXCEPT !.readable = FALSE, !.with = w, !.meta = m]
        \/ \E f \in Fields, v \in {"none", "zero", "bad"}, m \in {Nowhere, Somewhere} :
              g = [PlainImage EXCEPT !.exif[f] = v, !.with = "encoding", !.meta = m]}

-----------------------------------------------------------------------------
NoJob == [at |-> "none", override |-> "auto", left |-> <<>>, objects |-> {},
          made |-> {}, outcome |-> "none"]

Box(a, b, c, m) == [from |-> a, to |-> b, conf |-> c, blurred |-> m]

\* An edit's rectangles; a record of an older worker.
Rectangles == {Box(0, 1, "none", "yes")}
Legacy == {Box(0, 1, "none", "unset"), Box(1, 2, "low", "unset"), Box(2, 3, "high", "no")}

RendersTypeOK ==
    /\ work.at \in {"none", "started", "examined", "publishing", "over"}
    /\ work.override \in {"auto", "skip", "rectangles", "legacy", "stored"}
    /\ work.outcome \in {"none", "completed", "permanent", "retry", "deleted"}
    /\ work.objects \cup saved.objects \subseteq
          [from : Cells, to : 1..Width, conf : {"none", "low", "high"},
           blurred : {"yes", "no", "unset"}]
    /\ Range(work.left) \cup work.made \cup saved.made \subseteq Range(Sizes)
    /\ online \in [Range(Sizes) -> [by : {"nobody", "saved", "later"},
                                  hides : SUBSET Cells]]
    /\ jobs \in 0..MaxJobs

RendersInit ==
    /\ image \in OddImages \cup {PlainImage}
    /\ work = NoJob /\ jobs = 0
    /\ saved = [done |-> FALSE, auto |-> FALSE, objects |-> {}, made |-> {}]
    /\ online = [r \in Range(Sizes) |-> [by |-> "nobody", hides |-> {}]]

-----------------------------------------------------------------------------
\* The first upload; a retry with the same parameters; a re-upload of what was
\* completed, with other anonymization.
StartJob(override) ==
    /\ jobs < MaxJobs /\ jobs' = jobs + 1
    /\ CASE work.at = "none" -> override # "stored"
         [] work.at = "over" /\ work.outcome = "retry" -> override = work.override
         [] work.at = "over" /\ work.outcome = "completed" -> TRUE
         [] OTHER -> FALSE
    /\ work' = [NoJob EXCEPT !.at = "started", !.override = override, !.left = Sizes]
    /\ UNCHANGED <<image, saved, online>>

JobBecomes(j) == work' = j /\ UNCHANGED <<image, saved, online, jobs>>

JobEnds(outcome) == JobBecomes([work EXCEPT !.at = "over", !.outcome = outcome])

\* process_uploaded_photo up to the validation. A ValueError is final; a missing
\* key is an unexpected error, and the client is told to try again.
Examine ==
    /\ work.at = "started"
    /\ CASE image.content # "image" -> JobEnds("permanent")
         [] image.content = "image" /\ DataMissing -> JobEnds("retry")
         [] image.content = "image" /\ ~ DataMissing /\ ~ Located -> JobEnds("permanent")
         [] OTHER -> JobBecomes([work EXCEPT !.at = "examined"])

\* The detector says the same of the same file again. In odd files it finds
\* nothing, and only among boxes of one area does the order matter.
Detections ==
    IF image.looked THEN {image.boxes}
    ELSE {raw \in UNION {[1..n -> Findable] :
                            n \in 0..(IF image = PlainImage THEN MaxBoxes ELSE 0)} :
            \A i, j \in DOMAIN raw : i < j => Length(raw[i]) >= Length(raw[j])}

\* create_optimized_sizes: the objects to record, by the kind of the override.
Objects(override) ==
    CASE override = "skip" -> {}
      [] override = "rectangles" -> Rectangles
      [] override = "legacy" -> Legacy
      [] override = "stored" -> saved.objects

Hidden(objects) == work' = [work EXCEPT !.at = "publishing", !.objects = objects]

anonymize_image ==
    /\ work.at = "examined" /\ Decodable /\ work.override = "auto"
    /\ \E raw \in Detections :
         /\ image' = [image EXCEPT !.boxes = raw, !.looked = TRUE]
         /\ Hidden({Decided(o) : o \in deduplicate_boxes(raw)})
    /\ UNCHANGED <<saved, online, jobs>>

ApplyOverride ==
    /\ work.at = "examined"
    /\ IF Decodable THEN work.override # "auto" /\ Hidden(Objects(work.override))
                    ELSE work' = [work EXCEPT !.at = "over", !.outcome = "permanent"]
    /\ UNCHANGED <<image, saved, online, jobs>>

PublishNext ==
    /\ work.at = "publishing" /\ work.left # <<>>
    /\ LET r == Head(work.left) IN
       /\ online' = [online EXCEPT ![r] = [by |-> "later", hides |-> HiddenIn(r, work.objects)]]
       /\ work' = [work EXCEPT !.left = Tail(@), !.made = @ \cup {r}]
    /\ UNCHANGED <<image, saved, jobs>>

Report ==
    /\ work.at = "publishing" /\ work.left = <<>>
    /\ work' = [work EXCEPT !.at = "over", !.outcome = "completed"]
    /\ saved' = [done |-> TRUE, auto |-> work.override = "auto", objects |-> work.objects,
                 made |-> work.made]
    /\ online' = [r \in DOMAIN online |->
                    IF r \in work.made THEN [online[r] EXCEPT !.by = "saved"] ELSE online[r]]
    /\ UNCHANGED <<image, jobs>>

\* A tool's timeout, a server error, a full disk, a killed process; or the API
\* answers that the photo is gone.
Fail ==
    /\ work.at \in {"started", "examined", "publishing"}
    /\ \/ JobEnds("retry")
       \/ work.at = "publishing" /\ work.left # <<>> /\ JobEnds("deleted")

RendersNext ==
    \/ \E override \in {"auto", "skip", "rectangles", "legacy", "stored"} :
         StartJob(override)
    \/ Examine \/ anonymize_image \/ ApplyOverride \/ PublishNext \/ Report \/ Fail

RendersSpec == RendersInit /\ [][RendersNext]_renderVars

-----------------------------------------------------------------------------
\* create_optimized_sizes, apply_blur, apply_blackout, generate_dzi_pyramid:
\* every rendition that the photo's record lists hides exactly the objects that
\* the record marks as blurred, or was replaced by a later job that did not
\* come to its end: the painted sizes, the variant blacked out anew, the
\* crop and the pyramid agree, also when a stored record is applied again.
HiddenAsRecorded ==
    \A r \in saved.made :
        \/ online[r].by = "saved" /\ online[r].hides = Area(r) \cap Painted(saved.objects)
        \/ online[r].by = "later"

\* deduplicate_boxes: everything that the detector found lies within an object
\* that is recorded.
DetectionsRecorded ==
    work.at = "publishing" /\ work.override = "auto" =>
        \A i \in DOMAIN image.boxes :
            \E o \in work.objects : CellsOf(image.boxes[i]) \subseteq CellsOf(o)

\* _tile_starts: what is no longer than the overlap is in one tile as a whole,
\* wherever it is, up to the edges of the picture, for pictures of any length.
TilesCover ==
    \A length \in 1..(2 * Width + 1) : \A a \in 0..(length - 1), n \in 0..(Tile - TileStep) :
        a + n <= length => \E t \in TileStarts(length) : t <= a /\ a + n <= t + Tile

\* The detector sees everything that is small enough, and everything that it
\* found lies within an object that is recorded: tiling loses nothing at the
\* seams and deduplicate_boxes nothing at all.
NothingOverlooked == jobs > 0 => TilesCover /\ DetectionsRecorded

\* From the detector to what is published (anonymize.py, photo_processor.py):
\* what it found is recorded, and what is recorded is hidden.
FoundIsHidden == NothingOverlooked /\ HiddenAsRecorded

\* "detections at or above this are actually blurred" (detections.py:19): what
\* the detector found with confidence is hidden in a photo that is completed.
\* It is not when a larger or equal box of little confidence came before it:
\* deduplicate_boxes drops the confident one, and the other is left visible.
ConfidentAreHidden ==
    saved.done /\ saved.auto =>
        \A i \in DOMAIN image.boxes : image.boxes[i].conf = "high" =>
            CellsOf(image.boxes[i]) \subseteq Painted(saved.objects)
=============================================================================
