------------------------------ MODULE LabelJob ------------------------------
(***************************************************************************)
(* A request for labels on its way from the settings to the printer: the   *)
(* service takes an asset's request batch by batch through validate,       *)
(* reserve, render and enqueue; reprint_range.py and enqueue_test_job.py   *)
(* take a range straight to render.  Nothing fails here but what the       *)
(* values make fail; what else can fail is in the other modules.           *)
(***************************************************************************)
EXTENDS Labels, FiniteSets

CONSTANTS
  Settings,   \* settings, see Labels
  Requests,   \* requests: [source, prefix, first, qty, copies, what]
  BatchSize,  \* guards.BATCH_SIZE
  MaxPixels   \* twice Pillow's MAX_IMAGE_PIXELS

Sources == {"poll", "reprint", "test"}

ASSUME ConstantsAssumption ==
  /\ Settings \subseteq SettingsType
  /\ Requests \subseteq
       [source : Sources, prefix : Prefix, first : Int, qty : Int, copies : Int, what : Nat]
  /\ BatchSize \in Nat \ {0} /\ MaxPixels \in Nat

VARIABLES
  cfg,      \* the settings
  req,      \* the request
  pc,       \* the call that comes next
  next,     \* Next Cable ID, or the first number of a tool's range
  left,     \* Cables to Label, or the length of the range
  checked,  \* the size that validate found to fit
  plan,     \* the block in hand: first, count, perCable
  ids,      \* the identifiers of the block
  size,     \* the size they are drawn at
  strip,    \* the payload
  fates,    \* how the blocks taken so far have ended
  printed   \* the labels the printer has been given, in order

vars == <<cfg, req, pc, next, left, checked, plan, ids, size, strip, fates, printed>>

NoPlan == [first |-> 0, count |-> 0, perCable |-> 0]

Last == plan.first + plan.count - 1

NoStrip == [width |-> 0, height |-> 0, ink |-> <<>>]

label_count == plan.count * plan.perCable

Init ==
  /\ cfg \in Settings
  /\ req \in Requests
  /\ pc = "load"
  /\ next = req.first
  /\ left = req.qty
  /\ checked = 0
  /\ plan = NoPlan
  /\ ids = <<>>
  /\ size = 0
  /\ strip = NoStrip
  /\ fates = {}
  /\ printed = <<>>

\* A block has ended; a request larger than a batch goes on at the next poll.
Ended(fate) ==
  /\ fates' = fates \cup {fate}
  /\ pc' = IF req.source = "poll" /\ left > 0 THEN "validate" ELSE "end"
  /\ UNCHANGED <<cfg, req, next, left, checked, plan, ids, size, strip>>

-----------------------------------------------------------------------------
(* The settings and the request.                                           *)

\* load_config; the tools look at their range before.
LoadConfig ==
  /\ pc = "load"
  /\ Accepted(cfg)
  /\ req.source # "poll" => left >= 1
  /\ req.source = "reprint" => next >= 0
  /\ pc' = IF req.source = "poll" THEN "validate" ELSE "plan"
  /\ UNCHANGED <<cfg, req, next, left, checked, plan, ids, size, strip, fates, printed>>

Refuse ==
  /\ pc = "load"
  /\ \/ ~Accepted(cfg)
     \/ req.source # "poll" /\ left < 1
     \/ req.source = "reprint" /\ next < 0
  /\ pc' = "end"
  /\ UNCHANGED <<cfg, req, next, left, checked, plan, ids, size, strip, fates, printed>>

\* The tools check nothing more, and --copies 0 is not given.
PlanRange ==
  /\ pc = "plan"
  /\ plan' = [first    |-> next,
              count    |-> left,
              perCable |-> IF req.source = "reprint" /\ req.copies # 0 THEN req.copies ELSE cfg.perCable]
  /\ ids' = format_block(cfg, req.prefix, next, next + left - 1)
  /\ pc' = "render"
  /\ UNCHANGED <<cfg, req, next, left, checked, size, strip, fates, printed>>

\* (A slip: any prefix will do.)
AnyPrefix(c, prefix) == prefix.letters > 0

\* re.match with layout.prefix_pattern.
Matches(c, prefix) == prefix.letters \in 1..c.prefixMax /\ (c.loose \/ prefix.alnum)

\* (A slip: the comparison is the wrong way round.)
SwappedClamp == IF left > BatchSize THEN left ELSE BatchSize

clamp_qty == IF left > BatchSize THEN BatchSize ELSE left

\* (A slip: the first identifier is measured.)
FirstNumber == next

\* The number of the widest identifier of the block.
WidestNumber == next + clamp_qty - 1

Fitting == fit_font_px(cfg, format_identifier(cfg, req.prefix, WidestNumber))

Valid ==
  /\ Matches(cfg, req.prefix)
  /\ next >= 1 /\ left >= 1
  /\ Fitting > 0

\* allocator.validate: the batch is laid out dry.
Validate ==
  /\ pc = "validate"
  /\ Valid
  /\ plan' = [first |-> next, count |-> clamp_qty, perCable |-> cfg.perCable]
  /\ checked' = Fitting
  /\ pc' = IF cfg.shadow THEN "end" ELSE "reserve"
  /\ UNCHANGED <<cfg, req, next, left, ids, size, strip, fates, printed>>

\* A ValidationError: the request stays on the asset.
NotValid ==
  /\ pc = "validate"
  /\ ~Valid
  /\ pc' = "end"
  /\ UNCHANGED <<cfg, req, next, left, checked, plan, ids, size, strip, fates, printed>>

\* allocator.reserve: from here on the numbers are gone.
Reserve ==
  /\ pc = "reserve"
  /\ next' = Last + 1
  /\ left' = left - plan.count
  /\ ids' = format_block(cfg, req.prefix, plan.first, Last)
  /\ pc' = "render"
  /\ UNCHANGED <<cfg, req, checked, plan, size, strip, fates, printed>>

-----------------------------------------------------------------------------
(* The job.                                                                *)

\* renderer.render: one size for the block.
Render ==
  /\ pc = "render"
  /\ label_count > 0
  /\ size' = block_font_px(cfg, ids)
  /\ size' > 0
  /\ strip' = Strip(cfg, label_sequence(ids, plan.perCable), size')
  /\ pc' = "enqueue"
  /\ UNCHANGED <<cfg, req, next, left, checked, plan, ids, fates, printed>>

\* A LayoutError.
RenderRaises ==
  /\ pc = "render"
  /\ label_count <= 0 \/ block_font_px(cfg, ids) = 0
  /\ Ended("layout")
  /\ UNCHANGED printed

\* validate_job on the sidecar that build_sidecar makes.
SidecarAccepted ==
  /\ JobNameLength(cfg, req.what, ids[1], ids[Len(ids)]) <= 200
  /\ req.prefix.letters \in 1..32
  /\ plan.first >= 0

Enqueue ==
  /\ pc = "enqueue"
  /\ SidecarAccepted
  /\ pc' = "agent"
  /\ UNCHANGED <<cfg, req, next, left, checked, plan, ids, size, strip, fates, printed>>

SidecarRefused ==
  /\ pc = "enqueue"
  /\ ~SidecarAccepted
  /\ Ended("sidecar")
  /\ UNCHANGED printed

\* parse_stem takes back what format_stem wrote.
StemParses == req.prefix.alnum

\* The agent has a job whose file name it cannot read.
AgentRejects ==
  /\ pc = "agent"
  /\ ~StemParses
  /\ Ended("stem")
  /\ UNCHANGED printed

Opens == strip.width * strip.height <= MaxPixels

\* GdiBackend.print: the strip is opened, cut and drawn page by page.
PrintPages ==
  /\ pc = "agent"
  /\ StemParses
  /\ Opens /\ Divides(strip.height, label_count)
  /\ printed' = printed \o [i \in 1..label_count |-> strip.ink[i].text]
  /\ Ended("sent")

\* It cannot be opened, or page_boxes refuses to guess.
PrintRaises ==
  /\ pc = "agent"
  /\ StemParses
  /\ ~Opens \/ ~Divides(strip.height, label_count)
  /\ Ended(IF Opens THEN "cut" ELSE "pixels")
  /\ UNCHANGED printed

-----------------------------------------------------------------------------
(* The specification.                                                      *)

Next ==
  \/ LoadConfig \/ Refuse \/ PlanRange
  \/ Validate \/ NotValid \/ Reserve
  \/ Render \/ RenderRaises
  \/ Enqueue \/ SidecarRefused
  \/ AgentRejects \/ PrintPages \/ PrintRaises

Spec == Init /\ [][Next]_vars

-----------------------------------------------------------------------------
(* Properties.                                                             *)

Fates == {"layout", "sidecar", "stem", "pixels", "cut", "sent"}

\* The state has its type.
TypeOK ==
  /\ cfg \in Settings /\ req \in Requests
  /\ pc \in {"load", "plan", "validate", "reserve", "render", "enqueue", "agent", "end"}
  /\ next \in Int /\ left \in {req.qty} \cup 0..req.qty
  /\ checked \in Nat /\ size \in Nat
  /\ plan.first \in Int /\ plan.count \in Int /\ plan.perCable \in Int
  /\ fates \subseteq Fates
  /\ Len(printed) \in Nat

Taken == req.source = "poll" /\ pc \in {"render", "enqueue", "agent"}

\* validate measures the last identifier of a block, block_font_px the first of
\* the widest: two texts of one width, whose heights differ when only one of
\* them has a digit with a bowl.
SameHeight ==
  HasBowls(Widest(cfg, ids)) = HasBowls(format_identifier(cfg, req.prefix, Last))

\* What validate measured before the numbers were taken is the size they are
\* drawn at, and render does not refuse them, but for the height of the digits
\* (allocator.validate and layout.block_font_px).
SizeAsValidated ==
  Taken /\ SameHeight =>
    /\ pc \in {"enqueue", "agent"} => size = checked
    /\ pc = "render" => block_font_px(cfg, ids) = checked

\* What load_config leaves open: the smallest size in pixels, the longest name of a
\* block of this request, and the pixels of a full batch.
SmallestSize == px(cfg.minFont * cfg.dpi, 72)

LongestName ==
  (IF req.what > 0 THEN req.what + 3 ELSE 0) + 3
    + 2 * (cfg.prefixMax + cfg.sepLen + Max({cfg.pad, Width(req.first + req.qty - 1)}))

FullStrip == Pixels(cfg, cfg.labelW) * (PageHeight(cfg) * (BatchSize * cfg.perCable))

\* A block whose numbers were taken reaches the printer, unless the settings let
\* through what is refused later: a smallest size at which a bowl is a pixel,
\* prefixes of other characters than the agent's stem, longer than the sidecar's,
\* names longer than the sidecar's, or a strip larger than Pillow opens
\* (validate, block_font_px, parse_stem, validate_job).
TakenIsPrinted ==
  req.source = "poll" =>
    /\ "cut" \notin fates
    /\ "layout" \in fates => SmallestSize >= 40
    /\ "stem" \in fates => cfg.loose
    /\ "sidecar" \in fates => cfg.prefixMax > 32 \/ LongestName > 200
    /\ "pixels" \in fates => FullStrip > MaxPixels

\* The agent cuts the strip where the renderer put the pages, and every line of
\* a label is on its own page (render and page_boxes).
InkOnItsPage ==
  pc = "agent" =>
    /\ Divides(strip.height, label_count)
    /\ LET boxes == page_boxes(strip.height, label_count)
       IN \A i \in 1..label_count :
            LET text == strip.ink[i].text IN
              /\ \A l \in 0..(cfg.repeat - 1) :
                   /\ boxes[i].top <= strip.ink[i].tops[l]
                   /\ strip.ink[i].tops[l] + TextHeight(text, size) <= boxes[i].bottom
              /\ InkLeft(cfg, text, size) >= 0
              /\ InkLeft(cfg, text, size) + TextWidth(cfg, text, size) <= strip.width

\* The labels for the ends of one cable are the same to the pixel ("both ends of
\* every cable get an identical label", README; the rounding in _render_png).
EndsAreIdentical ==
  pc = "agent" =>
    \A i \in 1..plan.count :
      LET pages == (i - 1) * plan.perCable + 1 .. i * plan.perCable
      IN \A p, q \in pages, l \in 0..(cfg.repeat - 1) :
           strip.ink[p].tops[l] - (p - 1) * PageHeight(cfg)
             = strip.ink[q].tops[l] - (q - 1) * PageHeight(cfg)

\* Across all batches of a request the printer is given each identifier for one
\* cable only, its labels one after the other (format_identifier never
\* truncates, label_sequence makes adjacent pairs, reserve writes the remainder).
EveryCableOnce ==
  Len(printed) > 0 =>
    /\ \A i \in 2..Len(printed) :
         printed[i] = printed[i - 1] <=> (i - 1) % plan.perCable # 0
    /\ Cardinality({printed[i] : i \in DOMAIN printed}) * plan.perCable = Len(printed)

Words == {4, 6, 7}   \* SENT, QUEUED, STALLED

\* A status line keeps the word and the whole range, whatever the reason, with
\* the shipped prefix pattern and separator, padding and numbers of up to five
\* digits (format_status_line and the least length that load_config accepts).
StatusKeepsRange ==
  Taken /\ cfg.prefixMax <= 8 /\ cfg.sepLen <= 1 /\ cfg.pad <= 5 /\ Last <= 99999 =>
    \A word \in Words, tail \in {40, 70}, reason \in {0, 10, 300} :
      LET head == HeadLength(cfg, word, ids[1], ids[Len(ids)])
      IN LineLength(cfg, head, tail, reason) >= head

\* config.py, _load_media, "leaving it false blocks anything that could reach
\* media": nothing is printed with a geometry nobody has measured.
UnmeasuredReachesNoMedia == printed # <<>> => cfg.configured

\* guards.py, "past roughly 400 cables it crosses Pillow's decompression-bomb
\* limit and the agent refuses to open it": nothing is printed from a strip
\* larger than MAX_IMAGE_PIXELS, which is where Pillow begins to warn.
PastLimitIsRefused ==
  printed # <<>> => strip.width * strip.height <= MaxPixels \div 2

=============================================================================
