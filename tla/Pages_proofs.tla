----------------------------- MODULE Pages_proofs -----------------------------
(***************************************************************************)
(* What a block whose numbers are taken comes to.  It reaches the printer  *)
(* but for what the settings leave open: validate measured its last        *)
(* identifier at a size at which the widest fits too (WidestFits), its     *)
(* name grows with the digits of its last number, its strip with the       *)
(* batch.  And the ink of its labels stays on their pages: text that fits  *)
(* is placed within the zone but for the roundings, which a margin of two  *)
(* pixels takes up.                                                        *)
(***************************************************************************)
EXTENDS LabelJob_proofs

-----------------------------------------------------------------------------
(* Sizes that fit.                                                         *)

Fits(c, id, s) ==
  /\ s \in px(c.minFont * c.dpi, 72) .. px(c.maxFont * c.dpi, 72)
  /\ TextWidth(c, id, s) <= MaxWidth(c) /\ TextHeight(id, s) <= MaxHeight(c)

LEMMA FontSizes ==
  ASSUME NEW c \in SettingsType
  PROVE  px(c.minFont * c.dpi, 72) \in Nat \ {0} /\ px(c.maxFont * c.dpi, 72) \in Nat \ {0}
<1>1. c.minFont * c.dpi \in Int /\ c.maxFont * c.dpi \in Int
  BY DEF SettingsType
<1>2. QED
  BY <1>1, PixelType

\* The font search finds a size exactly if one fits, and the one it finds fits.
LEMMA FitIs ==
  ASSUME NEW c \in SettingsType, NEW id
  PROVE  /\ fit_font_px(c, id) > 0 => Fits(c, id, fit_font_px(c, id))
         /\ \A s : Fits(c, id, s) => fit_font_px(c, id) > 0
<1> DEFINE a == px(c.minFont * c.dpi, 72)
           b == px(c.maxFont * c.dpi, 72)
           sizes == {s \in a..b : TextWidth(c, id, s) <= MaxWidth(c)
                                    /\ TextHeight(id, s) <= MaxHeight(c)}
<1>1. a \in Nat \ {0} /\ b \in Nat \ {0} /\ a \in Int /\ b \in Int
  <2>1. a \in Nat \ {0} /\ b \in Nat \ {0}
    BY FontSizes
  <2> HIDE DEF a, b
  <2>2. QED
    BY <2>1
<1>2. fit_font_px(c, id) = IF sizes = {} THEN 0 ELSE Max(sizes)
  BY DEF fit_font_px
<1>3. \A s : Fits(c, id, s) <=> s \in sizes
  BY DEF Fits
<1>4. sizes \in SUBSET (a..b)
  OBVIOUS
<1> HIDE DEF a, b, sizes
<1>5. ASSUME sizes # {} PROVE Max(sizes) \in sizes
  BY <1>1, <1>4, <1>5, MaxOfBounded
<1>6. ASSUME sizes # {} PROVE Max(sizes) > 0
  <2>1. Max(sizes) \in a..b
    BY <1>4, <1>5, <1>6
  <2>2. QED
    BY <1>1, <2>1
<1>7. QED
  BY <1>2, <1>3, <1>5, <1>6

LEMMA AdvanceGrows ==
  ASSUME NEW k \in Nat, NEW r \in Nat, NEW s \in Nat, r <= s
  PROVE  /\ Advance(k, r) \in Nat /\ Advance(k, s) \in Nat /\ Advance(k, r) <= Advance(k, s)
<1>1. k * r \in Nat /\ k * s \in Nat /\ k * r <= k * s
  <2>1. r * k <= s * k
    BY Multiples
  <2>2. QED
    BY <2>1
<1>2. (k * r + 500) \div 1000 <= (k * s + 500) \div 1000
  BY <1>1
<1>3. QED
  BY <1>1, <1>2 DEF Advance

\* A text is not wider at a smaller size.
LEMMA WidthGrows ==
  ASSUME NEW c \in SettingsType, c.sepLen >= 0, NEW id, id.prefix.letters \in Nat,
         Len(id.digits) \in Nat, NEW r \in Nat, NEW s \in Nat, r <= s
  PROVE  TextWidth(c, id, r) \in Nat /\ TextWidth(c, id, r) <= TextWidth(c, id, s)
<1> DEFINE letters == id.prefix.letters
           digits == Len(id.digits)
           Part(k, t, n) == k * Advance(t, n)
<1>1. c.sepLen \in Nat /\ letters \in Nat /\ digits \in Nat
  BY DEF SettingsType
<1>2. 611 \in Nat /\ 333 \in Nat /\ 556 \in Nat
  OBVIOUS
<1>3. ASSUME NEW k \in Nat, NEW t \in Nat
      PROVE  Part(k, t, r) \in Nat /\ Part(k, t, s) \in Nat /\ Part(k, t, r) <= Part(k, t, s)
  <2> DEFINE p == Advance(t, r)
             q == Advance(t, s)
  <2>1. p \in Nat /\ q \in Nat /\ p <= q
    BY AdvanceGrows
  <2> HIDE DEF p, q
  <2>2. p * k <= q * k
    BY <2>1, Multiples
  <2>3. k * p \in Nat /\ k * q \in Nat /\ k * p <= k * q
    BY <2>1, <2>2
  <2>4. QED
    BY <2>3 DEF p, q
<1>4. \A n : TextWidth(c, id, n) = Part(letters, 611, n) + Part(c.sepLen, 333, n) + Part(digits, 556, n)
  BY DEF TextWidth
<1> HIDE DEF letters, digits, Part
<1>5. /\ Part(letters, 611, r) \in Nat /\ Part(letters, 611, s) \in Nat
      /\ Part(letters, 611, r) <= Part(letters, 611, s)
  BY <1>1, <1>2, <1>3, Zenon
<1>6. /\ Part(c.sepLen, 333, r) \in Nat /\ Part(c.sepLen, 333, s) \in Nat
      /\ Part(c.sepLen, 333, r) <= Part(c.sepLen, 333, s)
  BY <1>1, <1>2, <1>3, Zenon
<1>7. /\ Part(digits, 556, r) \in Nat /\ Part(digits, 556, s) \in Nat
      /\ Part(digits, 556, r) <= Part(digits, 556, s)
  BY <1>1, <1>2, <1>3, Zenon
<1>8. QED
  BY <1>4, <1>5, <1>6, <1>7

\* Nor taller, at sizes at which a bowl is not yet a pixel.
LEMMA HeightGrows ==
  ASSUME NEW x, NEW y, NEW r \in Nat, NEW s \in Nat, r <= s, r < 40
  PROVE  TextHeight(x, r) <= TextHeight(y, s)
<1>1. 726 * r + 675 \in Nat /\ 726 * s + 675 \in Nat /\ 726 * r + 675 <= 726 * s + 675
  OBVIOUS
<1>2. (726 * r + 675) \div 1000 <= (726 * s + 675) \div 1000
  BY <1>1
<1>3. QED
  BY <1>2 DEF TextHeight

-----------------------------------------------------------------------------
(* A block whose numbers are taken.                                        *)

\* It passed validate, which clamped it and found a size for it.
Measured ==
  req.source = "poll" /\ pc \in InHand => checked > 0 /\ plan.count <= BatchSize

LEMMA MeasuredInductive ==
  ASSUME Control, Measured, [Next]_vars
  PROVE  Measured'
<1> USE DEF Control
<1>1. CASE LoadConfig \/ Refuse \/ Validate \/ NotValid
  BY <1>1 DEF LoadConfig, Refuse, Validate, NotValid, Measured, InHand
<1>2. CASE PlanRange
  BY <1>2 DEF PlanRange, Measured, Established
<1>3. CASE Reserve
  <2>1. /\ checked = Fitting /\ Fitting > 0 /\ plan.count = clamp_qty /\ UNCHANGED <<checked, plan>>
    BY <1>3 DEF Reserve, Established, Valid
  <2>2. left \in Int /\ BatchSize \in Nat
    BY Records DEF Types
  <2>3. clamp_qty <= BatchSize
    BY <2>2 DEF clamp_qty
  <2>4. QED
    BY <2>1, <2>3 DEF Measured
<1>4. CASE Render \/ Enqueue
  BY <1>4 DEF Render, Enqueue, Measured, InHand
<1>5. CASE RenderRaises \/ SidecarRefused \/ AgentRejects \/ PrintRaises \/ PrintPages
  <2>1. pc' \in {"validate", "end"}
    BY <1>5 DEF RenderRaises, SidecarRefused, AgentRejects, PrintRaises, PrintPages, Ended
  <2>2. QED
    BY <2>1 DEF Measured, InHand
<1>6. CASE UNCHANGED vars
  BY <1>6 DEF vars, Measured
<1>7. QED
  BY <1>1, <1>2, <1>3, <1>4, <1>5, <1>6 DEF Next

\* What load_config and validate have made sure of for a block from an asset.
LEMMA TakenBlock ==
  ASSUME Control, Measured, pc \in InHand, req.source = "poll"
  PROVE  /\ cfg \in SettingsType /\ Accepted(cfg) /\ cfg.perCable \in Nat \ {0}
         /\ req.prefix.letters \in 1..cfg.prefixMax /\ plan.first >= 1
         /\ plan.count \in 1..BatchSize /\ label_count = plan.count * cfg.perCable
         /\ checked \in Nat /\ checked > 0 /\ checked = fit_font_px(cfg, Last_id)
<1>1. cfg \in SettingsType /\ cfg.perCable \in Int /\ checked \in Nat /\ BatchSize \in Nat
  BY Records DEF Control, Types
<1>2. Accepted(cfg) /\ BlockInHand /\ plan.count \in Int
  BY DEF Control, Established, Types
<1>3. QED
  BY <1>1, <1>2 DEF BlockInHand, Matches, Accepted, LimitsAccepted, label_count, Measured

LEMMA HeightType ==
  ASSUME NEW id, NEW s \in Nat
  PROVE  TextHeight(id, s) \in Nat
<1>1. 726 * s + 675 \in Nat
  OBVIOUS
<1>2. (726 * s + 675) \div 1000 \in Nat
  BY <1>1
<1>3. QED
  BY <1>2 DEF TextHeight

LEMMA RoomType ==
  ASSUME NEW c \in SettingsType, Accepted(c)
  PROVE  MaxWidth(c) \in Nat \ {0} /\ MaxHeight(c) \in Nat \ {0}
<1>1. /\ c.dpi \in Int /\ c.areaW \in Int /\ c.areaH \in Int /\ c.margin \in Int /\ c.gap \in Int
      /\ c.repeat \in Nat \ {0}
  BY DEF SettingsType, Accepted, StyleAccepted
<1>2. c.areaW - 2 * c.margin \in Int
  BY <1>1
<1>3. (c.repeat - 1) * c.gap \in Int /\ 100 * c.repeat \in Nat \ {0}
  BY <1>1
<1>4. c.areaH - 2 * c.margin - (c.repeat - 1) * c.gap \in Int
  BY <1>1, <1>3
<1>5. (c.areaH - 2 * c.margin - (c.repeat - 1) * c.gap) * c.dpi \in Int
  BY <1>1, <1>4
<1>6. MaxWidth(c) \in Nat \ {0}
  BY <1>1, <1>2, PixelsType, Zenon DEF MaxWidth
<1>7. MaxHeight(c) \in Nat \ {0}
  BY <1>3, <1>5, PixelType, Zenon DEF MaxHeight
<1>8. QED
  BY <1>6, <1>7

\* Where the last identifier fits, the widest fits at the smallest size, if no
\* bowl is a pixel there.
LEMMA WidestFits ==
  ASSUME NineDigits, Control, Counted, Measured, pc \in InHand, req.source = "poll",
         SmallestSize < 40
  PROVE  block_font_px(cfg, ids) > 0
<1> DEFINE widest == Widest(cfg, ids)
<1>1. /\ cfg \in SettingsType /\ Accepted(cfg)
      /\ checked \in Nat /\ checked > 0 /\ checked = fit_font_px(cfg, Last_id)
  BY TakenBlock
<1>2. Fits(cfg, Last_id, checked)
  BY <1>1, FitIs
<1>3. SmallestSize \in Nat \ {0} /\ px(cfg.maxFont * cfg.dpi, 72) \in Nat \ {0}
  BY <1>1, FontSizes DEF SmallestSize
<1>4. /\ SmallestSize <= checked /\ SmallestSize \in SmallestSize .. px(cfg.maxFont * cfg.dpi, 72)
      /\ TextWidth(cfg, Last_id, checked) <= MaxWidth(cfg)
      /\ TextHeight(Last_id, checked) <= MaxHeight(cfg)
  BY <1>1, <1>2, <1>3 DEF Fits, SmallestSize
<1>5. \A s : TextWidth(cfg, widest, s) = TextWidth(cfg, Last_id, s)
  BY WidestLikeLast
<1>6. /\ TextWidth(cfg, Last_id, SmallestSize) \in Nat
      /\ TextWidth(cfg, Last_id, checked) \in Nat
      /\ TextWidth(cfg, Last_id, SmallestSize) <= TextWidth(cfg, Last_id, checked)
  <2>1. /\ cfg.sepLen \in Int /\ cfg.sepLen >= 0 /\ req.prefix \in Prefix
    BY <1>1, Records DEF Control, SettingsType, Accepted, StyleAccepted
  <2>2. Last \in Int /\ Last < 10^9
    BY LastHasNineDigits
  <2>3. Len(Last_id.digits) \in Nat
    <3>1. Len(Last_id.digits) = DigitCount(cfg, Last) /\ DigitCount(cfg, Last) \in Nat \ {0}
      BY <1>1, <2>1, <2>2, WidthAtHundred DEF Last_id
    <3>2. QED
      BY <3>1
  <2>4. Last_id.prefix.letters \in Nat
    BY <2>1 DEF Last_id, format_identifier, Prefix
  <2>5. SmallestSize \in Nat /\ checked <= checked
    BY <1>1, <1>3
  <2>6. QED
    BY <1>1, <1>4, <2>1, <2>3, <2>4, <2>5, WidthGrows, Zenon
<1>7. TextHeight(widest, SmallestSize) <= TextHeight(Last_id, checked)
  BY <1>1, <1>3, <1>4, HeightGrows
<1>8. TextHeight(widest, SmallestSize) \in Nat /\ TextHeight(Last_id, checked) \in Nat
  BY <1>1, <1>3, HeightType
<1>9. MaxWidth(cfg) \in Nat /\ MaxHeight(cfg) \in Nat
  BY <1>1, RoomType
<1> HIDE DEF widest
<1>10. /\ TextWidth(cfg, widest, SmallestSize) <= MaxWidth(cfg)
       /\ TextHeight(widest, SmallestSize) <= MaxHeight(cfg)
  BY <1>4, <1>5, <1>6, <1>7, <1>8, <1>9
<1>11. Fits(cfg, widest, SmallestSize)
  BY <1>4, <1>10 DEF Fits, SmallestSize
<1>12. QED
  BY <1>1, <1>11, FitIs DEF block_font_px, widest

\* render refuses a taken block only where the smallest size is large.
LEMMA LayoutFails ==
  ASSUME NineDigits, Control, Counted, Measured, req.source = "poll", RenderRaises
  PROVE  SmallestSize >= 40
<1>1. pc \in InHand /\ (label_count <= 0 \/ block_font_px(cfg, ids) = 0)
  BY DEF RenderRaises, InHand
<1>2. /\ cfg \in SettingsType /\ cfg.perCable \in Nat \ {0} /\ plan.count \in 1..BatchSize
      /\ label_count = plan.count * cfg.perCable /\ BatchSize \in Nat
  BY <1>1, TakenBlock, Records DEF Control
<1>3. label_count \in Nat /\ label_count > 0
  <2> DEFINE n == plan.count
             k == cfg.perCable
  <2>1. n \in Nat \ {0} /\ k \in Nat \ {0} /\ label_count = n * k
    BY <1>2
  <2> HIDE DEF n, k
  <2>2. QED
    BY <2>1
<1>4. block_font_px(cfg, ids) = 0
  BY <1>1, <1>3
<1>5. SmallestSize \in Nat
  BY <1>2, FontSizes DEF SmallestSize
<1>6. ASSUME SmallestSize < 40 PROVE FALSE
  <2>1. block_font_px(cfg, ids) > 0
    BY <1>1, <1>6, WidestFits
  <2>2. QED
    BY <1>4, <2>1
<1>7. QED
  BY <1>5, <1>6

\* validate_job refuses it only for a long prefix or a long name.
LEMMA SidecarFails ==
  ASSUME NineDigits, Control, Counted, Measured, req.source = "poll", SidecarRefused
  PROVE  cfg.prefixMax > 32 \/ LongestName > 200
<1>1. pc \in InHand /\ ~SidecarAccepted
  BY DEF SidecarRefused, InHand
<1>2. /\ cfg \in SettingsType /\ req.prefix.letters \in 1..cfg.prefixMax /\ plan.first >= 1
  BY <1>1, TakenBlock
<1>3. /\ cfg.pad \in Int /\ cfg.sepLen \in Int /\ cfg.prefixMax \in Int /\ req.prefix \in Prefix
      /\ req.what \in Nat /\ req.first \in Int /\ req.qty \in Int /\ req.prefix.letters \in Nat
  BY <1>2, Records DEF Control, SettingsType, Prefix
<1> DEFINE end == req.first + req.qty - 1
           colour == IF req.what > 0 THEN req.what + 3 ELSE 0
<1>4. /\ plan.first \in Int /\ Last \in Int /\ end \in Int /\ plan.first <= Last /\ Last <= end
      /\ end < 10^9 /\ Last < 10^9 /\ plan.first < 10^9
  <2>1. plan.first \in Int /\ Last \in Int /\ plan.first <= Last /\ next = Last + 1
    BY <1>1, BlockNumbers DEF Control, Established, BlockInHand
  <2>2. left \in Int /\ left >= 0 /\ next + left = req.first + req.qty
    BY <1>1, <1>3 DEF Counted, Control, Types
  <2>3. req.first + req.qty <= 10^9 /\ 10^9 = 1000000000
    BY PowersOfTen DEF NineDigits, Control, Types, Powers
  <2>4. QED
    BY <1>3, <2>1, <2>2, <2>3
<1>5. /\ DigitCount(cfg, plan.first) \in Nat /\ DigitCount(cfg, Last) \in Nat
      /\ DigitCount(cfg, end) \in Nat
      /\ DigitCount(cfg, plan.first) <= DigitCount(cfg, Last)
      /\ DigitCount(cfg, Last) <= DigitCount(cfg, end)
  <2> HIDE DEF end
  <2>1. /\ DigitCount(cfg, plan.first) \in Nat \ {0} /\ DigitCount(cfg, Last) \in Nat \ {0}
        /\ DigitCount(cfg, end) \in Nat \ {0}
    BY <1>3, <1>4, DigitCountIs
  <2>2. QED
    BY <1>3, <1>4, <2>1, MoreDigits
<1> DEFINE a == DigitCount(cfg, plan.first)
           b == DigitCount(cfg, Last)
           m == DigitCount(cfg, end)
<1>6. JobNameLength(cfg, req.what, ids[1], ids[Len(ids)])
        = colour + (req.prefix.letters + cfg.sepLen + a) + 3 + (req.prefix.letters + cfg.sepLen + b)
  <2>1. /\ ids[1] = format_identifier(cfg, req.prefix, plan.first)
        /\ ids[Len(ids)] = format_identifier(cfg, req.prefix, Last)
    BY <1>1, BlockNumbers DEF Last_id
  <2>2. ASSUME NEW n \in Int, n < 10^9
        PROVE  Length(cfg, format_identifier(cfg, req.prefix, n))
                 = req.prefix.letters + cfg.sepLen + DigitCount(cfg, n)
    <3>1. Len(format_identifier(cfg, req.prefix, n).digits) = DigitCount(cfg, n)
      BY <1>2, <1>3, <2>2, WidthAtHundred
    <3>2. format_identifier(cfg, req.prefix, n).prefix = req.prefix
      BY DEF format_identifier
    <3>3. QED
      BY <3>1, <3>2, Zenon DEF Length
  <2>3. QED
    BY <1>4, <2>1, <2>2 DEF JobNameLength
<1>7. LongestName = colour + 3 + 2 * (cfg.prefixMax + cfg.sepLen + m)
  BY DEF LongestName, DigitCount
<1> DEFINE x == req.prefix.letters
           y == cfg.sepLen
           z == cfg.prefixMax
           name == JobNameLength(cfg, req.what, ids[1], ids[Len(ids)])
<1>8. /\ colour \in Int /\ x \in Int /\ y \in Int /\ z \in Int /\ x <= z
      /\ name = colour + (x + y + a) + 3 + (x + y + b)
      /\ LongestName = colour + 3 + 2 * (z + y + m)
  BY <1>2, <1>3, <1>6, <1>7
<1> HIDE DEF a, b, m, colour, end, x, y, z, name
<1>9. a \in Nat /\ b \in Nat /\ m \in Nat /\ a <= b /\ b <= m
  BY <1>5 DEF a, b, m
<1>10. name <= LongestName
  BY <1>8, <1>9
<1>11. name \in Int /\ LongestName \in Int
  BY <1>8, <1>9
<1>12. ASSUME cfg.prefixMax <= 32 PROVE LongestName > 200
  <2>1. req.prefix.letters \in 1..32 /\ plan.first >= 0
    BY <1>2, <1>3, <1>4, <1>12
  <2>2. ~(name <= 200)
    BY <1>1, <2>1 DEF SidecarAccepted, name
  <2>3. QED
    BY <1>10, <1>11, <2>2
<1>13. QED
  BY <1>3, <1>12

\* Pillow refuses its strip only where it would refuse a full batch.
LEMMA PixelsFail ==
  ASSUME Control, Measured, req.source = "poll", pc = "agent", ~Opens
  PROVE  FullStrip > MaxPixels
<1>1. pc \in InHand
  BY DEF InHand
<1>2. /\ cfg \in SettingsType /\ cfg.perCable \in Nat \ {0} /\ plan.count \in 1..BatchSize
      /\ label_count = plan.count * cfg.perCable /\ BatchSize \in Nat /\ MaxPixels \in Nat
  BY <1>1, TakenBlock, Records, ConstantsAssumption DEF Control
<1> DEFINE w == Pixels(cfg, cfg.labelW)
           h == PageHeight(cfg)
           n == plan.count
           k == cfg.perCable
<1>3. w \in Nat /\ h \in Nat
  <2>1. cfg.dpi \in Int /\ cfg.labelW \in Int /\ cfg.labelH \in Int
    BY <1>2 DEF SettingsType
  <2>2. QED
    BY <2>1, PixelsType DEF PageHeight
<1>4. strip.width = w /\ strip.height = h * label_count
  BY StripIs
<1>5. FullStrip = w * (h * (BatchSize * k))
  BY DEF FullStrip
<1>6. w * (h * (n * k)) > MaxPixels
  BY <1>2, <1>3, <1>4 DEF Opens
<1> HIDE DEF w, h, n, k
<1>7. n \in Nat /\ k \in Nat /\ n <= BatchSize /\ BatchSize \in Nat
  BY <1>2 DEF n, k
<1>8. n * k \in Nat /\ BatchSize * k \in Nat /\ n * k <= BatchSize * k
  BY <1>7, Multiples
<1>9. /\ h * (n * k) \in Nat /\ h * (BatchSize * k) \in Nat /\ h * (n * k) <= h * (BatchSize * k)
  <2> DEFINE x == n * k
             y == BatchSize * k
  <2> HIDE DEF x, y
  <2>1. x \in Nat /\ y \in Nat /\ x <= y
    BY <1>8 DEF x, y
  <2>2. x * h <= y * h
    BY <1>3, <2>1, Multiples
  <2>3. h * x \in Nat /\ h * y \in Nat /\ h * x <= h * y
    BY <1>3, <2>1, <2>2
  <2>4. QED
    BY <2>3 DEF x, y
<1>10. /\ w * (h * (n * k)) \in Nat /\ w * (h * (BatchSize * k)) \in Nat
       /\ w * (h * (n * k)) <= w * (h * (BatchSize * k))
  <2> DEFINE x == h * (n * k)
             y == h * (BatchSize * k)
  <2> HIDE DEF x, y
  <2>1. x \in Nat /\ y \in Nat /\ x <= y
    BY <1>9 DEF x, y
  <2>2. x * w <= y * w
    BY <1>3, <2>1, Multiples
  <2>3. w * x \in Nat /\ w * y \in Nat /\ w * x <= w * y
    BY <1>3, <2>1, <2>2
  <2>4. QED
    BY <2>3 DEF x, y
<1>11. QED
  BY <1>2, <1>5, <1>6, <1>10

LEMMA TakenInductive ==
  ASSUME NineDigits, Control, Counted, Measured, TakenIsPrinted, CutAndNamed', [Next]_vars
  PROVE  TakenIsPrinted'
<1> DEFINE Large    == SmallestSize >= 40
           LongName == cfg.prefixMax > 32 \/ LongestName > 200
           Huge     == FullStrip > MaxPixels
<1>1. UNCHANGED <<cfg, req>>
  BY DEF Next, vars, LoadConfig, Refuse, PlanRange, Validate, NotValid, Reserve, Render,
         RenderRaises, Enqueue, SidecarRefused, AgentRejects, PrintPages, PrintRaises, Ended
<1>2. (Large' <=> Large) /\ (LongName' <=> LongName) /\ (Huge' <=> Huge)
  BY <1>1 DEF SmallestSize, LongestName, FullStrip
<1>3. TakenIsPrinted =
        (req.source = "poll" =>
           /\ "cut" \notin fates
           /\ "layout" \in fates => Large
           /\ "stem" \in fates => cfg.loose
           /\ "sidecar" \in fates => LongName
           /\ "pixels" \in fates => Huge)
  BY DEF TakenIsPrinted
<1>4. TakenIsPrinted' =
        (req'.source = "poll" =>
           /\ "cut" \notin fates'
           /\ "layout" \in fates' => Large'
           /\ "stem" \in fates' => cfg'.loose
           /\ "sidecar" \in fates' => LongName'
           /\ "pixels" \in fates' => Huge')
  BY DEF TakenIsPrinted
<1>5. req.source = "poll" => "cut" \notin fates' /\ ("stem" \in fates' => cfg.loose)
  BY <1>1 DEF CutAndNamed
<1>6. ASSUME req.source = "poll"
      PROVE  /\ "layout" \in fates' => "layout" \in fates \/ Large
             /\ "sidecar" \in fates' => "sidecar" \in fates \/ LongName
             /\ "pixels" \in fates' => "pixels" \in fates \/ Huge
  <2>1. CASE fates' = fates
    BY <2>1
  <2>2. CASE RenderRaises
    <3>1. fates' = fates \cup {"layout"} /\ Large
      BY <1>6, <2>2, LayoutFails DEF RenderRaises, Ended
    <3> HIDE DEF Large, LongName, Huge
    <3>2. QED
      BY <3>1
  <2>3. CASE SidecarRefused
    <3>1. fates' = fates \cup {"sidecar"} /\ LongName
      BY <1>6, <2>3, SidecarFails DEF SidecarRefused, Ended
    <3> HIDE DEF Large, LongName, Huge
    <3>2. QED
      BY <3>1
  <2>4. CASE PrintRaises
    <3>1. fates' = fates \cup {IF Opens THEN "cut" ELSE "pixels"} /\ pc = "agent"
      BY <2>4 DEF PrintRaises, Ended
    <3>2. ~Opens => Huge
      BY <1>6, <3>1, PixelsFail
    <3> HIDE DEF Large, LongName, Huge
    <3>3. QED
      BY <3>1, <3>2
  <2>5. CASE AgentRejects \/ PrintPages
    <3>1. fates' \in {fates \cup {"stem"}, fates \cup {"sent"}}
      BY <2>5 DEF AgentRejects, PrintPages, Ended
    <3> HIDE DEF Large, LongName, Huge
    <3>2. QED
      BY <3>1
  <2>6. ASSUME LoadConfig \/ Refuse \/ PlanRange \/ Validate \/ NotValid \/ Reserve
                 \/ Render \/ Enqueue \/ UNCHANGED vars
        PROVE  fates' = fates
    BY <2>6 DEF LoadConfig, Refuse, PlanRange, Validate, NotValid, Reserve, Render, Enqueue, vars
  <2>7. QED
    BY <2>1, <2>2, <2>3, <2>4, <2>5, <2>6 DEF Next
<1> HIDE DEF Large, LongName, Huge
<1>7. QED
  BY <1>1, <1>2, <1>3, <1>4, <1>5, <1>6

\* A block whose numbers were taken reaches the printer, unless the settings let
\* through what is refused later: a smallest size at which a bowl is a pixel,
\* prefixes of other characters than the agent's stem or longer than the
\* sidecar's, names longer than the sidecar's, or a full batch larger than
\* Pillow opens; for numbers of up to nine digits (validate, block_font_px,
\* parse_stem, validate_job, GdiBackend.print).
THEOREM TakenReachesPrinter ==
  ASSUME NineDigits
  PROVE  Spec => []TakenIsPrinted
<1>1. Init => Measured /\ TakenIsPrinted
  BY DEF Init, Measured, TakenIsPrinted, InHand
<1>2. Control /\ Measured /\ [Next]_vars => Measured'
  BY MeasuredInductive
<1>3. Control /\ Counted /\ Measured /\ TakenIsPrinted /\ CutAndNamed' /\ [Next]_vars
        => TakenIsPrinted'
  BY TakenInductive
<1>4. QED
  BY <1>1, <1>2, <1>3, CountedAlways, CutAndNamedAlways, PTL DEF Spec

-----------------------------------------------------------------------------
(* Rounding.                                                               *)

\* Within half of the value.
LEMMA RoundNear ==
  ASSUME NEW n \in Int, NEW d \in Nat \ {0}
  PROVE  /\ RoundHalfEven(n, d) \in Int
         /\ 2 * (d * RoundHalfEven(n, d)) <= 2 * n + d
         /\ 2 * n <= 2 * (d * RoundHalfEven(n, d)) + d
<1> DEFINE q == n \div d
           m == n % d
           R == RoundHalfEven(n, d)
<1>1. q \in Int /\ m \in 0..(d - 1) /\ n = d * q + m
  OBVIOUS
<1>2. R = IF 2 * m > d \/ (2 * m = d /\ q % 2 = 1) THEN q + 1 ELSE q
  BY DEF RoundHalfEven
<1> HIDE DEF q, m, R
<1>3. d * q \in Int /\ d * (q + 1) = d * q + d
  BY <1>1
<1>4. CASE R = q
  <2>1. 2 * m <= d
    BY <1>1, <1>2, <1>4
  <2>2. QED
    BY <1>1, <1>3, <1>4, <2>1 DEF R
<1>5. CASE R = q + 1
  <2>1. 2 * m >= d
    BY <1>1, <1>2, <1>5
  <2>2. QED
    BY <1>1, <1>3, <1>5, <2>1 DEF R
<1>6. QED
  BY <1>2, <1>4, <1>5

\* From minus a half on it is not negative: minus a half goes to zero.
LEMMA RoundFromHalf ==
  ASSUME NEW n \in Int, NEW d \in Nat \ {0}, 2 * n + d >= 0
  PROVE  RoundHalfEven(n, d) >= 0
<1> DEFINE q == n \div d
           m == n % d
           R == RoundHalfEven(n, d)
<1>1. q \in Int /\ m \in 0..(d - 1) /\ n = d * q + m
  OBVIOUS
<1>2. R = IF 2 * m > d \/ (2 * m = d /\ q % 2 = 1) THEN q + 1 ELSE q
  BY DEF RoundHalfEven
<1> HIDE DEF q, m, R
<1>3. q >= 0 \/ q = -1 \/ q <= -2
  BY <1>1
<1>4. CASE q >= 0
  BY <1>1, <1>2, <1>4 DEF R
<1>5. CASE q = -1
  <2>1. n = m - d /\ q % 2 = 1
    <3>1. d * (q + 1) = d * q + d /\ d * 0 = 0 /\ d * q \in Int
      BY <1>1
    <3>2. q + 1 = 0
      BY <1>5
    <3>3. d * q + d = 0
      BY <3>1, <3>2
    <3>4. q % 2 \in 0..1 /\ q = 2 * (q \div 2) + (q % 2) /\ q \div 2 \in Int
      BY <1>1
    <3>5. q % 2 = 1
      BY <1>5, <3>4
    <3>6. QED
      BY <1>1, <3>1, <3>3, <3>5
  <2>2. 2 * m >= d
    BY <1>1, <2>1
  <2>3. 2 * m > d \/ 2 * m = d
    BY <1>1, <2>2
  <2>4. R = q + 1
    BY <1>2, <2>1, <2>3
  <2>5. QED
    BY <1>5, <2>4 DEF R
<1>6. CASE q <= -2
  <2>1. (-2 - q) \in Nat /\ (-2 - q) * d \in Nat
    BY <1>1, <1>6
  <2>2. (-2 - q) * d = -2 * d - d * q
    BY <1>1
  <2>3. QED
    BY <1>1, <2>1, <2>2
<1>7. QED
  BY <1>3, <1>4, <1>5, <1>6

LEMMA RoundGrows ==
  ASSUME NEW n \in Int, NEW m \in Int, n <= m
  PROVE  RoundHalfEven(n, 100) <= RoundHalfEven(m, 100)
<1> DEFINE a == RoundHalfEven(n, 100)
           b == RoundHalfEven(m, 100)
<1>1. a \in Int /\ b \in Int /\ 2 * (100 * a) <= 2 * n + 100 /\ 2 * m <= 2 * (100 * b) + 100
  BY RoundNear
<1>2. n = m => a = b
  OBVIOUS
<1> HIDE DEF a, b
<1>3. a <= b
  BY <1>1, <1>2
<1>4. QED
  BY <1>3 DEF a, b

\* A length in pixels.
LEMMA PixelsNear ==
  ASSUME NEW c, c.dpi \in Int, NEW u \in Int
  PROVE  /\ Pixels(c, u) \in Nat \ {0} /\ u * c.dpi \in Int
         /\ u * c.dpi <= 100 * Pixels(c, u) + 50
         /\ Pixels(c, u) > 1 => 100 * Pixels(c, u) <= u * c.dpi + 50
         /\ u * c.dpi >= 0 => 100 * Pixels(c, u) <= u * c.dpi + 100
<1> DEFINE n == u * c.dpi
           R == RoundHalfEven(n, 100)
           P == Pixels(c, u)
<1>1. n \in Int
  OBVIOUS
<1>2. P = Max({1, R})
  BY DEF Pixels, px
<1> HIDE DEF n
<1>3. R \in Int /\ 2 * (100 * R) <= 2 * n + 100 /\ 2 * n <= 2 * (100 * R) + 100
  BY <1>1, RoundNear
<1> HIDE DEF R, P
<1>4. P \in {1, R} /\ P >= 1 /\ P >= R
  <2>1. 1 \in Int
    OBVIOUS
  <2>2. QED
    BY <1>2, <1>3, <2>1, MaxOfTwo, Zenon
<1>5. /\ P \in Nat \ {0} /\ n <= 100 * P + 50 /\ (P > 1 => 100 * P <= n + 50)
      /\ n >= 0 => 100 * P <= n + 100
  BY <1>1, <1>3, <1>4
<1>6. QED
  BY <1>1, <1>5 DEF P, n

LEMMA ScaledGrows ==
  ASSUME NEW k \in Nat, NEW a \in Int, NEW b \in Int, a <= b
  PROVE  a * k \in Int /\ b * k \in Int /\ a * k <= b * k
<1>1. b - a \in Nat /\ (b - a) * k \in Nat /\ b * k = a * k + (b - a) * k
  OBVIOUS
<1>2. a * k \in Int /\ b * k \in Int
  OBVIOUS
<1>3. QED
  BY <1>1, <1>2

LEMMA PixelsGrow ==
  ASSUME NEW c, c.dpi \in Nat, NEW u \in Int, NEW w \in Int, u <= w
  PROVE  Pixels(c, u) <= Pixels(c, w)
<1> DEFINE a == RoundHalfEven(u * c.dpi, 100)
           b == RoundHalfEven(w * c.dpi, 100)
<1>1. u * c.dpi \in Int /\ w * c.dpi \in Int /\ u * c.dpi <= w * c.dpi
  BY ScaledGrows
<1>2. a \in Int /\ b \in Int /\ a <= b
  BY <1>1, RoundGrows, RoundType
<1>3. Pixels(c, u) = Max({1, a}) /\ Pixels(c, w) = Max({1, b})
  BY DEF Pixels, px
<1> HIDE DEF a, b
<1>4. /\ Max({1, a}) \in {1, a} /\ Max({1, a}) >= 1 /\ Max({1, a}) >= a
      /\ Max({1, b}) \in {1, b} /\ Max({1, b}) >= 1 /\ Max({1, b}) >= b
  <2>1. 1 \in Int
    OBVIOUS
  <2>2. QED
    BY <1>2, <2>1, MaxOfTwo, Zenon
<1>5. QED
  BY <1>2, <1>3, <1>4

\* Two parts of a length come to at most a pixel more than the whole.
LEMMA TwoParts ==
  ASSUME NEW c, c.dpi \in Nat, NEW u \in Nat, NEW v \in Nat, NEW w \in Int, u + v <= w
  PROVE  Pixels(c, u) + Pixels(c, v) <= Pixels(c, w) + 1
<1> DEFINE D == c.dpi
           a == Pixels(c, u)
           b == Pixels(c, v)
           p == Pixels(c, w)
<1>1. /\ a \in Nat \ {0} /\ b \in Nat \ {0} /\ p \in Nat \ {0}
      /\ u * D \in Int /\ v * D \in Int /\ w * D \in Int
      /\ a > 1 => 100 * a <= u * D + 50
      /\ b > 1 => 100 * b <= v * D + 50
      /\ w * D <= 100 * p + 50
  BY PixelsNear
<1>2. a <= p /\ b <= p
  BY PixelsGrow
<1>3. (u + v) * D <= w * D /\ (u + v) * D = u * D + v * D
  BY ScaledGrows
<1> HIDE DEF D, a, b, p
<1>4. CASE a = 1 \/ b = 1
  BY <1>1, <1>2, <1>4 DEF a, b, p
<1>5. CASE a > 1 /\ b > 1
  <2> DEFINE x == u * D
             y == v * D
             z == w * D
  <2>1. /\ x \in Int /\ y \in Int /\ z \in Int /\ 100 * a <= x + 50 /\ 100 * b <= y + 50
        /\ z <= 100 * p + 50 /\ x + y <= z
    BY <1>1, <1>3, <1>5
  <2> HIDE DEF x, y, z
  <2>2. a + b <= p + 1
    BY <1>1, <2>1
  <2>3. QED
    BY <2>2 DEF a, b, p
<1>6. QED
  BY <1>1, <1>4, <1>5

-----------------------------------------------------------------------------
(* Where a line goes.                                                      *)

\* The settings leave two pixels of margin and a line at least two pixels high.
RoomyFor(c) == Pixels(c, c.margin) >= 2 /\ MaxHeight(c) >= 2 /\ c.gap >= 0

Shares(c) == Pixels(c, c.areaH) - 2 * Pixels(c, c.margin) - (c.repeat - 1) * Pixels(c, c.gap)

ZoneLeft(c) ==
  IF c.areaX = {} THEN (Pixels(c, c.labelW) - Pixels(c, c.areaW)) \div 2
  ELSE Pixels(c, CHOOSE x \in c.areaX : TRUE)

LEMMA Lengths ==
  ASSUME NEW c \in SettingsType, Accepted(c)
  PROVE  /\ c.dpi \in Nat \ {0} /\ c.repeat \in Nat \ {0} /\ c.gap \in Int /\ c.margin \in Int
         /\ c.areaW \in Nat \ {0} /\ c.labelW \in Nat /\ c.areaW <= c.labelW
         /\ c.areaH \in Nat \ {0} /\ c.labelH \in Nat /\ c.areaH <= c.labelH
         /\ c.areaW - 2 * c.margin \in Nat \ {0} /\ c.areaH - 2 * c.margin \in Nat \ {0}
         /\ \A x \in c.areaX : x \in Nat /\ x + c.areaW <= c.labelW
         /\ \A y \in c.areaY : y \in Nat /\ y + c.areaH <= c.labelH
BY DEF SettingsType, Accepted, MediaAccepted, StyleAccepted

\* The zone is on the label but for a pixel above it.
LEMMA ZoneOnPage ==
  ASSUME NEW c \in SettingsType, Accepted(c)
  PROVE  /\ ZoneTop(c) \in Int /\ PageHeight(c) \in Nat \ {0} /\ Pixels(c, c.areaH) \in Nat \ {0}
         /\ ZoneTop(c) >= -1 /\ ZoneTop(c) + Pixels(c, c.areaH) <= PageHeight(c)
<1> DEFINE P == PageHeight(c)
           A == Pixels(c, c.areaH)
<1>1. /\ c.dpi \in Nat /\ c.dpi \in Int /\ c.areaH \in Nat /\ c.labelH \in Nat
      /\ c.areaH <= c.labelH
      /\ \A y \in c.areaY : y \in Nat /\ y + c.areaH <= c.labelH
  BY Lengths
<1>2. P \in Nat \ {0} /\ A \in Nat \ {0} /\ A <= P
  <2>1. c.areaH \in Int /\ c.labelH \in Int
    BY <1>1
  <2>2. P \in Nat \ {0} /\ A \in Nat \ {0}
    BY <1>1, <2>1, PixelsNear, Zenon DEF PageHeight
  <2>3. A <= P
    BY <1>1, <2>1, PixelsGrow, Zenon DEF PageHeight
  <2>4. QED
    BY <2>2, <2>3
<1>3. CASE c.areaY = {}
  <2>1. ZoneTop(c) = (P - A) \div 2
    BY <1>3 DEF ZoneTop
  <2> HIDE DEF P, A
  <2>2. (P - A) \div 2 \in Nat /\ (P - A) \div 2 <= P - A
    BY <1>2
  <2>3. QED
    BY <1>2, <2>1, <2>2 DEF P, A
<1>4. CASE c.areaY # {}
  <2> DEFINE y == CHOOSE y \in c.areaY : TRUE
             Y == Pixels(c, y)
  <2>1. y \in c.areaY
    BY <1>4
  <2> HIDE DEF y
  <2>2. y \in Nat /\ y + c.areaH <= c.labelH
    BY <1>1, <2>1
  <2>3. Y \in Nat \ {0} /\ Y + A <= P + 1
    <3>1. y \in Int /\ c.labelH \in Int
      BY <1>1, <2>2
    <3>2. Y \in Nat \ {0}
      BY <1>1, <3>1, PixelsNear, Zenon
    <3>3. Y + A <= P + 1
      BY <1>1, <2>2, <3>1, TwoParts, Zenon DEF PageHeight
    <3>4. QED
      BY <3>2, <3>3
  <2>4. ZoneTop(c) = P - Y - A
    BY <1>4 DEF ZoneTop, y
  <2> HIDE DEF P, A, Y
  <2>5. ZoneTop(c) \in Int /\ ZoneTop(c) >= -1 /\ ZoneTop(c) + A <= P
    BY <1>2, <2>3, <2>4
  <2>6. QED
    BY <1>2, <2>5 DEF P, A
<1>5. QED
  BY <1>3, <1>4

LEMMA ZoneOnStrip ==
  ASSUME NEW c \in SettingsType, Accepted(c)
  PROVE  /\ ZoneLeft(c) \in Nat /\ Pixels(c, c.labelW) \in Nat /\ Pixels(c, c.areaW) \in Nat
         /\ ZoneLeft(c) + Pixels(c, c.areaW) <= Pixels(c, c.labelW) + 1
<1> DEFINE P == Pixels(c, c.labelW)
           A == Pixels(c, c.areaW)
<1>1. /\ c.dpi \in Nat /\ c.dpi \in Int /\ c.areaW \in Nat /\ c.labelW \in Nat
      /\ c.areaW <= c.labelW
      /\ \A x \in c.areaX : x \in Nat /\ x + c.areaW <= c.labelW
  BY Lengths
<1>2. P \in Nat \ {0} /\ A \in Nat \ {0} /\ A <= P
  <2>1. c.areaW \in Int /\ c.labelW \in Int
    BY <1>1
  <2>2. P \in Nat \ {0} /\ A \in Nat \ {0}
    BY <1>1, <2>1, PixelsNear, Zenon
  <2>3. A <= P
    BY <1>1, <2>1, PixelsGrow, Zenon
  <2>4. QED
    BY <2>2, <2>3
<1>3. CASE c.areaX = {}
  <2>1. ZoneLeft(c) = (P - A) \div 2
    BY <1>3 DEF ZoneLeft
  <2> HIDE DEF P, A
  <2>2. (P - A) \div 2 \in Nat /\ (P - A) \div 2 <= P - A
    BY <1>2
  <2>3. QED
    BY <1>2, <2>1, <2>2 DEF P, A
<1>4. CASE c.areaX # {}
  <2> DEFINE x == CHOOSE x \in c.areaX : TRUE
             X == Pixels(c, x)
  <2>1. x \in c.areaX
    BY <1>4
  <2> HIDE DEF x
  <2>2. x \in Nat /\ x + c.areaW <= c.labelW
    BY <1>1, <2>1
  <2>3. X \in Nat \ {0} /\ X + A <= P + 1
    <3>1. x \in Int /\ c.labelW \in Int
      BY <1>1, <2>2
    <3>2. X \in Nat \ {0}
      BY <1>1, <3>1, PixelsNear, Zenon
    <3>3. X + A <= P + 1
      BY <1>1, <2>2, <3>1, TwoParts, Zenon
    <3>4. QED
      BY <3>2, <3>3
  <2>4. ZoneLeft(c) = X
    BY <1>4 DEF ZoneLeft, x
  <2> HIDE DEF P, A, X
  <2>5. QED
    BY <1>2, <2>3, <2>4 DEF P, A
<1>5. QED
  BY <1>3, <1>4

\* The lines have room for text that fits, a bowl and the roundings.
LEMMA RoomForLines ==
  ASSUME NEW c \in SettingsType, Accepted(c), RoomyFor(c),
         NEW T \in Nat, T <= MaxHeight(c) + 1
  PROVE  Shares(c) \in Nat /\ c.repeat * T <= Shares(c) + 3 * c.repeat
<1> DEFINE D == c.dpi
           r == c.repeat
           S0 == c.areaH - 2 * c.margin - (r - 1) * c.gap
           R == RoundHalfEven(S0 * D, 100 * r)
           H == MaxHeight(c)
           A == Pixels(c, c.areaH)
           M == Pixels(c, c.margin)
           g == Pixels(c, c.gap)
           a == c.areaH * D
           m == c.margin * D
           w == c.gap * D
<1>1. /\ D \in Nat /\ D \in Int /\ r \in Nat \ {0} /\ c.gap \in Nat /\ c.margin \in Int
      /\ c.areaH \in Nat /\ M >= 2 /\ H >= 2
  BY Lengths DEF RoomyFor
<1>2. /\ A \in Nat /\ M \in Nat /\ g \in Nat /\ a \in Int /\ m \in Int /\ w \in Int
      /\ a <= 100 * A + 50
      /\ 100 * M <= m + 50
      /\ w >= 0 => 100 * g <= w + 100
  <2>1. c.areaH \in Int /\ c.margin \in Int /\ c.gap \in Int
    BY <1>1
  <2>2. A \in Nat \ {0} /\ a \in Int /\ a <= 100 * A + 50
    BY <1>1, <2>1, PixelsNear, Zenon
  <2>3. M \in Nat \ {0} /\ m \in Int /\ (M > 1 => 100 * M <= m + 50)
    BY <1>1, <2>1, PixelsNear, Zenon
  <2>4. g \in Nat \ {0} /\ w \in Int /\ (w >= 0 => 100 * g <= w + 100)
    BY <1>1, <2>1, PixelsNear, Zenon
  <2> HIDE DEF A, M, g, a, m, w
  <2>5. QED
    BY <1>1, <2>2, <2>3, <2>4
<1>3. w >= 0
  <2>1. c.gap * D \in Nat
    BY <1>1
  <2>2. QED
    BY <2>1
<1>4. S0 \in Int /\ S0 * D \in Int /\ S0 * D = a - 2 * m - (r - 1) * w
  <2>1. (r - 1) * c.gap \in Int
    BY <1>1
  <2>2. S0 \in Int
    BY <1>1, <2>1
  <2>3. ((r - 1) * c.gap) * D = (r - 1) * w
    BY <1>1
  <2> DEFINE x == (r - 1) * c.gap
  <2>4. x \in Int /\ S0 = c.areaH - 2 * c.margin - x
    BY <2>1
  <2> HIDE DEF x, S0
  <2>5. S0 * D = c.areaH * D - 2 * (c.margin * D) - x * D
    BY <1>1, <2>4
  <2>6. S0 * D \in Int
    BY <1>1, <2>2
  <2>7. QED
    BY <2>2, <2>3, <2>5, <2>6 DEF x
<1>5. H = Max({1, R})
  BY DEF MaxHeight, px
<1>6. /\ R \in Int /\ 2 * ((100 * r) * R) <= 2 * (S0 * D) + 100 * r
  <2>1. 100 * r \in Nat \ {0}
    BY <1>1
  <2> HIDE DEF r, S0, D
  <2>2. QED
    BY <1>4, <2>1, RoundNear
<1> DEFINE V == S0 * D
<1> HIDE DEF D, R, H, A, M, g, a, m, w, V, S0
<1>7. H = R
  <2>1. 1 \in Int
    OBVIOUS
  <2>2. H \in {1, R}
    BY <1>5, <1>6, <2>1, MaxOfTwo, Zenon
  <2>3. QED
    BY <1>1, <2>2
<1>8. V \in Int /\ 100 * (r * H) <= V + 50 * r /\ r * H \in Int /\ r * H >= 2 * r
  <2>1. R \in Nat /\ R >= 2
    BY <1>1, <1>6, <1>7
  <2>2. (100 * r) * R = 100 * (r * R) /\ r * R \in Int
    BY <1>1, <2>1
  <2>3. r * (R - 2) \in Nat /\ r * (R - 2) = r * R - 2 * r
    BY <1>1, <2>1
  <2> HIDE DEF r
  <2>4. V \in Int
    BY <1>4 DEF V
  <2>5. 2 * (100 * (r * R)) <= 2 * V + 100 * r
    BY <1>6, <2>2 DEF V
  <2>6. r \in Int
    BY <1>1
  <2>7. 100 * (r * R) <= V + 50 * r
    BY <2>2, <2>4, <2>5, <2>6
  <2>8. QED
    BY <1>7, <2>2, <2>3, <2>4, <2>6, <2>7
<1>9. 100 * ((r - 1) * g) <= (r - 1) * w + 100 * (r - 1) /\ (r - 1) * g \in Int /\ (r - 1) * w \in Int
  <2>1. w + 100 - 100 * g \in Nat /\ r - 1 \in Nat
    BY <1>1, <1>2, <1>3
  <2>2. (r - 1) * (w + 100 - 100 * g) \in Nat
    BY <2>1
  <2>3. (r - 1) * (w + 100 - 100 * g) = (r - 1) * w + 100 * (r - 1) - 100 * ((r - 1) * g)
    BY <1>1, <1>2
  <2>4. (r - 1) * g \in Int /\ (r - 1) * w \in Int
    BY <1>1, <1>2
  <2>5. QED
    BY <1>1, <2>2, <2>3, <2>4
<1>10. Shares(c) = A - 2 * M - (r - 1) * g
  BY DEF Shares, A, M, g
<1>11. V = a - 2 * m - (r - 1) * w
  BY <1>4 DEF V
<1>12. r * T \in Int /\ r * T <= r * H + r
  <2>1. H + 1 - T \in Nat /\ H \in Int
    BY <1>1, <1>6, <1>7 DEF H
  <2>2. r * (H + 1 - T) \in Nat /\ r * (H + 1 - T) = r * H + r - r * T /\ r * T \in Int
    BY <1>1, <2>1
  <2>3. QED
    BY <1>1, <1>8, <2>2
<1> DEFINE x == (r - 1) * g
           y == (r - 1) * w
           k == r * H
           t == r * T
<1>13. /\ x \in Int /\ y \in Int /\ 100 * x <= y + 100 * (r - 1) /\ Shares(c) = A - 2 * M - x
       /\ V = a - 2 * m - y /\ k \in Int /\ t \in Int /\ t <= k + r /\ k >= 2 * r
       /\ 100 * k <= V + 50 * r /\ r \in Nat \ {0}
  BY <1>1, <1>8, <1>9, <1>10, <1>11, <1>12
<1> HIDE DEF x, y, k, t, r
<1>14. Shares(c) \in Int /\ 100 * Shares(c) >= V - 100 * r - 50
  BY <1>2, <1>8, <1>13
<1>15. Shares(c) \in Nat /\ t <= Shares(c) + 3 * r
  BY <1>8, <1>13, <1>14
<1>16. QED
  BY <1>15 DEF t, r

\* The arithmetic of a line's place: r lines, line l of them, in the zone from Z
\* with margin M, gap g and share S.
LEMMA LinePlace ==
  ASSUME NEW r \in Nat \ {0}, NEW Z \in Int, Z >= -1, NEW M \in Nat, M >= 2, NEW g \in Nat,
         NEW A \in Nat, NEW P \in Nat, Z + A <= P, NEW S \in Nat, S = A - 2 * M - (r - 1) * g,
         NEW T \in Nat, r * T <= S + 3 * r, NEW l \in 0..(r - 1),
         NEW N, N = 2 * r * (Z + M + l * g) + (2 * l + 1) * S - r * T
  PROVE  N \in Int /\ N >= -r /\ N + 2 * (r * T) <= 2 * (r * P) - r
<1> DEFINE n == r - 1
           k == n - l
<1>1. n \in Nat /\ l \in Nat /\ k \in Nat /\ n = l + k /\ r = n + 1
  OBVIOUS
<1> DEFINE G == l * g
           F == k * g
<1>2. G \in Nat /\ F \in Nat /\ n * g = G + F
  <2> HIDE DEF n, k
  <2>1. QED
    BY <1>1
<1> DEFINE L == l * S
           K == k * S
<1>3. L \in Nat /\ K \in Nat /\ n * S = L + K
  <2> HIDE DEF n, k
  <2>1. QED
    BY <1>1
<1>4. S = A - 2 * M - G - F
  BY <1>2
<1>5. N = 2 * r * (Z + M + G) + (2 * L + S) - r * T
  <2>1. (2 * l + 1) * S = 2 * L + S
    BY <1>1
  <2>2. QED
    BY <2>1
<1>6. r * S = L + K + S
  <2>1. (n + 1) * S = n * S + S
    BY <1>1
  <2>2. QED
    BY <1>1, <1>3, <2>1
<1> DEFINE t == r * T
           rZ == r * Z
           rM == r * M
           rG == r * G
           rF == r * F
           rA == r * A
           rP == r * P
<1> HIDE DEF n, k, G, F, L, K
<1>7. t \in Nat /\ rZ \in Int /\ rM \in Nat /\ rG \in Nat /\ rF \in Nat /\ rA \in Nat /\ rP \in Nat
  BY <1>2
<1>8. rZ >= -r /\ rM >= 2 * r /\ rZ + rA <= rP
  <2>1. /\ r * (Z + 1) \in Nat /\ r * (Z + 1) = rZ + r
    BY <1>7
  <2>2. /\ r * (M - 2) \in Nat /\ r * (M - 2) = rM - 2 * r
    BY <1>7
  <2>3. /\ r * (P - (Z + A)) \in Nat /\ r * (P - (Z + A)) = rP - rZ - rA
    BY <1>7
  <2> HIDE DEF rZ, rM, rA, rP
  <2>4. QED
    BY <1>7, <2>1, <2>2, <2>3
<1>9. 2 * r * (Z + M + G) = 2 * rZ + 2 * rM + 2 * rG
  BY <1>2
<1>10. r * S = rA - 2 * rM - rG - rF
  BY <1>2, <1>4
<1> HIDE DEF t, rZ, rM, rG, rF, rA, rP
<1>11. N = 2 * rZ + 2 * rM + 2 * rG + 2 * L + S - t
  BY <1>3, <1>5, <1>7, <1>9 DEF t
<1>12. L + K + S = rA - 2 * rM - rG - rF
  BY <1>6, <1>10
<1>13. t <= S + 3 * r
  BY DEF t
<1>14. N \in Int /\ N >= -r
  BY <1>3, <1>7, <1>8, <1>11, <1>13
<1>15. N + 2 * t <= 2 * rP - r
  BY <1>3, <1>7, <1>8, <1>11, <1>12, <1>13
<1>16. QED
  BY <1>14, <1>15 DEF t, rP

LEMMA LineOnPage ==
  ASSUME NEW c \in SettingsType, Accepted(c), RoomyFor(c), NEW id, NEW s \in Nat,
         TextHeight(id, s) <= MaxHeight(c) + 1, NEW l \in 0..(c.repeat - 1)
  PROVE  /\ RoundHalfEven(LineTop(c, id, s, l), 2 * c.repeat) \in Nat
         /\ RoundHalfEven(LineTop(c, id, s, l), 2 * c.repeat) + TextHeight(id, s) <= PageHeight(c)
<1> DEFINE r == c.repeat
           Z == ZoneTop(c)
           M == Pixels(c, c.margin)
           g == Pixels(c, c.gap)
           A == Pixels(c, c.areaH)
           P == PageHeight(c)
           S == Shares(c)
           T == TextHeight(id, s)
           N == LineTop(c, id, s, l)
           R == RoundHalfEven(N, 2 * r)
<1>1. r \in Nat \ {0} /\ c.dpi \in Int /\ c.margin \in Int /\ c.gap \in Int
  BY Lengths
<1>2. T \in Nat
  BY HeightType
<1>3. S \in Nat /\ r * T <= S + 3 * r
  BY <1>2, RoomForLines, Zenon
<1>4. M \in Nat \ {0} /\ g \in Nat \ {0} /\ M >= 2
  BY <1>1, PixelsNear, Zenon DEF RoomyFor
<1>5. Z \in Int /\ P \in Nat \ {0} /\ A \in Nat \ {0} /\ Z >= -1 /\ Z + A <= P
  BY ZoneOnPage, Zenon
<1>6. S = A - 2 * M - (r - 1) * g
  BY DEF Shares
<1>7. N = 2 * r * (Z + M + l * g) + (2 * l + 1) * S - r * T
  BY <1>6 DEF LineTop
<1>8. l \in 0..(r - 1)
  OBVIOUS
<1> HIDE DEF r, Z, M, g, A, P, S, T, N
<1>9. N \in Int /\ N >= -r /\ N + 2 * (r * T) <= 2 * (r * P) - r
  <2>1. M \in Nat /\ g \in Nat /\ P \in Nat /\ A \in Nat
    BY <1>4, <1>5
  <2>2. QED
    BY <1>1, <1>2, <1>3, <1>4, <1>5, <1>6, <1>7, <1>8, <2>1, LinePlace, Zenon
<1>10. 2 * r \in Nat \ {0} /\ 2 * N + 2 * r >= 0
  BY <1>1, <1>9
<1>11. R >= 0
  BY <1>9, <1>10, RoundFromHalf, Zenon
<1>12. R \in Int /\ 2 * ((2 * r) * R) <= 2 * N + 2 * r
  BY <1>9, <1>10, RoundNear, Zenon
<1> HIDE DEF R
<1>13. R + T <= P
  <2>1. P - T - R \in Int
    BY <1>2, <1>5, <1>12
  <2>2. (2 * r) * R = 2 * (r * R) /\ r * R \in Int /\ r * T \in Int /\ r * P \in Int
    BY <1>1, <1>2, <1>5, <1>12
  <2>3. r * (P - T - R) = r * P - r * T - r * R
    BY <1>1, <1>2, <1>5, <1>12
  <2>4. r * (P - T - R) >= 0
    BY <1>1, <1>9, <1>12, <2>2, <2>3
  <2> DEFINE d == P - T - R
  <2>5. d \in Int /\ r * d >= 0
    BY <2>1, <2>4
  <2> HIDE DEF d
  <2>6. ASSUME d <= -1 PROVE FALSE
    <3>1. (-1 - d) \in Nat /\ r * (-1 - d) \in Nat /\ r * (-1 - d) = -r - r * d
      BY <1>1, <2>5, <2>6
    <3>2. QED
      BY <1>1, <2>5, <3>1
  <2>7. d >= 0
    BY <2>5, <2>6
  <2>8. QED
    BY <1>2, <1>5, <1>12, <2>7 DEF d
<1>14. R \in Nat
  BY <1>11, <1>12 DEF R
<1>15. QED
  BY <1>13, <1>14 DEF R, N, r, T, P

\* A margin on each side takes up what centring rounds.
LEMMA TextOnStrip ==
  ASSUME NEW c \in SettingsType, Accepted(c), RoomyFor(c), NEW id, NEW s,
         TextWidth(c, id, s) \in Nat, TextWidth(c, id, s) <= MaxWidth(c)
  PROVE  /\ InkLeft(c, id, s) >= 0
         /\ InkLeft(c, id, s) + TextWidth(c, id, s) <= Pixels(c, c.labelW)
<1> DEFINE D == c.dpi
           v == c.areaW - 2 * c.margin
           A == Pixels(c, c.areaW)
           M == Pixels(c, c.margin)
           W == Pixels(c, v)
           a == c.areaW * D
           m == c.margin * D
           b == v * D
           w == TextWidth(c, id, s)
           Z == ZoneLeft(c)
           P == Pixels(c, c.labelW)
<1>1. D \in Nat \ {0} /\ D \in Int /\ c.areaW \in Int /\ c.margin \in Int /\ v \in Nat \ {0} /\ v \in Int
  BY Lengths
<1>2. A \in Nat \ {0} /\ a \in Int /\ a <= 100 * A + 50
  BY <1>1, PixelsNear, Zenon
<1>3. M \in Nat \ {0} /\ m \in Int /\ (M > 1 => 100 * M <= m + 50) /\ M >= 2
  BY <1>1, PixelsNear, Zenon DEF RoomyFor
<1>4. W \in Nat \ {0} /\ b \in Int /\ (W > 1 => 100 * W <= b + 50)
  <2> HIDE DEF v
  <2>1. QED
    BY <1>1, PixelsNear, Zenon
<1>5. b = a - 2 * m /\ b > 0
  <2>1. b = a - 2 * m
    BY <1>1
  <2> HIDE DEF v, D
  <2>2. v * D > 0
    BY <1>1
  <2>3. QED
    BY <2>1, <2>2 DEF b
<1>6. MaxWidth(c) = W
  BY DEF MaxWidth
<1>7. Z \in Nat /\ P \in Nat /\ Z + A <= P + 1
  BY ZoneOnStrip, Zenon
<1>8. InkLeft(c, id, s) = Z + (A - w) \div 2
  BY DEF InkLeft, ZoneLeft
<1>9. w \in Nat /\ w <= W
  BY <1>6
<1> HIDE DEF D, v, A, M, W, a, m, b, w, Z, P
<1>10. W <= A - 2
  BY <1>2, <1>3, <1>4, <1>5
<1>11. A - w \in Nat /\ A - w >= 2
  BY <1>2, <1>4, <1>9, <1>10
<1> DEFINE x == A - w
           q == x \div 2
<1>12. q \in Nat /\ q >= 1 /\ 2 * q <= x
  <2>1. x \in Nat /\ x >= 2
    BY <1>11
  <2> HIDE DEF x
  <2>2. QED
    BY <2>1
<1>13. InkLeft(c, id, s) = Z + q /\ x = A - w
  BY <1>8
<1> HIDE DEF x, q
<1>14. Z + q >= 0 /\ Z + q + w <= P
  BY <1>2, <1>7, <1>9, <1>12, <1>13
<1>15. QED
  BY <1>13, <1>14 DEF w, P

\* A text with no more digits is not wider.
LEMMA FewerDigits ==
  ASSUME NEW c \in SettingsType, c.sepLen >= 0, NEW x, NEW y, NEW s \in Nat,
         x.prefix = y.prefix, x.prefix.letters \in Nat,
         Len(x.digits) \in Nat, Len(y.digits) \in Nat, Len(x.digits) <= Len(y.digits)
  PROVE  TextWidth(c, x, s) \in Nat /\ TextWidth(c, y, s) \in Nat
         /\ TextWidth(c, x, s) <= TextWidth(c, y, s)
<1> DEFINE lead == x.prefix.letters * Advance(611, s) + c.sepLen * Advance(333, s)
           digit == Advance(556, s)
           m == Len(x.digits)
           n == Len(y.digits)
<1>1. Advance(611, s) \in Nat /\ Advance(333, s) \in Nat /\ Advance(556, s) \in Nat
  <2>1. 611 * s + 500 \in Nat /\ 333 * s + 500 \in Nat /\ 556 * s + 500 \in Nat
    OBVIOUS
  <2>2. /\ (611 * s + 500) \div 1000 \in Nat /\ (333 * s + 500) \div 1000 \in Nat
        /\ (556 * s + 500) \div 1000 \in Nat
    BY <2>1
  <2>3. QED
    BY <2>2 DEF Advance
<1>2. lead \in Nat
  <2>1. c.sepLen \in Nat
    BY DEF SettingsType
  <2> DEFINE p == x.prefix.letters
             a == Advance(611, s)
             b == Advance(333, s)
  <2>2. p \in Nat /\ a \in Nat /\ b \in Nat
    BY <1>1
  <2> HIDE DEF p, a, b
  <2>3. p * a + c.sepLen * b \in Nat
    BY <2>1, <2>2
  <2>4. QED
    BY <2>3 DEF p, a, b
<1>3. TextWidth(c, x, s) = lead + m * digit /\ TextWidth(c, y, s) = lead + n * digit
  BY DEF TextWidth
<1>4. m \in Nat /\ n \in Nat /\ m <= n /\ digit \in Nat
  BY <1>1
<1> HIDE DEF lead, digit, m, n
<1>5. m * digit \in Nat /\ n * digit \in Nat /\ m * digit <= n * digit
  BY <1>4, Multiples
<1>6. QED
  BY <1>2, <1>3, <1>5

-----------------------------------------------------------------------------
(* The ink of a strip.                                                     *)

\* render has found a size for it.
Sized == pc \in {"enqueue", "agent"} => size > 0

LEMMA SizedInductive ==
  ASSUME Sized, [Next]_vars
  PROVE  Sized'
<1>1. CASE Render
  BY <1>1 DEF Render, Sized
<1>2. CASE Enqueue
  BY <1>2 DEF Enqueue, Sized
<1>3. CASE UNCHANGED vars
  BY <1>3 DEF vars, Sized
<1>4. ASSUME ~Render, ~Enqueue, Next PROVE pc' \notin {"enqueue", "agent"}
  BY <1>4 DEF Next, LoadConfig, Refuse, PlanRange, Validate, NotValid, Reserve, RenderRaises,
         SidecarRefused, AgentRejects, PrintPages, PrintRaises, Ended
<1>5. QED
  BY <1>1, <1>2, <1>3, <1>4 DEF Sized

\* Each text of the block fits at the size, but for the height of a bowl.
LEMMA TextsFit ==
  ASSUME NineDigits, Control, Counted, Sized, pc = "agent", NEW i \in 1..label_count
  PROVE  LET text == strip.ink[i].text IN
           /\ TextWidth(cfg, text, size) \in Nat
           /\ TextWidth(cfg, text, size) <= MaxWidth(cfg)
           /\ TextHeight(text, size) <= MaxHeight(cfg) + 1
<1> DEFINE k == plan.perCable
           n == plan.first + (i - 1) \div k
           text == format_identifier(cfg, req.prefix, n)
           widest == Widest(cfg, ids)
<1>1. pc \in InHand
  BY DEF InHand
<1>2. /\ cfg \in SettingsType /\ Accepted(cfg) /\ req.prefix \in Prefix /\ size \in Nat
      /\ cfg.sepLen \in Int /\ cfg.sepLen >= 0 /\ cfg.pad \in Int
  <2>1. cfg \in SettingsType /\ req.prefix \in Prefix
    BY Records DEF Control
  <2>2. Accepted(cfg) /\ size \in Nat
    BY <1>1 DEF Control, Types, Established
  <2>3. QED
    BY <2>1, <2>2 DEF SettingsType, Accepted, StyleAccepted
<1>3. strip.ink[i].text = text
  BY LabelTexts
<1>4. n \in Int /\ n <= Last /\ Last \in Int /\ Last < 10^9 /\ n < 10^9
  <2>1. (i - 1) \div k \in 0..(plan.count - 1)
    BY LabelTexts
  <2> DEFINE j == (i - 1) \div k
  <2> HIDE DEF j
  <2>2. plan.count \in Nat \ {0} /\ plan.first \in Int /\ Last = plan.first + plan.count - 1
    BY <1>1, BlockNumbers DEF Last
  <2>3. j \in 0..(plan.count - 1) /\ n = plan.first + j
    BY <2>1 DEF j
  <2> HIDE DEF n
  <2>4. n \in Int /\ n <= Last
    BY <2>2, <2>3
  <2>5. Last \in Int /\ Last < 10^9 /\ 10^9 = 1000000000
    BY <1>1, LastHasNineDigits, PowersOfTen DEF Powers
  <2>6. QED
    BY <2>4, <2>5
<1>5. /\ size = fit_font_px(cfg, widest) /\ size > 0
  BY DEF Control, Established, Sized, block_font_px
<1>6. /\ TextWidth(cfg, widest, size) <= MaxWidth(cfg)
      /\ TextHeight(widest, size) <= MaxHeight(cfg)
  BY <1>2, <1>5, FitIs DEF Fits
<1>7. TextWidth(cfg, widest, size) = TextWidth(cfg, Last_id, size)
  BY <1>1, WidestLikeLast
<1> HIDE DEF n, widest
<1>8. /\ TextWidth(cfg, text, size) \in Nat /\ TextWidth(cfg, Last_id, size) \in Nat
      /\ TextWidth(cfg, text, size) <= TextWidth(cfg, Last_id, size)
  <2>1. /\ Len(text.digits) = DigitCount(cfg, n) /\ DigitCount(cfg, n) \in Nat \ {0}
        /\ Len(Last_id.digits) = DigitCount(cfg, Last) /\ DigitCount(cfg, Last) \in Nat \ {0}
    BY <1>2, <1>4, WidthAtHundred, Zenon DEF Last_id
  <2>2. DigitCount(cfg, n) <= DigitCount(cfg, Last)
    BY <1>2, <1>4, MoreDigits
  <2>3. text.prefix = Last_id.prefix /\ text.prefix.letters \in Nat
    BY <1>2 DEF Last_id, format_identifier, Prefix
  <2> HIDE DEF text
  <2>4. Len(text.digits) \in Nat /\ Len(Last_id.digits) \in Nat
        /\ Len(text.digits) <= Len(Last_id.digits)
    BY <2>1, <2>2
  <2>5. QED
    BY <1>2, <2>3, <2>4, FewerDigits, Zenon
<1>9. TextHeight(text, size) <= TextHeight(widest, size) + 1
  <2>1. (726 * size + 675) \div 1000 \in Nat
    <3>1. 726 * size + 675 \in Nat
      BY <1>2
    <3>2. QED
      BY <3>1
  <2>2. QED
    BY <2>1 DEF TextHeight
<1>10. /\ TextHeight(text, size) \in Nat /\ TextHeight(widest, size) \in Nat
       /\ MaxWidth(cfg) \in Nat /\ MaxHeight(cfg) \in Nat
  BY <1>2, HeightType, RoomType
<1> HIDE DEF text
<1>11. /\ TextWidth(cfg, text, size) <= MaxWidth(cfg)
       /\ TextHeight(text, size) <= MaxHeight(cfg) + 1
  BY <1>6, <1>7, <1>8, <1>9, <1>10
<1>12. QED
  BY <1>3, <1>8, <1>11

LEMMA InkFits ==
  ASSUME NineDigits, Control, Counted, Sized, pc = "agent", RoomyFor(cfg)
  PROVE  InkOnItsPage
<1> DEFINE boxes == page_boxes(strip.height, label_count)
           P == PageHeight(cfg)
<1>1. /\ cfg \in SettingsType /\ Accepted(cfg) /\ size \in Nat
  BY Records DEF Control, Types, Established, InHand
<1>2. /\ label_count \in Nat \ {0} /\ strip.width = Pixels(cfg, cfg.labelW)
      /\ strip.height = P * label_count
      /\ Len(label_sequence(ids, plan.perCable)) = label_count
      /\ strip = Strip(cfg, label_sequence(ids, plan.perCable), size)
  BY LabelTexts, StripIs DEF Control, Established
<1>3. P \in Nat \ {0}
  BY <1>1, ZoneOnPage
<1>4. \A i \in 1..label_count : boxes[i].top = (i - 1) * P /\ boxes[i].bottom = i * P
  <2> HIDE DEF P
  <2>1. (P * label_count) \div label_count = P
    BY <1>2, <1>3, PagesDivide
  <2>2. strip.height \div label_count = P
    BY <1>2, <2>1
  <2> HIDE DEF label_count
  <2>3. QED
    BY <2>2, Zenon DEF page_boxes
<1>5. ASSUME NEW i \in 1..label_count
      PROVE  LET text == strip.ink[i].text IN
               /\ \A l \in 0..(cfg.repeat - 1) :
                    /\ boxes[i].top <= strip.ink[i].tops[l]
                    /\ strip.ink[i].tops[l] + TextHeight(text, size) <= boxes[i].bottom
               /\ InkLeft(cfg, text, size) >= 0
               /\ InkLeft(cfg, text, size) + TextWidth(cfg, text, size) <= strip.width
  <2> DEFINE text == strip.ink[i].text
             T == TextHeight(text, size)
  <2>1. /\ TextWidth(cfg, text, size) \in Nat /\ TextWidth(cfg, text, size) <= MaxWidth(cfg)
        /\ TextHeight(text, size) <= MaxHeight(cfg) + 1
    BY TextsFit
  <2>2. \A l \in 0..(cfg.repeat - 1) : strip.ink[i].tops[l] = InkTop(cfg, text, size, i, l)
    BY <1>2 DEF Strip
  <2> HIDE DEF text, boxes, P
  <2>3. /\ InkLeft(cfg, text, size) >= 0
        /\ InkLeft(cfg, text, size) + TextWidth(cfg, text, size) <= strip.width
    BY <1>1, <1>2, <2>1, TextOnStrip
  <2>4. ASSUME NEW l \in 0..(cfg.repeat - 1)
        PROVE  /\ boxes[i].top <= strip.ink[i].tops[l]
               /\ strip.ink[i].tops[l] + TextHeight(text, size) <= boxes[i].bottom
    <3> DEFINE R == RoundHalfEven(LineTop(cfg, text, size, l), 2 * cfg.repeat)
    <3>1. R \in Nat /\ R + T <= P
      BY <1>1, <2>1, LineOnPage, Zenon DEF P
    <3>2. T \in Nat
      BY <1>1, HeightType
    <3>3. strip.ink[i].tops[l] = R + (i - 1) * P
      BY <2>2 DEF InkTop, P
    <3>4. boxes[i].top = (i - 1) * P /\ boxes[i].bottom = i * P
      BY <1>4
    <3> HIDE DEF R, T
    <3> DEFINE x == (i - 1) * P
    <3>5. x \in Nat /\ i * P = x + P
      BY <1>2, <1>3
    <3> HIDE DEF x
    <3>6. x <= R + x /\ R + x + T <= x + P
      BY <1>3, <3>1, <3>2, <3>5
    <3>7. QED
      BY <3>3, <3>4, <3>5, <3>6 DEF x, T
  <2>5. QED
    BY <2>3, <2>4 DEF text
<1>6. Divides(strip.height, label_count)
  BY StripDivides
<1>7. QED
  BY <1>5, <1>6 DEF InkOnItsPage

Roomy == RoomyFor(cfg)

\* Where the settings leave a margin of two pixels and lines two pixels high,
\* every line of every label is on its own page and within the width of the
\* strip, whatever the roundings of the pages, the zone, the shares of the lines
\* and the text come to; for numbers of up to nine digits (block_font_px,
\* renderer._render_png, page_boxes).
THEOREM InkStaysOnItsPage ==
  ASSUME NineDigits
  PROVE  Spec => [](Roomy => InkOnItsPage)
<1>1. Init => Sized
  BY DEF Init, Sized
<1>2. Sized /\ [Next]_vars => Sized'
  BY SizedInductive
<1>3. Control /\ Counted /\ Sized => (Roomy => InkOnItsPage)
  <2>1. pc # "agent" => InkOnItsPage
    BY DEF InkOnItsPage
  <2>2. QED
    BY <2>1, InkFits DEF Roomy
<1>4. QED
  BY <1>1, <1>2, <1>3, CountedAlways, PTL DEF Spec

=============================================================================
