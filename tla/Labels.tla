------------------------------- MODULE Labels -------------------------------
(***************************************************************************)
(* What a label says and where its ink goes: identifiers (naming.py), the  *)
(* font search (layout.py), the strip of pages (renderer.py), the cut into *)
(* pages (backends.py), the length of the status line (status.py) and the  *)
(* settings that load_config accepts (config.py).                          *)
(*                                                                         *)
(* Lengths are hundredths of an inch, fonts are points, the rest is        *)
(* pixels.  A setting c is a record:                                       *)
(*   dpi, labelW, labelH, areaW, areaH, margin, gap                        *)
(*   areaX, areaY: the offset of the printed zone, {} for centred          *)
(*   minFont, maxFont, repeat, pad, sepLen, perCable, statusMax            *)
(*   prefixMax, loose: the pattern admits prefixes that long, of letters   *)
(*     and digits only unless loose                                        *)
(*   configured, shadow                                                    *)
(* A prefix is its number of letters (as wide as an L) and whether all of  *)
(* its characters are letters and digits.                                  *)
(***************************************************************************)
EXTENDS Integers, Sequences, FiniteSetsExt


SettingsType ==
  [dpi : Int, labelW : Int, labelH : Int, areaW : Int, areaH : Int, margin : Int, gap : Int,
   areaX : SUBSET Int, areaY : SUBSET Int, minFont : Int, maxFont : Int, repeat : Int, pad : Int,
   sepLen : Int, perCable : Int, statusMax : Int, prefixMax : Int, loose : BOOLEAN,
   configured : BOOLEAN, shadow : BOOLEAN]

Prefix == [letters : Nat, alnum : BOOLEAN]

\* int(round(n / d)): ties go to the even neighbour.
RoundHalfEven(n, d) ==
  LET q == n \div d
      r == 2 * (n % d)
  IN IF r > d \/ (r = d /\ q % 2 = 1) THEN q + 1 ELSE q

\* n / d to whole pixels, never below one.
px(n, d) == Max({1, RoundHalfEven(n, d)})

Pixels(c, length) == px(length * c.dpi, 100)

-----------------------------------------------------------------------------
(* load_config: what it accepts.                                           *)

MediaAccepted(c) ==
  /\ c.dpi > 0
  /\ c.labelW > 0 /\ c.labelH > 0
  /\ c.areaW \in 1..c.labelW /\ c.areaH \in 1..c.labelH
  /\ \A x \in c.areaX : x >= 0 /\ x + c.areaW <= c.labelW
  /\ \A y \in c.areaY : y >= 0 /\ y + c.areaH <= c.labelH
  /\ c.areaW > 2 * c.margin /\ c.areaH > 2 * c.margin

StyleAccepted(c) ==
  /\ c.pad >= 1 /\ c.repeat >= 1 /\ c.sepLen >= 1
  /\ 0 < c.minFont /\ c.minFont <= c.maxFont

\* (A slip: a status field of any length.)
AnyStatusLength(c) == c.perCable >= 1

LimitsAccepted(c) == c.perCable >= 1 /\ c.statusMax >= 40

Accepted(c) ==
  /\ MediaAccepted(c) /\ StyleAccepted(c) /\ LimitsAccepted(c)
  /\ c.configured \/ c.shadow

-----------------------------------------------------------------------------
(* Identifiers.                                                            *)

Width(n) == CHOOSE k \in 1..9 : n < 10^k /\ (k = 1 \/ n >= 10^(k - 1))

LastDigits(n, k) == [i \in 1..k |-> (n \div 10^(k - i)) % 10]

\* (A slip: a number wider than the padding loses its first digits.)
TruncatedDigits(c, n) == LastDigits(n, c.pad)

Digits(c, n) == LastDigits(n, Max({c.pad, Width(n)}))

format_identifier(c, prefix, n) == [prefix |-> prefix, digits |-> Digits(c, n)]

format_block(c, prefix, first, last) ==
  [i \in 1..(last - first + 1) |-> format_identifier(c, prefix, first + i - 1)]

Length(c, id) == id.prefix.letters + c.sepLen + Len(id.digits)

\* Colour and type take up `what` characters.
JobNameLength(c, what, first, last) ==
  (IF what > 0 THEN what + 3 ELSE 0) + Length(c, first) + 3 + Length(c, last)

-----------------------------------------------------------------------------
(* The bundled font, as FreeType measures it: every digit has one advance, *)
(* and the bowls of these digits reach a pixel further from 40 pixels on.  *)

Advance(thousandths, size) == (thousandths * size + 500) \div 1000

BowlDigits == {0, 3, 5, 6, 8, 9}

HasBowls(id) == \E i \in DOMAIN id.digits : id.digits[i] \in BowlDigits

TextWidth(c, id, size) ==
  id.prefix.letters * Advance(611, size) + c.sepLen * Advance(333, size)
    + Len(id.digits) * Advance(556, size)

TextHeight(id, size) ==
  (726 * size + 675) \div 1000 + (IF size >= 40 /\ HasBowls(id) THEN 1 ELSE 0)

-----------------------------------------------------------------------------
(* layout.py: the largest size at which a text fits one line, 0 for none.  *)

MaxWidth(c) == Pixels(c, c.areaW - 2 * c.margin)

\* An equal share of what the gaps between the lines leave.
MaxHeight(c) ==
  px((c.areaH - 2 * c.margin - (c.repeat - 1) * c.gap) * c.dpi, 100 * c.repeat)

fit_font_px(c, id) ==
  LET sizes == {s \in px(c.minFont * c.dpi, 72) .. px(c.maxFont * c.dpi, 72) :
                  TextWidth(c, id, s) <= MaxWidth(c) /\ TextHeight(id, s) <= MaxHeight(c)}
  IN IF sizes = {} THEN 0 ELSE Max(sizes)

\* The first of the widest.
Widest(c, ids) ==
  LET width(i) == TextWidth(c, ids[i], 100)
      most == Max({width(i) : i \in DOMAIN ids})
  IN ids[Min({i \in DOMAIN ids : width(i) = most})]

block_font_px(c, ids) == fit_font_px(c, Widest(c, ids))

-----------------------------------------------------------------------------
(* renderer.py: label i of the strip, i from 1.                            *)

label_sequence(ids, perCable) ==
  [i \in 1..(Len(ids) * perCable) |-> ids[(i - 1) \div perCable + 1]]

PageHeight(c) == Pixels(c, c.labelH)

\* (A slip: the height of the whole strip is rounded.)
RoundedHeight(c, count) == px(c.labelH * count * c.dpi, 100)

StripHeight(c, count) == PageHeight(c) * count

ZoneTop(c) ==
  IF c.areaY = {} THEN (PageHeight(c) - Pixels(c, c.areaH)) \div 2
  ELSE PageHeight(c) - Pixels(c, CHOOSE y \in c.areaY : TRUE) - Pixels(c, c.areaH)

\* The top of line l (from 0) as a fraction of 2 * repeat: the middle of its
\* share of the zone, less half the text.
LineTop(c, id, size, l) ==
  LET margin == Pixels(c, c.margin)
      gap    == Pixels(c, c.gap)
      shares == Pixels(c, c.areaH) - 2 * margin - (c.repeat - 1) * gap
  IN 2 * c.repeat * (ZoneTop(c) + margin + l * gap) + (2 * l + 1) * shares
       - c.repeat * TextHeight(id, size)

\* (A slip: the place on the strip is rounded, not the place on the page.)
RoundedSum(c, id, size, i, l) ==
  RoundHalfEven(LineTop(c, id, size, l) + 2 * c.repeat * (i - 1) * PageHeight(c), 2 * c.repeat)

InkTop(c, id, size, i, l) ==
  RoundHalfEven(LineTop(c, id, size, l), 2 * c.repeat) + (i - 1) * PageHeight(c)

InkLeft(c, id, size) ==
  LET zoneX == IF c.areaX = {} THEN (Pixels(c, c.labelW) - Pixels(c, c.areaW)) \div 2
               ELSE Pixels(c, CHOOSE x \in c.areaX : TRUE)
  IN zoneX + (Pixels(c, c.areaW) - TextWidth(c, id, size)) \div 2

\* The strip: its size, and the text and the tops of the lines of every label.
Strip(c, labels, size) ==
  [width  |-> Pixels(c, c.labelW),
   height |-> StripHeight(c, Len(labels)),
   ink    |-> [i \in 1..Len(labels) |->
                [text |-> labels[i],
                 tops |-> [l \in 0..(c.repeat - 1) |-> InkTop(c, labels[i], size, i, l)]]]]

-----------------------------------------------------------------------------
(* backends.py: the rows of page i when the agent cuts the strip.          *)

Divides(height, count) == count >= 1 /\ height % count = 0

page_boxes(height, count) ==
  [i \in 1..count |-> [top |-> (i - 1) * (height \div count), bottom |-> i * (height \div count)]]

-----------------------------------------------------------------------------
(* status.py: how long the line is whose head (word and range) and tail    *)
(* are that long, with a reason of so many characters.                     *)

HeadLength(c, word, first, last) == word + 1 + Length(c, first) + 2 + Length(c, last)

LineLength(c, head, tail, reason) ==
  LET room == c.statusMax - (head + tail) - 3
      full == head + tail + (IF reason > 0 /\ room >= 8 THEN 3 + Min({reason, room}) ELSE 0)
  IN Min({full, c.statusMax})

=============================================================================
