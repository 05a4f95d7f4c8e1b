-------------------------- MODULE LabelJob_proofs --------------------------
(***************************************************************************)
(* Theorems about LabelJob, for every value of its constants: what a label *)
(* says, where its ink goes and which labels a request comes to.           *)
(***************************************************************************)
EXTENDS LabelJob, FiniteSetTheorems, SequenceTheorems, WellFoundedInduction, TLAPS

-----------------------------------------------------------------------------
(* Numbers.                                                                *)

LEMMA MaxOfTwo ==
  ASSUME NEW a \in Int, NEW b \in Int
  PROVE  Max({a, b}) \in {a, b} /\ Max({a, b}) >= a /\ Max({a, b}) >= b
<1>1. \E x \in {a, b} : \A y \in {a, b} : x >= y
  <2>1. CASE a >= b
    BY <2>1
  <2>2. CASE b >= a
    BY <2>2
  <2>3. QED
    BY <2>1, <2>2
<1>2. QED
  BY <1>1 DEF Max

LEMMA MinOfTwo ==
  ASSUME NEW a \in Int, NEW b \in Int
  PROVE  Min({a, b}) \in {a, b} /\ Min({a, b}) <= a /\ Min({a, b}) <= b
<1>1. \E x \in {a, b} : \A y \in {a, b} : x <= y
  <2>1. CASE a <= b
    BY <2>1
  <2>2. CASE b <= a
    BY <2>2
  <2>3. QED
    BY <2>1, <2>2
<1>2. QED
  BY <1>1 DEF Min

\* A set of numbers from 1 on has a least one.
LEMMA MinOfSome ==
  ASSUME NEW S \in SUBSET Nat, S # {}
  PROVE  Min(S) \in S /\ \A y \in S : Min(S) <= y
<1>1. PICK x \in S : \A y \in S : ~ <<y, x>> \in OpToRel(<, Nat)
  BY NatLessThanWellFounded, WFMin, Zenon
<1>2. ASSUME NEW y \in S PROVE x <= y
  <2>1. y \in Nat /\ x \in Nat /\ ~ (<<y, x>> \in {ss \in Nat \X Nat : ss[1] < ss[2]})
    BY <1>1 DEF OpToRel
  <2>2. ~ (y < x)
    <3>1. ASSUME y < x PROVE <<y, x>> \in {ss \in Nat \X Nat : ss[1] < ss[2]}
      BY <2>1, <3>1
    <3>2. QED
      BY <2>1, <3>1
  <2>3. QED
    BY <2>1, <2>2
<1>3. \E m \in S : \A y \in S : m <= y
  BY <1>2
<1>4. QED
  BY <1>3 DEF Min

\* One with an upper bound has a greatest.
LEMMA MaxOfBounded ==
  ASSUME NEW a \in Int, NEW b \in Int, NEW S \in SUBSET (a..b), S # {}
  PROVE  Max(S) \in S /\ \A y \in S : Max(S) >= y
<1> DEFINE T == {n \in Nat : b - n \in S}
<1>1. T # {}
  <2>1. PICK s \in S : TRUE
    OBVIOUS
  <2>2. b - s \in Nat /\ b - (b - s) = s
    OBVIOUS
  <2>3. QED
    BY <2>1, <2>2
<1>2. Min(T) \in T /\ \A n \in T : Min(T) <= n
  BY <1>1, MinOfSome
<1> DEFINE m == Min(T)
<1>3. b - m \in S
  BY <1>2
<1>4. ASSUME NEW y \in S PROVE b - m >= y
  <2>1. b - y \in Nat /\ b - (b - y) = y
    OBVIOUS
  <2>2. b - y \in T
    BY <2>1
  <2>3. m <= b - y /\ m \in Nat
    BY <1>2, <2>2
  <2>4. QED
    BY <2>3
<1>5. \E x \in S : \A y \in S : x >= y
  BY <1>3, <1>4
<1>6. QED
  BY <1>5 DEF Max

LEMMA RoundType ==
  ASSUME NEW n \in Int, NEW d \in Nat \ {0}
  PROVE  RoundHalfEven(n, d) \in Int
BY DEF RoundHalfEven

LEMMA PixelType ==
  ASSUME NEW n \in Int, NEW d \in Nat \ {0}
  PROVE  px(n, d) \in Nat \ {0}
<1>1. RoundHalfEven(n, d) \in Int
  BY RoundType
<1>2. Max({1, RoundHalfEven(n, d)}) \in Int /\ Max({1, RoundHalfEven(n, d)}) >= 1
  BY <1>1, MaxOfTwo
<1>3. QED
  BY <1>2 DEF px

LEMMA PixelsType ==
  ASSUME NEW c, c.dpi \in Int, NEW length \in Int
  PROVE  Pixels(c, length) \in Nat \ {0}
<1>1. length * c.dpi \in Int
  OBVIOUS
<1>2. QED
  BY <1>1, PixelType DEF Pixels

\* A quotient is what fits.
LEMMA Quotient ==
  ASSUME NEW k \in Nat \ {0}, NEW q \in Nat, NEW p \in Nat, q * k <= p, p < (q + 1) * k
  PROVE  p \div k = q
OBVIOUS

-----------------------------------------------------------------------------
(* Identifiers.                                                            *)

Powers ==
  /\ 10^0 = 1 /\ 10^1 = 10 /\ 10^2 = 100 /\ 10^3 = 1000 /\ 10^4 = 10000 /\ 10^5 = 100000
  /\ 10^6 = 1000000 /\ 10^7 = 10000000 /\ 10^8 = 100000000 /\ 10^9 = 1000000000

LEMMA PowersOfTen == Powers
BY SMT DEF Powers

Tens(k, p) ==
  /\ (k = 0 => p = 1) /\ (k = 1 => p = 10) /\ (k = 2 => p = 100) /\ (k = 3 => p = 1000)
  /\ (k = 4 => p = 10000) /\ (k = 5 => p = 100000) /\ (k = 6 => p = 1000000)
  /\ (k = 7 => p = 10000000) /\ (k = 8 => p = 100000000) /\ (k = 9 => p = 1000000000)

LEMMA PowerIs ==
  ASSUME NEW k \in 0..9
  PROVE  Tens(k, 10^k)
<1>0. k = 0 => 10^k = 1
  BY SMT
<1>1. k = 1 => 10^k = 10
  BY SMT
<1>2. k = 2 => 10^k = 100
  BY SMT
<1>3. k = 3 => 10^k = 1000
  BY SMT
<1>4. k = 4 => 10^k = 10000
  BY SMT
<1>5. k = 5 => 10^k = 100000
  BY SMT
<1>6. k = 6 => 10^k = 1000000
  BY SMT
<1>7. k = 7 => 10^k = 10000000
  BY SMT
<1>8. k = 8 => 10^k = 100000000
  BY SMT
<1>9. k = 9 => 10^k = 1000000000
  BY SMT
<1>10. QED
  BY <1>0, <1>1, <1>2, <1>3, <1>4, <1>5, <1>6, <1>7, <1>8, <1>9, SMT DEF Tens

LEMMA TensGrow ==
  ASSUME NEW k \in 0..9, NEW l \in 0..9, k <= l, NEW p, NEW q, Tens(k, p), Tens(l, q)
  PROVE  p \in Nat \ {0} /\ p <= q
BY SMT DEF Tens

\* Their order.
LEMMA PowersGrow ==
  ASSUME NEW k \in 0..9, NEW l \in 0..9, k <= l
  PROVE  10^k \in Nat \ {0} /\ 10^k <= 10^l
BY PowerIs, TensGrow, Zenon

IsWidth(n, k) == k \in 1..9 /\ n < 10^k /\ (k = 1 \/ n >= 10^(k - 1))

\* A number of up to nine digits has a width.
LEMMA WidthIs ==
  ASSUME NEW n \in Int, n < 10^9
  PROVE  IsWidth(n, Width(n))
<1>1. \E k \in 1..9 : IsWidth(n, k)
  <2>1. CASE n < 10^1
    BY <2>1 DEF IsWidth
  <2>2. ASSUME NEW k \in 2..9, n < 10^k, n >= 10^(k - 1) PROVE \E l \in 1..9 : IsWidth(n, l)
    BY <2>2 DEF IsWidth
  <2>3. n < 10^1 \/ \E k \in 2..9 : n < 10^k /\ n >= 10^(k - 1)
    <3>1. \/ n < 10^1
          \/ (n < 10^2 /\ n >= 10^1) \/ (n < 10^3 /\ n >= 10^2) \/ (n < 10^4 /\ n >= 10^3)
          \/ (n < 10^5 /\ n >= 10^4) \/ (n < 10^6 /\ n >= 10^5) \/ (n < 10^7 /\ n >= 10^6)
          \/ (n < 10^8 /\ n >= 10^7) \/ (n < 10^9 /\ n >= 10^8)
      BY PowersOfTen, SMT DEF Powers
    <3>2. /\ 2 - 1 = 1 /\ 3 - 1 = 2 /\ 4 - 1 = 3 /\ 5 - 1 = 4 /\ 6 - 1 = 5 /\ 7 - 1 = 6
          /\ 8 - 1 = 7 /\ 9 - 1 = 8
      OBVIOUS
    <3>3. QED
      BY <3>1, <3>2, SMT
  <2>4. QED
    BY <2>1, <2>2, <2>3
<1>2. QED
  BY <1>1 DEF Width, IsWidth

\* A smaller number is not wider.
LEMMA NotWider ==
  ASSUME NEW m \in Int, NEW n \in Int, m <= n, NEW a, NEW b, IsWidth(m, a), IsWidth(n, b)
  PROVE  a \in 1..9 /\ b \in 1..9 /\ a <= b
<1>1. a \in 1..9 /\ b \in 1..9
  BY DEF IsWidth
<1>2. ASSUME b < a PROVE FALSE
  <2>1. b \in 0..9 /\ a - 1 \in 0..9 /\ b <= a - 1 /\ a # 1 /\ a - 1 <= a - 1
    BY <1>1, <1>2
  <2>2. 10^b \in Nat \ {0} /\ 10^b <= 10^(a - 1)
    BY <2>1, PowersGrow, Zenon
  <2>3. 10^(a - 1) \in Nat \ {0}
    BY <2>1, PowersGrow, Zenon
  <2>4. QED
    BY <1>2, <2>1, <2>2, <2>3 DEF IsWidth
<1>3. QED
  BY <1>1, <1>2

DigitCount(c, n) == Max({c.pad, Width(n)})

LEMMA DigitCountIs ==
  ASSUME NEW c, c.pad \in Int, NEW n \in Int, n < 10^9
  PROVE  /\ DigitCount(c, n) \in Nat \ {0} /\ DigitCount(c, n) >= Width(n)
         /\ DigitCount(c, n) \in {c.pad, Width(n)} /\ DigitCount(c, n) >= c.pad
         /\ Digits(c, n) = [i \in 1..DigitCount(c, n) |-> (n \div 10^(DigitCount(c, n) - i)) % 10]
         /\ Len(Digits(c, n)) = DigitCount(c, n)
<1>1. Width(n) \in 1..9
  BY WidthIs DEF IsWidth
<1>2. /\ DigitCount(c, n) \in Nat \ {0} /\ DigitCount(c, n) >= Width(n)
      /\ DigitCount(c, n) \in {c.pad, Width(n)} /\ DigitCount(c, n) >= c.pad
  <2>1. Width(n) \in Int
    BY <1>1
  <2>2. /\ DigitCount(c, n) \in {c.pad, Width(n)}
        /\ DigitCount(c, n) >= c.pad /\ DigitCount(c, n) >= Width(n)
    BY <2>1, MaxOfTwo, Zenon DEF DigitCount
  <2>3. QED
    BY <1>1, <2>2
<1>3. Digits(c, n) = [i \in 1..DigitCount(c, n) |-> (n \div 10^(DigitCount(c, n) - i)) % 10]
  BY DEF Digits, DigitCount, LastDigits
<1>4. QED
  BY <1>2, <1>3

LEMMA NoDigitsLeft ==
  ASSUME NEW n \in Nat, NEW p \in Nat \ {0}, n < p
  PROVE  n \div p = 0
BY SMT

\* format_identifier never truncates: two numbers are not written alike.
LEMMA DigitsDiffer ==
  ASSUME NEW c, c.pad \in Int, NEW m \in Nat, NEW n \in Nat, m < 10^9, n < 10^9,
         Digits(c, m) = Digits(c, n)
  PROVE  m = n
<1> DEFINE k == DigitCount(c, n)
           Same(d) == (m \div d) % 10 = (n \div d) % 10
<1>1. /\ k \in Nat \ {0} /\ DigitCount(c, m) = k
      /\ Digits(c, m) = [i \in 1..k |-> (m \div 10^(k - i)) % 10]
      /\ Digits(c, n) = [i \in 1..k |-> (n \div 10^(k - i)) % 10]
  BY DigitCountIs
<1>2. ASSUME NEW e \in 0..8 PROVE Same(10^e)
  <2>1. CASE e < k
    <3>1. k - e \in 1..k /\ k - (k - e) = e
      BY <1>1, <2>1
    <3>2. (m \div 10^(k - (k - e))) % 10 = (n \div 10^(k - (k - e))) % 10
      BY <1>1, <3>1, Zenon
    <3>3. QED
      BY <3>1, <3>2, Zenon
  <2>2. CASE k <= e
    <3>1. /\ Width(m) \in 0..9 /\ Width(n) \in 0..9 /\ e \in 0..9
          /\ Width(m) <= e /\ Width(n) <= e /\ m < 10^Width(m) /\ n < 10^Width(n)
      <4>1. IsWidth(m, Width(m)) /\ IsWidth(n, Width(n))
        BY WidthIs
      <4>2. Width(m) <= k /\ Width(n) <= k
        BY <1>1, DigitCountIs
      <4>3. Width(m) \in 1..9 /\ Width(n) \in 1..9 /\ m < 10^Width(m) /\ n < 10^Width(n)
        BY <4>1, Zenon DEF IsWidth
      <4>4. Width(m) <= e /\ Width(n) <= e
        <5>1. k \in Nat /\ Width(m) \in Nat /\ Width(n) \in Nat /\ e \in Nat
          BY <1>1, <4>3
        <5>2. ASSUME NEW w \in Nat, w <= k PROVE w <= e
          BY <2>2, <5>1, <5>2
        <5>3. QED
          BY <4>2, <5>1, <5>2
      <4>5. QED
        BY <4>3, <4>4
    <3>2. /\ 10^Width(m) \in Nat \ {0} /\ 10^Width(m) <= 10^e
          /\ 10^Width(n) \in Nat \ {0} /\ 10^Width(n) <= 10^e
      BY <3>1, PowersGrow, Zenon
    <3>3. e <= e
      OBVIOUS
    <3>4. 10^e \in Nat \ {0}
      BY <3>1, <3>3, PowersGrow, Zenon
    <3>5. m < 10^e /\ n < 10^e
      BY <3>1, <3>2, <3>4
    <3>6. m \div 10^e = 0 /\ n \div 10^e = 0
      BY <3>4, <3>5, NoDigitsLeft, Zenon
    <3>7. QED
      BY <3>6, Zenon
  <2>3. QED
    BY <1>1, <2>1, <2>2
<1>3. /\ Same(1) /\ Same(10) /\ Same(100) /\ Same(1000) /\ Same(10000) /\ Same(100000)
      /\ Same(1000000) /\ Same(10000000) /\ Same(100000000)
  BY <1>2, PowersOfTen, SMT DEF Powers
<1>4. m \div 1000000000 = n \div 1000000000
  BY PowersOfTen, SMT DEF Powers
<1>5. m \div 100000000 = n \div 100000000
  BY <1>3, <1>4, SMT
<1>6. m \div 10000000 = n \div 10000000
  BY <1>3, <1>5, SMT
<1>7. m \div 1000000 = n \div 1000000
  BY <1>3, <1>6, SMT
<1>8. m \div 100000 = n \div 100000
  BY <1>3, <1>7, SMT
<1>9. m \div 10000 = n \div 10000
  BY <1>3, <1>8, SMT
<1>10. m \div 1000 = n \div 1000
  BY <1>3, <1>9, SMT
<1>11. m \div 100 = n \div 100
  BY <1>3, <1>10, SMT
<1>12. m \div 10 = n \div 10
  BY <1>3, <1>11, SMT
<1>13. m \div 1 = n \div 1
  BY <1>3, <1>12, SMT
<1>14. QED
  BY <1>13, SMT

-----------------------------------------------------------------------------
(* The sizes that fit.                                                     *)

LEMMA FitType ==
  ASSUME NEW c \in SettingsType, NEW id
  PROVE  fit_font_px(c, id) \in Nat
<1> DEFINE a == px(c.minFont * c.dpi, 72)
           b == px(c.maxFont * c.dpi, 72)
           sizes == {s \in a..b : TextWidth(c, id, s) <= MaxWidth(c)
                                    /\ TextHeight(id, s) <= MaxHeight(c)}
<1>1. c.minFont * c.dpi \in Int /\ c.maxFont * c.dpi \in Int
  BY DEF SettingsType
<1>2. a \in Nat \ {0} /\ b \in Nat \ {0}
  BY <1>1, PixelType
<1>3. fit_font_px(c, id) = IF sizes = {} THEN 0 ELSE Max(sizes)
  BY DEF fit_font_px
<1>4. CASE sizes = {}
  BY <1>3, <1>4
<1>5. CASE sizes # {}
  <2>1. sizes \in SUBSET (a..b) /\ a \in Int /\ b \in Int
    BY <1>2
  <2> HIDE DEF sizes, a, b
  <2>2. Max(sizes) \in sizes
    BY <1>5, <2>1, MaxOfBounded
  <2>3. Max(sizes) \in a..b
    BY <2>1, <2>2
  <2>4. Max(sizes) \in Nat
    BY <1>2, <2>3
  <2>5. QED
    BY <1>3, <1>5, <2>4
<1>6. QED
  BY <1>4, <1>5

\* Texts of the same width and height at every size fit at the same size.
LEMMA AlikeFitAlike ==
  ASSUME NEW c, NEW x, NEW y,
         \A s : TextWidth(c, x, s) = TextWidth(c, y, s), \A s : TextHeight(x, s) = TextHeight(y, s)
  PROVE  fit_font_px(c, x) = fit_font_px(c, y)
BY DEF fit_font_px

-----------------------------------------------------------------------------
(* The invariant of the control.                                           *)

Texts == {format_identifier(c, r.prefix, n) : c \in Settings, r \in Requests, n \in Int}

Types ==
  /\ cfg \in Settings /\ req \in Requests
  /\ pc \in {"load", "plan", "validate", "reserve", "render", "enqueue", "agent", "end"}
  /\ next \in Int /\ left \in {req.qty} \cup 0..req.qty
  /\ checked \in Nat /\ size \in Nat
  /\ plan \in [first : Int, count : Int, perCable : Int]
  /\ fates \subseteq Fates
  /\ printed \in Seq(Texts)

InHand == {"render", "enqueue", "agent"}

Last_id == format_identifier(cfg, req.prefix, Last)

\* A block in hand has its identifiers; one from an asset passed validate, and
\* its numbers are taken; one from a tool is the range it was given.
BlockInHand ==
  /\ ids = format_block(cfg, req.prefix, plan.first, Last)
  /\ plan.count >= 1
  /\ req.source = "poll" =>
       /\ Matches(cfg, req.prefix) /\ plan.first >= 1
       /\ next = Last + 1 /\ plan.perCable = cfg.perCable
       /\ checked = fit_font_px(cfg, Last_id)
  /\ req.source # "poll" =>
       plan.first = req.first /\ plan.count = req.qty /\ printed = <<>>

\* What a step has established for those after it.
Established ==
  /\ pc \in {"plan", "validate", "reserve"} \cup InHand => Accepted(cfg)
  /\ pc \in {"load", "plan"} => next = req.first /\ left = req.qty /\ printed = <<>>
  /\ pc = "plan" => req.source # "poll" /\ left >= 1
  /\ pc \in {"validate", "reserve"} => req.source = "poll"
  /\ pc = "reserve" =>
       /\ Valid /\ checked = Fitting
       /\ plan = [first |-> next, count |-> clamp_qty, perCable |-> cfg.perCable]
  /\ pc \in InHand => BlockInHand
  /\ pc \in {"enqueue", "agent"} =>
       /\ label_count > 0 /\ size = block_font_px(cfg, ids)
       /\ strip = Strip(cfg, label_sequence(ids, plan.perCable), size)
  /\ pc = "agent" => plan.first >= 0

Control == Types /\ Established

LEMMA ControlInit == Init => Control
BY ConstantsAssumption DEF Init, Control, Types, Established, NoPlan, Fates, InHand

LEMMA Records ==
  ASSUME Types
  PROVE  cfg \in SettingsType /\ req.source \in Sources /\ req.first \in Int /\ req.qty \in Int
         /\ req.prefix \in Prefix /\ req.copies \in Int /\ req.what \in Nat
         /\ cfg.perCable \in Int /\ BatchSize \in Nat \ {0}
BY ConstantsAssumption DEF Types, SettingsType

\* The settings and the plan.
LEMMA PlanSteps ==
  ASSUME Control, LoadConfig \/ Refuse \/ PlanRange \/ Validate \/ NotValid
  PROVE  Control'
<1> USE Records DEF Control
<1>1. CASE LoadConfig
  BY <1>1 DEF LoadConfig, Types, Established, InHand
<1>2. CASE Refuse \/ NotValid
  BY <1>2 DEF Refuse, NotValid, Types, Established, InHand
<1>3. CASE PlanRange
  <2>1. /\ plan' \in [first : Int, count : Int, perCable : Int]
        /\ plan'.first = next /\ plan'.count = left
    BY <1>3 DEF PlanRange, Types
  <2>2. ids' = format_block(cfg, req.prefix, plan'.first, plan'.first + plan'.count - 1)
    BY <1>3, <2>1 DEF PlanRange
  <2>3. BlockInHand'
    BY <1>3, <2>1, <2>2 DEF PlanRange, BlockInHand, Established, Last
  <2>4. QED
    BY <1>3, <2>1, <2>3 DEF PlanRange, Types, Established, InHand
<1>4. CASE Validate
  <2>1. clamp_qty \in Int
    BY DEF clamp_qty, Types
  <2>2. plan' \in [first : Int, count : Int, perCable : Int]
    BY <1>4, <2>1 DEF Validate, Types
  <2>3. Fitting \in Nat
    BY FitType DEF Fitting
  <2>4. Types'
    BY <1>4, <2>2, <2>3 DEF Validate, Types
  <2>5. UNCHANGED <<cfg, req, next, left>> /\ Valid /\ checked' = Fitting
        /\ plan' = [first |-> next, count |-> clamp_qty, perCable |-> cfg.perCable]
        /\ pc = "validate" /\ pc' \in {"end", "reserve"}
    BY <1>4 DEF Validate
  <2>6. Valid' /\ Fitting' = Fitting /\ clamp_qty' = clamp_qty
    BY <2>5 DEF Valid, Fitting, clamp_qty, WidestNumber
  <2>7. Established'
    BY <2>5, <2>6 DEF Established, InHand
  <2>8. QED
    BY <2>4, <2>7
<1>5. QED
  BY <1>1, <1>2, <1>3, <1>4

\* The numbers are taken.
LEMMA ReserveStep == Control /\ Reserve => Control'
<1> SUFFICES ASSUME Control, Reserve PROVE Control'
  OBVIOUS
<1> USE Records DEF Control
<1>1. /\ pc = "reserve" /\ pc' = "render" /\ UNCHANGED <<cfg, req, checked, plan, size, strip, fates, printed>>
      /\ next' = Last + 1 /\ left' = left - plan.count
      /\ ids' = format_block(cfg, req.prefix, plan.first, Last)
  BY DEF Reserve
<1>2. /\ Valid /\ checked = Fitting /\ req.source = "poll" /\ Accepted(cfg)
      /\ plan = [first |-> next, count |-> clamp_qty, perCable |-> cfg.perCable]
  BY <1>1 DEF Established
<1>3. plan.first = next /\ plan.count = clamp_qty /\ plan.perCable = cfg.perCable
  BY <1>2
<1>4. next \in Int /\ next >= 1 /\ left \in Int /\ left >= 1 /\ left <= req.qty
  BY <1>2 DEF Valid, Types
<1>5. clamp_qty \in 1..left
  BY <1>4 DEF clamp_qty
<1>6. left' \in 0..req.qty
  BY <1>1, <1>3, <1>4, <1>5
<1>7. Last = WidestNumber /\ Last \in Int
  BY <1>3, <1>4, <1>5 DEF Last, WidestNumber
<1>8. Types'
  BY <1>1, <1>6, <1>7 DEF Types
<1>9. checked = fit_font_px(cfg, Last_id)
  BY <1>2, <1>7 DEF Fitting, Last_id
<1>10. BlockInHand'
  BY <1>1, <1>2, <1>3, <1>4, <1>5, <1>9 DEF BlockInHand, Last, Last_id, Valid
<1>11. QED
  BY <1>1, <1>2, <1>8, <1>10 DEF Established, InHand

\* What stays while a block is in hand.
LEMMA BlockStays ==
  ASSUME BlockInHand, UNCHANGED <<cfg, req, next, checked, plan, ids, printed>>
  PROVE  BlockInHand'
BY DEF BlockInHand, Last, Last_id

LEMMA JobSteps ==
  ASSUME Control, Render \/ Enqueue
  PROVE  Control'
<1> USE Records DEF Control
<1>1. CASE Render
  <2>1. /\ pc = "render" /\ label_count > 0 /\ pc' = "enqueue"
        /\ size' = block_font_px(cfg, ids)
        /\ strip' = Strip(cfg, label_sequence(ids, plan.perCable), size')
        /\ UNCHANGED <<cfg, req, next, left, checked, plan, ids, fates, printed>>
    BY <1>1 DEF Render
  <2>2. size' \in Nat
    BY <2>1, FitType DEF block_font_px
  <2>3. Types'
    BY <2>1, <2>2 DEF Types
  <2>4. BlockInHand' /\ Accepted(cfg)
    BY <2>1, BlockStays DEF Established, InHand
  <2>5. QED
    BY <2>1, <2>3, <2>4 DEF Established, InHand, label_count
<1>2. CASE Enqueue
  <2>1. /\ pc = "enqueue" /\ pc' = "agent" /\ plan.first >= 0
        /\ UNCHANGED <<cfg, req, next, left, checked, plan, ids, size, strip, fates, printed>>
    BY <1>2 DEF Enqueue, SidecarAccepted
  <2>2. Types'
    BY <2>1 DEF Types
  <2>3. BlockInHand' /\ Accepted(cfg)
    BY <2>1, BlockStays DEF Established, InHand
  <2>4. QED
    BY <2>1, <2>2, <2>3 DEF Established, InHand, label_count
<1>3. QED
  BY <1>1, <1>2

\* The texts of the labels.
LEMMA LabelTexts ==
  ASSUME Control, pc = "agent"
  PROVE  /\ label_count \in Nat \ {0} /\ plan.perCable \in Nat \ {0}
         /\ Len(ids) = plan.count
         /\ \A i \in 1..label_count :
              /\ (i - 1) \div plan.perCable \in 0..(plan.count - 1)
              /\ strip.ink[i].text =
                   format_identifier(cfg, req.prefix, plan.first + (i - 1) \div plan.perCable)
<1> USE Records DEF Control
<1> DEFINE k == plan.perCable
           n == plan.count
<1>1. /\ label_count > 0 /\ BlockInHand /\ n >= 1 /\ n \in Int /\ k \in Int /\ plan.first \in Int
      /\ strip = Strip(cfg, label_sequence(ids, k), size)
  BY DEF Established, InHand, BlockInHand, Types
<1>2. n * k > 0
  BY <1>1 DEF label_count
<1>3. k \in Nat \ {0} /\ n \in Nat \ {0}
  BY <1>1, <1>2
<1>4. n * k \in Nat \ {0}
  BY <1>2, <1>3
<1>5. ids = [i \in 1..n |-> format_identifier(cfg, req.prefix, plan.first + i - 1)]
  <2>1. Last - plan.first + 1 = n
    BY <1>1 DEF Last
  <2>2. QED
    BY <1>1, <2>1 DEF BlockInHand, format_block
<1>6. Len(ids) = n
  BY <1>3, <1>5
<1>7. label_sequence(ids, k) = [i \in 1..(n * k) |-> ids[(i - 1) \div k + 1]]
  BY <1>6 DEF label_sequence
<1>8. Len(label_sequence(ids, k)) = n * k
  BY <1>4, <1>7
<1>9. \A i \in 1..(n * k) : strip.ink[i].text = label_sequence(ids, k)[i]
  BY <1>1, <1>8 DEF Strip
<1>10. ASSUME NEW i \in 1..(n * k)
       PROVE  /\ (i - 1) \div k \in 0..(n - 1)
              /\ strip.ink[i].text =
                   format_identifier(cfg, req.prefix, plan.first + (i - 1) \div k)
  <2>1. (i - 1) \div k \in 0..(n - 1)
    BY <1>3, <1>4
  <2> DEFINE q == (i - 1) \div k
  <2>2. q + 1 \in 1..n /\ plan.first + (q + 1) - 1 = plan.first + q
    BY <1>1, <2>1
  <2>3. strip.ink[i].text = ids[q + 1]
    BY <1>7, <1>9
  <2>4. ids[q + 1] = format_identifier(cfg, req.prefix, plan.first + (q + 1) - 1)
    BY <1>5, <2>2
  <2>5. QED
    BY <2>1, <2>2, <2>3, <2>4
<1>11. QED
  BY <1>3, <1>4, <1>6, <1>10 DEF label_count

\* The end of a block, whatever became of it.
LEMMA EndedStep ==
  ASSUME Control, pc \in InHand, NEW fate \in Fates, Ended(fate), printed' \in Seq(Texts)
  PROVE  Control'
<1>1. /\ fates' = fates \cup {fate} /\ pc' \in {"validate", "end"}
      /\ pc' = "validate" => req.source = "poll"
      /\ UNCHANGED <<cfg, req, next, left, checked, plan, ids, size, strip>>
  BY DEF Ended
<1>2. Types'
  BY <1>1 DEF Control, Types
<1>3. Accepted(cfg)
  BY DEF Control, Established
<1>4. QED
  BY <1>1, <1>2, <1>3 DEF Control, Established, InHand

LEMMA BlockEnds ==
  ASSUME Control, RenderRaises \/ SidecarRefused \/ AgentRejects \/ PrintRaises \/ PrintPages
  PROVE  Control'
<1>1. ASSUME ~PrintPages PROVE Control'
  <2>1. pc \in InHand /\ \E fate \in Fates : Ended(fate)
    BY <1>1 DEF RenderRaises, SidecarRefused, AgentRejects, PrintRaises, InHand, Fates
  <2>2. printed' \in Seq(Texts)
    BY <1>1 DEF RenderRaises, SidecarRefused, AgentRejects, PrintRaises, Control, Types
  <2>3. QED
    BY <2>1, <2>2, EndedStep
<1>2. ASSUME PrintPages PROVE Control'
  <2>1. /\ pc = "agent" /\ Ended("sent")
        /\ printed' = printed \o [i \in 1..label_count |-> strip.ink[i].text]
    BY <1>2 DEF PrintPages
  <2>2. /\ label_count \in Nat \ {0}
        /\ \A i \in 1..label_count : strip.ink[i].text \in Texts
    <3>1. plan.first \in Int /\ cfg \in Settings /\ req \in Requests
      BY DEF Control, Types
    <3>2. label_count \in Nat \ {0} /\ plan.perCable \in Nat \ {0}
      BY <2>1, LabelTexts
    <3>3. ASSUME NEW i \in 1..label_count PROVE strip.ink[i].text \in Texts
      <4>1. (i - 1) \div plan.perCable \in Int
        BY <3>2
      <4>2. plan.first + (i - 1) \div plan.perCable \in Int
        BY <3>1, <4>1
      <4>3. QED
        BY <2>1, <3>1, <4>2, LabelTexts DEF Texts
    <3>4. QED
      BY <3>2, <3>3
  <2>3. [i \in 1..label_count |-> strip.ink[i].text] \in Seq(Texts)
    BY <2>2
  <2>4. printed' \in Seq(Texts)
    BY <2>1, <2>3 DEF Control, Types
  <2>5. QED
    BY <2>1, <2>4, EndedStep DEF InHand, Fates
<1>3. QED
  BY <1>1, <1>2

LEMMA ControlInductive == Control /\ [Next]_vars => Control'
<1>1. Control /\ Next => Control'
  BY PlanSteps, ReserveStep, JobSteps, BlockEnds DEF Next
<1>2. Control /\ UNCHANGED vars => Control'
  BY DEF vars, Control, Types, Established, Valid, Fitting, clamp_qty, WidestNumber, BlockInHand,
         Last, Last_id, label_count
<1>3. QED
  BY <1>1, <1>2

LEMMA ControlAlways == Spec => []Control
BY ControlInit, ControlInductive, PTL DEF Spec

\* The state has its type: what is left of a request never falls below zero, and
\* the printer has been given a sequence of labels (allocator.reserve,
\* GdiBackend.print).
THEOREM TypeCorrect == Spec => []TypeOK
<1>1. Control => TypeOK
  <2>1. ASSUME Control PROVE Len(printed) \in Nat
    BY <2>1, LenProperties DEF Control, Types
  <2>2. QED
    BY <2>1 DEF Control, Types, TypeOK
<1>2. QED
  BY <1>1, ControlAlways, PTL

-----------------------------------------------------------------------------
(* Both ends of a cable get the same label.                                *)

LEMMA Multiples ==
  ASSUME NEW k \in Nat, NEW a \in Nat, NEW b \in Nat
  PROVE  /\ a * k \in Nat
         /\ a <= b => a * k <= b * k
         /\ a >= 1 => 0 <= (a - 1) * k
<1>1. ASSUME a <= b PROVE a * k <= b * k
  <2>1. b - a \in Nat /\ (b - a) * k \in Nat
    BY <1>1
  <2>2. b * k = a * k + (b - a) * k
    BY <1>1
  <2>3. QED
    BY <2>1, <2>2
<1>2. QED
  BY <1>1

\* The labels from (i - 1) * k + 1 to i * k show identifier i.
LEMMA SameCable ==
  ASSUME NEW k \in Nat \ {0}, NEW i \in Nat \ {0}, NEW p \in ((i - 1) * k + 1)..(i * k)
  PROVE  p - 1 \in Nat /\ (p - 1) \div k = i - 1
<1>1. i - 1 \in Nat /\ (i - 1) * k \in Nat /\ i * k \in Nat /\ p \in Nat
  OBVIOUS
<1>2. p - 1 \in Nat /\ (i - 1) * k <= p - 1 /\ p - 1 < ((i - 1) + 1) * k
  BY <1>1
<1>3. QED
  BY <1>1, <1>2, Quotient

LEMMA LineTopType ==
  ASSUME NEW c \in SettingsType, Accepted(c), NEW id, NEW s \in Nat, NEW l \in Int
  PROVE  LineTop(c, id, s, l) \in Int /\ PageHeight(c) \in Nat \ {0} /\ c.repeat \in Nat \ {0}
<1> DEFINE margin == Pixels(c, c.margin)
           gap    == Pixels(c, c.gap)
           shares == Pixels(c, c.areaH) - 2 * margin - (c.repeat - 1) * gap
<1>1. /\ c.dpi \in Int /\ c.labelH \in Int /\ c.areaH \in Int /\ c.margin \in Int /\ c.gap \in Int
      /\ c.repeat \in Nat \ {0} /\ c.areaY \in SUBSET Int
  BY DEF SettingsType, Accepted, StyleAccepted
<1>2. /\ margin \in Int /\ gap \in Int /\ Pixels(c, c.areaH) \in Int
      /\ PageHeight(c) \in Nat \ {0}
  BY <1>1, PixelsType DEF PageHeight
<1>3. ZoneTop(c) \in Int
  <2>1. ASSUME c.areaY # {} PROVE (CHOOSE y \in c.areaY : TRUE) \in Int
    BY <1>1, <2>1
  <2>2. ASSUME NEW y \in Int PROVE Pixels(c, y) \in Int
    BY <1>1, PixelsType
  <2>3. QED
    BY <1>2, <2>1, <2>2 DEF ZoneTop
<1>4. TextHeight(id, s) \in Int
  <2>1. 726 * s + 675 \in Int
    OBVIOUS
  <2>2. QED
    BY <2>1 DEF TextHeight
<1> HIDE DEF margin, gap
<1>5. /\ (c.repeat - 1) * gap \in Int /\ l * gap \in Int
      /\ c.repeat * TextHeight(id, s) \in Int
  BY <1>1, <1>2, <1>4
<1>6. shares \in Int /\ ZoneTop(c) + margin + l * gap \in Int /\ 2 * l + 1 \in Int /\ 2 * c.repeat \in Int
  BY <1>1, <1>2, <1>3, <1>5
<1> HIDE DEF shares
<1>7. (2 * l + 1) * shares \in Int /\ 2 * c.repeat * (ZoneTop(c) + margin + l * gap) \in Int
  BY <1>6
<1>8. LineTop(c, id, s, l) =
        2 * c.repeat * (ZoneTop(c) + margin + l * gap) + (2 * l + 1) * shares
          - c.repeat * TextHeight(id, s)
  BY DEF LineTop, margin, gap, shares
<1>9. QED
  BY <1>1, <1>2, <1>5, <1>7, <1>8

\* The labels for the ends of one cable are the same to the pixel, for every
\* setting that load_config accepts: the place of a line on its page is rounded
\* before the page's place on the strip is added (renderer._render_png), and the
\* pages of one cable show one text (label_sequence).
THEOREM EndsAgree == Spec => []EndsAreIdentical
<1>1. Control => EndsAreIdentical
  <2> SUFFICES ASSUME Control, pc = "agent", NEW i \in 1..plan.count,
                      NEW p \in ((i - 1) * plan.perCable + 1)..(i * plan.perCable),
                      NEW q \in ((i - 1) * plan.perCable + 1)..(i * plan.perCable),
                      NEW l \in 0..(cfg.repeat - 1)
               PROVE  strip.ink[p].tops[l] - (p - 1) * PageHeight(cfg)
                        = strip.ink[q].tops[l] - (q - 1) * PageHeight(cfg)
    BY DEF EndsAreIdentical
  <2> DEFINE k == plan.perCable
             labels == label_sequence(ids, k)
             Top(page) == RoundHalfEven(LineTop(cfg, labels[page], size, l), 2 * cfg.repeat)
  <2> DEFINE n == plan.count
  <2>1. /\ k \in Nat \ {0} /\ Len(ids) = n /\ n \in Nat \ {0}
        /\ i \in Nat \ {0} /\ i <= n
    <3>1. n \in Int /\ n >= 1
      BY DEF Control, Established, InHand, BlockInHand, Types
    <3>2. QED
      BY <3>1, LabelTexts
  <2>2. /\ strip = Strip(cfg, labels, size) /\ Accepted(cfg) /\ cfg \in SettingsType
        /\ size \in Nat
    BY Records DEF Control, Established, InHand, Types
  <2>3. n * k \in Nat /\ i * k <= n * k /\ 0 <= (i - 1) * k
    <3>1. k \in Nat /\ n \in Nat /\ i \in Nat /\ i <= n /\ i >= 1
      BY <2>1
    <3>2. QED
      BY <3>1, Multiples, Zenon
  <2>4. p \in 1..(n * k) /\ q \in 1..(n * k)
    BY <2>1, <2>3
  <2>5. /\ labels = [page \in 1..(n * k) |-> ids[(page - 1) \div k + 1]]
        /\ Len(labels) = n * k
    BY <2>1, <2>3 DEF label_sequence
  <2>6. labels[p] = ids[(i - 1) + 1] /\ labels[q] = ids[(i - 1) + 1]
    BY <2>1, <2>4, <2>5, SameCable
  <2>7. Top(p) = Top(q)
    BY <2>6
  <2>8. Top(p) \in Int /\ Top(q) \in Int /\ PageHeight(cfg) \in Int
    <3>1. /\ LineTop(cfg, labels[p], size, l) \in Int /\ LineTop(cfg, labels[q], size, l) \in Int
          /\ PageHeight(cfg) \in Int /\ 2 * cfg.repeat \in Nat \ {0}
      BY <2>2, LineTopType
    <3>2. QED
      BY <3>1, RoundType
  <2>9. ASSUME NEW page \in 1..(n * k)
        PROVE  strip.ink[page].tops[l] = Top(page) + (page - 1) * PageHeight(cfg)
    BY <2>2, <2>5 DEF Strip, InkTop
  <2> HIDE DEF Top, labels
  <2>10. \A x \in Int, y \in Int : x + y - y = x
    OBVIOUS
  <2>11. (p - 1) * PageHeight(cfg) \in Int /\ (q - 1) * PageHeight(cfg) \in Int
    BY <2>4, <2>8
  <2>12. QED
    BY <2>4, <2>7, <2>8, <2>9, <2>10, <2>11
<1>2. QED
  BY <1>1, ControlAlways, PTL

-----------------------------------------------------------------------------
(* Width of a block.                                                       *)

\* The identifiers of a block, one by one.
LEMMA BlockNumbers ==
  ASSUME Control, pc \in InHand
  PROVE  /\ plan.count \in Nat \ {0} /\ plan.first \in Int /\ Last \in Int /\ plan.first <= Last
         /\ ids = [i \in 1..plan.count |-> format_identifier(cfg, req.prefix, plan.first + i - 1)]
         /\ Len(ids) = plan.count
         /\ ids[1] = format_identifier(cfg, req.prefix, plan.first)
         /\ ids[Len(ids)] = Last_id
<1>1. /\ plan.count \in Nat \ {0} /\ plan.first \in Int
      /\ ids = format_block(cfg, req.prefix, plan.first, Last)
  BY DEF Control, Types, Established, BlockInHand
<1>2. Last - plan.first + 1 = plan.count /\ Last = plan.first + plan.count - 1
  BY <1>1 DEF Last
<1>3. ids = [i \in 1..plan.count |-> format_identifier(cfg, req.prefix, plan.first + i - 1)]
  BY <1>1, <1>2 DEF format_block
<1>4. Len(ids) = plan.count
  BY <1>1, <1>3
<1>5. plan.first + 1 - 1 = plan.first /\ 1 \in 1..plan.count /\ plan.count \in 1..plan.count
  BY <1>1
<1>6. Last \in Int /\ plan.first <= Last
  BY <1>1, <1>2
<1>7. /\ ids[1] = format_identifier(cfg, req.prefix, plan.first)
      /\ ids[plan.count] = format_identifier(cfg, req.prefix, plan.first + plan.count - 1)
  BY <1>3, <1>5
<1>8. QED
  BY <1>1, <1>2, <1>3, <1>4, <1>6, <1>7, Zenon DEF Last_id

LEMMA FiveDigits ==
  ASSUME NEW n \in Int, n <= 99999
  PROVE  Width(n) \in 1..5
<1>1. IsWidth(n, Width(n))
  BY WidthIs, PowersOfTen, SMT DEF Powers
<1>2. IsWidth(99999, 5)
  <2>1. 10^5 = 100000
    BY SMT
  <2>2. 10^4 = 10000
    BY SMT
  <2>3. 5 - 1 = 4
    OBVIOUS
  <2>4. QED
    BY <2>1, <2>2, <2>3, SMT DEF IsWidth
<1>3. Width(n) <= 5 /\ Width(n) \in 1..9
  BY <1>1, <1>2, NotWider
<1>4. QED
  BY <1>3

\* An identifier with a prefix of the shipped pattern and up to five digits.
LEMMA ShortIdentifier ==
  ASSUME NEW c, c.pad \in Int, c.pad <= 5, c.sepLen \in 0..1,
         NEW prefix, prefix.letters \in 1..8, NEW n \in Int, n <= 99999
  PROVE  Length(c, format_identifier(c, prefix, n)) \in 2..14
<1>1. n < 10^9
  BY PowersOfTen, SMT DEF Powers
<1>2. /\ Len(Digits(c, n)) = DigitCount(c, n) /\ DigitCount(c, n) \in {c.pad, Width(n)}
      /\ DigitCount(c, n) \in Nat \ {0}
  BY <1>1, DigitCountIs
<1>3. Width(n) \in 1..5
  BY FiveDigits
<1>4. Len(Digits(c, n)) \in 1..5
  BY <1>2, <1>3
<1> DEFINE digits == Len(Digits(c, n))
<1>5. Length(c, format_identifier(c, prefix, n)) = prefix.letters + c.sepLen + digits
  BY SMT DEF format_identifier, Length
<1> DEFINE length == Length(c, format_identifier(c, prefix, n))
<1>6. digits \in 1..5
  BY <1>4, SMT
<1> HIDE DEF digits, length
<1>7. length = prefix.letters + c.sepLen + digits
  BY <1>5, SMT DEF length
<1>8. length \in 2..14
  BY <1>6, <1>7, SMT
<1>9. QED
  BY <1>8, SMT DEF length

\* The line is not shorter than word and range once these fit the field.
LEMMA LineHolds ==
  ASSUME NEW c, c.statusMax \in Int, NEW head \in Int, head <= c.statusMax,
         NEW tail \in Nat, NEW reason \in Nat
  PROVE  LineLength(c, head, tail, reason) >= head
<1> DEFINE room == c.statusMax - (head + tail) - 3
           full == head + tail + (IF reason > 0 /\ room >= 8 THEN 3 + Min({reason, room}) ELSE 0)
<1>1. room \in Int
  OBVIOUS
<1>2. room >= 8 => Min({reason, room}) \in Nat
  <2>1. reason \in Int /\ room \in Int
    BY <1>1
  <2> HIDE DEF room
  <2>2. Min({reason, room}) \in {reason, room}
    BY <2>1, MinOfTwo, Zenon
  <2>3. QED
    BY <1>1, <2>2
<1>3. full \in Int /\ full >= head
  BY <1>1, <1>2
<1>4. LineLength(c, head, tail, reason) = Min({full, c.statusMax})
  BY DEF LineLength
<1> HIDE DEF full
<1>5. Min({full, c.statusMax}) \in {full, c.statusMax}
  BY <1>3, MinOfTwo, Zenon
<1>6. QED
  BY <1>3, <1>4, <1>5

\* A status line keeps the word and the whole range, whatever the reason, for
\* every status length that load_config accepts, with the shipped prefix pattern
\* and separator and numbers of up to five digits (format_status_line).
THEOREM RangeIsKept == Spec => []StatusKeepsRange
<1>1. Control => StatusKeepsRange
  <2> SUFFICES ASSUME Control, Taken, cfg.prefixMax <= 8, cfg.sepLen <= 1, cfg.pad <= 5,
                      Last <= 99999,
                      NEW word \in Words, NEW tail \in {40, 70}, NEW reason \in {0, 10, 300}
               PROVE  LineLength(cfg, HeadLength(cfg, word, ids[1], ids[Len(ids)]), tail, reason)
                        >= HeadLength(cfg, word, ids[1], ids[Len(ids)])
    BY DEF StatusKeepsRange
  <2>1. pc \in InHand /\ req.source = "poll"
    BY DEF Taken, InHand
  <2>2. /\ cfg.sepLen \in Int /\ cfg.pad \in Int /\ cfg.statusMax \in Int /\ cfg.prefixMax \in Int
        /\ req.prefix.letters \in Nat
    BY Records DEF Control, SettingsType, Prefix
  <2>3. /\ cfg.sepLen >= 1 /\ cfg.pad >= 1 /\ cfg.statusMax >= 40
        /\ req.prefix.letters \in 1..8
    <3>1. Accepted(cfg) /\ Matches(cfg, req.prefix)
      BY <2>1 DEF Control, Established, BlockInHand
    <3>2. QED
      BY <2>2, <3>1 DEF Matches, Accepted, StyleAccepted, LimitsAccepted
  <2>4. ASSUME NEW n \in Int, n <= 99999
        PROVE  Length(cfg, format_identifier(cfg, req.prefix, n)) \in 2..14
    <3>1. cfg.pad <= 5 /\ cfg.sepLen \in 0..1
      BY <2>2, <2>3
    <3>2. QED
      BY <2>2, <2>3, <2>4, <3>1, ShortIdentifier
  <2>5. /\ Length(cfg, ids[1]) \in 2..14
        /\ Length(cfg, ids[Len(ids)]) \in 2..14
    <3>1. plan.first \in Int /\ Last \in Int /\ plan.first <= Last
          /\ ids[1] = format_identifier(cfg, req.prefix, plan.first) /\ ids[Len(ids)] = Last_id
      BY <2>1, BlockNumbers
    <3>2. plan.first <= 99999
      BY <3>1
    <3>3. QED
      BY <2>4, <3>1, <3>2 DEF Last_id
  <2> DEFINE head == HeadLength(cfg, word, ids[1], ids[Len(ids)])
  <2>6. head \in Int /\ head <= 38
    <3>1. head = word + 1 + Length(cfg, ids[1]) + 2 + Length(cfg, ids[Len(ids)])
      BY DEF HeadLength
    <3>2. word \in 4..7
      BY DEF Words
    <3> DEFINE a == Length(cfg, ids[1])
               b == Length(cfg, ids[Len(ids)])
    <3>3. head = word + 1 + a + 2 + b /\ a \in 2..14 /\ b \in 2..14
      BY <2>5, <3>1, SMT
    <3> HIDE DEF head, a, b
    <3>4. QED
      BY <3>2, <3>3, SMT
  <2> HIDE DEF head
  <2>7. head <= cfg.statusMax /\ tail \in Nat /\ reason \in Nat
    BY <2>2, <2>3, <2>6
  <2>8. LineLength(cfg, head, tail, reason) >= head
    BY <2>2, <2>6, <2>7, LineHolds
  <2>9. QED
    BY <2>8 DEF head
<1>2. QED
  BY <1>1, ControlAlways, PTL

-----------------------------------------------------------------------------
(* The size that validate finds is the size that render takes.             *)

\* No number of a request has more than nine digits, see Width.
NineDigits == \A r \in Requests : r.first + r.qty <= 10^9

\* A request from an asset is never worked off further than it goes.
Counted ==
  req.source = "poll" =>
    /\ next + left = req.first + req.qty
    /\ pc \in InHand => left >= 0

LEMMA CountedInductive ==
  ASSUME Control, Counted, [Next]_vars
  PROVE  Counted'
<1> USE DEF Control, Types
<1>1. /\ req.first \in Int /\ req.qty \in Int /\ next \in Int /\ left \in Int
      /\ BatchSize \in Nat \ {0}
  BY Records
<1>2. CASE LoadConfig \/ Refuse \/ Validate \/ NotValid
  BY <1>2 DEF Counted, LoadConfig, Refuse, Validate, NotValid, InHand
<1>3. CASE PlanRange
  BY <1>3 DEF Counted, PlanRange, Established
<1>4. CASE Reserve
  <2>1. /\ left >= 1 /\ plan.count = clamp_qty /\ plan.first = next
    BY <1>4 DEF Reserve, Established, Valid
  <2>2. clamp_qty \in 1..left
    BY <1>1, <2>1 DEF clamp_qty
  <2>3. next' = next + plan.count /\ left' = left - plan.count /\ UNCHANGED req
    BY <1>1, <1>4, <2>1, <2>2 DEF Reserve, Last
  <2>4. QED
    BY <1>1, <2>1, <2>2, <2>3 DEF Counted
<1>5. CASE Render \/ Enqueue
  BY <1>5 DEF Counted, Render, Enqueue, InHand
<1>6. CASE RenderRaises \/ SidecarRefused \/ AgentRejects \/ PrintRaises \/ PrintPages
  <2>1. /\ pc' \in {"validate", "end"} /\ UNCHANGED <<req, next, left>>
    BY <1>6 DEF RenderRaises, SidecarRefused, AgentRejects, PrintRaises, PrintPages, Ended
  <2>2. QED
    BY <2>1 DEF Counted, InHand
<1>7. CASE UNCHANGED vars
  BY <1>7 DEF vars, Counted
<1>8. QED
  BY <1>2, <1>3, <1>4, <1>5, <1>6, <1>7 DEF Next

LEMMA CountedAlways == Spec => [](Control /\ Counted)
<1>1. Init => Counted
  BY DEF Init, Counted, InHand
<1>2. Control /\ Counted /\ [Next]_vars => Counted'
  BY CountedInductive
<1>3. QED
  BY <1>1, <1>2, ControlAlways, PTL DEF Spec

LEMMA LastHasNineDigits ==
  ASSUME NineDigits, Control, Counted, pc \in InHand
  PROVE  Last \in Int /\ Last < 10^9
<1>1. /\ plan.count \in Int /\ plan.first \in Int /\ Last = plan.first + plan.count - 1
      /\ next \in Int /\ left \in Int /\ req.first \in Int /\ req.qty \in Int
  BY Records DEF Control, Types, Last
<1>2. req.first + req.qty <= 10^9 /\ 10^9 = 1000000000
  BY PowersOfTen DEF NineDigits, Control, Types, Powers
<1>3. CASE req.source = "poll"
  <2>1. next = Last + 1 /\ next + left = req.first + req.qty /\ left >= 0
    BY <1>3 DEF Control, Established, BlockInHand, Counted
  <2>2. QED
    BY <1>1, <1>2, <2>1, SMT
<1>4. CASE req.source # "poll"
  <2>1. plan.first = req.first /\ plan.count = req.qty
    BY <1>4 DEF Control, Established, BlockInHand
  <2>2. QED
    BY <1>1, <1>2, <2>1, SMT
<1>5. QED
  BY <1>3, <1>4

\* The width at which the identifiers of a block are compared: what the prefix
\* and the separator take, and the digits.
Longness(c, id) == TextWidth(c, id, 100)

Lead(c, prefix) == prefix.letters * Advance(611, 100) + c.sepLen * Advance(333, 100)

DigitWidth == Advance(556, 100)

Block(c, prefix, first, n) == [i \in 1..n |-> format_identifier(c, prefix, first + i - 1)]

LEMMA WidthAtHundred ==
  ASSUME NEW c \in SettingsType, NEW prefix \in Prefix, NEW n \in Int, n < 10^9
  PROVE  /\ Len(format_identifier(c, prefix, n).digits) = DigitCount(c, n)
         /\ DigitCount(c, n) \in Nat \ {0}
         /\ Longness(c, format_identifier(c, prefix, n))
              = Lead(c, prefix) + DigitCount(c, n) * DigitWidth
<1>1. c.pad \in Int
  BY DEF SettingsType
<1>2. Len(Digits(c, n)) = DigitCount(c, n) /\ DigitCount(c, n) \in Nat \ {0}
  BY <1>1, DigitCountIs
<1>3. /\ format_identifier(c, prefix, n).prefix = prefix
      /\ format_identifier(c, prefix, n).digits = Digits(c, n)
  BY DEF format_identifier
<1> DEFINE id == format_identifier(c, prefix, n)
<1> HIDE DEF id
<1>4. id.prefix = prefix /\ Len(id.digits) = DigitCount(c, n)
  BY <1>2, <1>3 DEF id
<1>5. Longness(c, id) = Lead(c, prefix) + DigitCount(c, n) * DigitWidth
  BY <1>4 DEF Longness, TextWidth, Lead, DigitWidth
<1>6. QED
  BY <1>2, <1>4, <1>5, Zenon DEF id

LEMMA MoreDigits ==
  ASSUME NEW c, c.pad \in Int, NEW m \in Int, NEW n \in Int, m <= n, n < 10^9
  PROVE  DigitCount(c, m) <= DigitCount(c, n)
<1>0. 10^9 = 1000000000
  BY SMT
<1>1. m < 10^9
  BY <1>0, SMT
<1>2. IsWidth(m, Width(m)) /\ IsWidth(n, Width(n))
  BY <1>1, WidthIs
<1>3. Width(m) \in 1..9 /\ Width(n) \in 1..9 /\ Width(m) <= Width(n)
  BY <1>2, NotWider
<1>4. /\ DigitCount(c, m) \in {c.pad, Width(m)}
      /\ DigitCount(c, n) >= c.pad /\ DigitCount(c, n) >= Width(n) /\ DigitCount(c, n) \in Nat
  BY <1>1, DigitCountIs
<1>5. QED
  BY <1>3, <1>4, SMT

\* The widest of a block has as many digits as its last.
LEMMA WidestIsLong ==
  ASSUME NEW c \in SettingsType, NEW prefix \in Prefix, NEW first \in Int, NEW n \in Nat \ {0},
         first + n - 1 < 10^9
  PROVE  \E j \in 1..n :
           /\ Widest(c, Block(c, prefix, first, n)) = Block(c, prefix, first, n)[j]
           /\ Len(Block(c, prefix, first, n)[j].digits) = Len(Block(c, prefix, first, n)[n].digits)
<1> DEFINE block == Block(c, prefix, first, n)
           number(i) == first + i - 1
           base == Lead(c, prefix)
           width(i) == TextWidth(c, block[i], 100)
           count(i) == DigitCount(c, number(i))
           widths == {width(i) : i \in 1..n}
           most == Max(widths)
           broad == {i \in 1..n : width(i) = most}
<1>1. /\ c.pad \in Int /\ c.sepLen \in Int /\ prefix.letters \in Int
      /\ Advance(611, 100) \in Int /\ Advance(333, 100) \in Int /\ DigitWidth = 56
  BY DEF SettingsType, Prefix, Advance, DigitWidth
<1>2. base \in Int
  BY <1>1 DEF Lead
<1>3. ASSUME NEW i \in 1..n
      PROVE  number(i) \in Int /\ number(i) <= number(n) /\ number(i) < 10^9 /\ number(n) \in Int
  BY PowersOfTen, SMT DEF Powers
<1>4. n \in 1..n
  OBVIOUS
<1>5. ASSUME NEW i \in 1..n
      PROVE  /\ Len(block[i].digits) = count(i) /\ count(i) \in Nat
             /\ width(i) = base + count(i) * 56
             /\ count(i) <= count(n)
  <2>1. block[i] = format_identifier(c, prefix, number(i))
    BY DEF Block
  <2>2. /\ number(i) \in Int /\ number(i) < 10^9 /\ number(n) \in Int /\ number(n) < 10^9
        /\ number(i) <= number(n)
    BY <1>3, <1>4
  <2> HIDE DEF number, base, block
  <2> DEFINE id == format_identifier(c, prefix, number(i))
  <2>3. /\ Len(id.digits) = count(i) /\ count(i) \in Nat \ {0}
        /\ Longness(c, id) = Lead(c, prefix) + count(i) * DigitWidth
    BY <2>2, WidthAtHundred, Zenon
  <2>3a. width(i) = base + count(i) * 56
    BY <1>1, <2>1, <2>3, Zenon DEF Longness, base
  <2>4. count(i) <= count(n)
    BY <1>1, <2>2, MoreDigits, Zenon
  <2>5. QED
    BY <2>1, <2>3, <2>3a, <2>4
<1>6. DOMAIN block = 1..n
  BY DEF Block
<1>7. Widest(c, block) = block[Min(broad)]
  BY <1>6, Zenon DEF Widest
<1> HIDE DEF number, base, width, count, block
<1>8. \A i \in 1..n : width(i) \in Int /\ width(i) <= width(n)
  BY <1>2, <1>4, <1>5
<1>9. most = width(n)
  <2>1. width(n) \in widths /\ \A y \in widths : y \in Int /\ width(n) >= y
    BY <1>4, <1>8
  <2> HIDE DEF widths
  <2>2. most \in widths /\ \A y \in widths : most >= y
    BY <2>1 DEF Max
  <2>3. QED
    BY <2>1, <2>2
<1> HIDE DEF most
<1>10. broad # {} /\ broad \in SUBSET Nat
  BY <1>4, <1>9
<1> DEFINE j == Min(broad)
<1>11. j \in broad
  <2> HIDE DEF broad
  <2>1. QED
    BY <1>10, MinOfSome, Zenon
<1>12. j \in 1..n /\ width(j) = width(n)
  BY <1>9, <1>11
<1> HIDE DEF j
<1>13. count(j) = count(n)
  BY <1>2, <1>4, <1>5, <1>12
<1>14. QED
  BY <1>4, <1>5, <1>7, <1>12, <1>13 DEF j, block

\* Of a block in hand it is as wide as the last.
LEMMA WidestLikeLast ==
  ASSUME NineDigits, Control, Counted, pc \in InHand
  PROVE  /\ Widest(cfg, ids).prefix = Last_id.prefix
         /\ Len(Widest(cfg, ids).digits) = Len(Last_id.digits)
         /\ \A s : TextWidth(cfg, Widest(cfg, ids), s) = TextWidth(cfg, Last_id, s)
<1>1. cfg \in SettingsType /\ req.prefix \in Prefix
  BY Records DEF Control
<1> DEFINE n == plan.count
<1>2. /\ n \in Nat \ {0} /\ plan.first \in Int
      /\ ids = [i \in 1..n |-> format_identifier(cfg, req.prefix, plan.first + i - 1)]
      /\ ids[n] = Last_id
  BY BlockNumbers
<1>3. plan.first + n - 1 < 10^9
  BY LastHasNineDigits DEF Last
<1> HIDE DEF n
<1>4. ids = Block(cfg, req.prefix, plan.first, n)
  BY <1>2 DEF Block
<1>5. PICK j \in 1..n : Widest(cfg, ids) = ids[j] /\ Len(ids[j].digits) = Len(ids[n].digits)
  <2>1. n \in Nat \ {0} /\ plan.first \in Int
    BY <1>2, Zenon
  <2>2. \E j \in 1..n :
          /\ Widest(cfg, Block(cfg, req.prefix, plan.first, n))
               = Block(cfg, req.prefix, plan.first, n)[j]
          /\ Len(Block(cfg, req.prefix, plan.first, n)[j].digits)
               = Len(Block(cfg, req.prefix, plan.first, n)[n].digits)
    BY <1>1, <1>3, <2>1, WidestIsLong, Zenon
  <2>3. QED
    BY <1>4, <2>2, Zenon
<1>6. n \in 1..n /\ \A i \in 1..n : ids[i].prefix = req.prefix
  BY <1>2 DEF format_identifier
<1> DEFINE widest == Widest(cfg, ids)
<1>7. widest.prefix = Last_id.prefix /\ Len(widest.digits) = Len(Last_id.digits)
  BY <1>2, <1>5, <1>6, Zenon
<1> HIDE DEF widest
<1>8. \A s : TextWidth(cfg, widest, s) = TextWidth(cfg, Last_id, s)
  BY <1>7, SMT DEF TextWidth
<1>9. QED
  BY <1>7, <1>8, Zenon DEF widest

\* What validate measured before the numbers were taken is the size they are
\* drawn at, and render does not refuse them, but for the height of the digits;
\* for numbers of up to nine digits (allocator.validate and
\* layout.block_font_px).
THEOREM DrawnAsMeasured ==
  ASSUME NineDigits
  PROVE  Spec => []SizeAsValidated
<1>1. Control /\ Counted => SizeAsValidated
  <2> SUFFICES ASSUME Control, Counted, Taken, SameHeight
               PROVE  block_font_px(cfg, ids) = checked
    BY DEF SizeAsValidated, Control, Established
  <2>1. pc \in InHand /\ req.source = "poll"
    BY DEF Taken, InHand
  <2>2. checked = fit_font_px(cfg, Last_id)
    BY <2>1 DEF Control, Established, BlockInHand
  <2> DEFINE widest == Widest(cfg, ids)
  <2>3. HasBowls(widest) = HasBowls(Last_id)
    BY DEF SameHeight, Last_id
  <2>4. \A s : TextWidth(cfg, widest, s) = TextWidth(cfg, Last_id, s)
    BY <2>1, WidestLikeLast
  <2> HIDE DEF widest
  <2>5. \A s : TextHeight(widest, s) = TextHeight(Last_id, s)
    <3>1. CASE HasBowls(widest)
      BY <2>3, <3>1 DEF TextHeight
    <3>2. CASE ~HasBowls(widest)
      BY <2>3, <3>2 DEF TextHeight
    <3>3. QED
      BY <3>1, <3>2
  <2>6. fit_font_px(cfg, widest) = fit_font_px(cfg, Last_id)
    BY <2>4, <2>5, AlikeFitAlike, Zenon
  <2>7. QED
    BY <2>2, <2>6, Zenon DEF block_font_px, widest
<1>2. QED
  BY <1>1, CountedAlways, PTL

-----------------------------------------------------------------------------
(* The printer is given each identifier for one cable only.                *)

LEMMA Division ==
  ASSUME NEW k \in Nat \ {0}, NEW p \in Nat
  PROVE  /\ p \div k \in Nat /\ p % k \in 0..(k - 1)
         /\ p = (p \div k) * k + (p % k)
OBVIOUS

\* The quotient grows at the multiples of k.
LEMMA SameQuotient ==
  ASSUME NEW k \in Nat \ {0}, NEW p \in Nat \ {0}
  PROVE  (p - 1) \div k = p \div k <=> p % k # 0
<1> DEFINE q == p \div k
           r == p % k
<1>1. q \in Nat /\ r \in 0..(k - 1) /\ p = q * k + r
  BY Division
<1> HIDE DEF q, r
<1>2. q * k \in Nat /\ (q + 1) * k = q * k + k
  BY <1>1
<1>3. CASE r # 0
  <2>1. p - 1 \in Nat /\ q * k <= p - 1 /\ p - 1 < (q + 1) * k
    BY <1>1, <1>2, <1>3
  <2>2. (p - 1) \div k = q
    BY <1>1, <2>1, Quotient
  <2>3. QED
    BY <1>3, <2>2 DEF q, r
<1>4. CASE r = 0
  <2>1. q # 0
    BY <1>1, <1>4
  <2>2. q - 1 \in Nat /\ (q - 1) * k = q * k - k /\ (q - 1) + 1 = q
    BY <1>1, <2>1
  <2>3. p - 1 \in Nat /\ (q - 1) * k <= p - 1 /\ p - 1 < ((q - 1) + 1) * k
    BY <1>1, <1>2, <1>4, <2>2
  <2>4. (p - 1) \div k = q - 1
    BY <2>2, <2>3, Quotient
  <2>5. (p - 1) \div k # q
    BY <1>1, <2>4
  <2>6. QED
    BY <1>4, <2>5 DEF q, r
<1>5. QED
  BY <1>3, <1>4

\* Label i shows one of m identifiers.
LEMMA LabelOfCable ==
  ASSUME NEW k \in Nat \ {0}, NEW m \in Nat, NEW i \in 1..(m * k)
  PROVE  (i - 1) \div k + 1 \in 1..m /\ (i - 1) \div k \in Nat
<1> DEFINE q == (i - 1) \div k
<1>1. i - 1 \in Nat /\ m * k \in Nat /\ i - 1 < m * k
  OBVIOUS
<1>2. q \in Nat /\ q * k \in Nat /\ q * k <= i - 1
  <2>1. (i - 1) % k \in 0..(k - 1) /\ i - 1 = q * k + ((i - 1) % k) /\ q \in Nat
    BY <1>1, Division
  <2> HIDE DEF q
  <2>2. q * k \in Nat
    BY <2>1
  <2>3. QED
    BY <1>1, <2>1, <2>2
<1> HIDE DEF q
<1>3. m <= q => m * k <= q * k
  BY <1>2, Multiples
<1>4. q < m
  BY <1>1, <1>2, <1>3
<1>5. QED
  BY <1>2, <1>4 DEF q

\* The first label of cable a.
LEMMA FirstLabel ==
  ASSUME NEW k \in Nat \ {0}, NEW m \in Nat, NEW a \in 1..m
  PROVE  /\ (a - 1) * k + 1 \in 1..(m * k)
         /\ ((a - 1) * k + 1 - 1) \div k + 1 = a
<1>1. /\ a \in Nat \ {0} /\ (a - 1) * k \in Nat /\ a * k \in Nat /\ m * k \in Nat
      /\ a * k = (a - 1) * k + k
  OBVIOUS
<1>2. a * k <= m * k
  BY <1>1, Multiples
<1> DEFINE p == (a - 1) * k + 1
<1>3. p \in ((a - 1) * k + 1)..(a * k) /\ p \in 1..(m * k)
  BY <1>1, <1>2
<1> HIDE DEF p
<1>4. (p - 1) \div k = a - 1
  BY <1>1, <1>3, SameCable
<1>5. QED
  BY <1>1, <1>3, <1>4 DEF p

\* The labels are k for each of m numbers, which grow.
Given(c, prefix, k, m, num, labels) ==
  /\ num \in [1..m -> Nat]
  /\ \A a \in 1..m : num[a] < 10^9
  /\ \A a \in 1..m, b \in 1..m : a < b => num[a] < num[b]
  /\ Len(labels) = m * k
  /\ \A i \in 1..(m * k) : labels[i] = format_identifier(c, prefix, num[(i - 1) \div k + 1])

\* Each identifier has k labels, one after the other.
OneCable(labels, k) ==
  /\ \A i \in 2..Len(labels) : labels[i] = labels[i - 1] <=> (i - 1) % k # 0
  /\ Cardinality({labels[i] : i \in DOMAIN labels}) * k = Len(labels)

LEMMA CablesOnce ==
  ASSUME NEW c, c.pad \in Int, NEW prefix, NEW k \in Nat \ {0}, NEW m \in Nat, NEW num,
         NEW S, NEW labels \in Seq(S), Given(c, prefix, k, m, num, labels)
  PROVE  OneCable(labels, k)
<1> DEFINE id(n) == format_identifier(c, prefix, n)
           cable(i) == (i - 1) \div k + 1
<1>1. /\ num \in [1..m -> Nat] /\ \A a \in 1..m : num[a] < 10^9
      /\ \A a \in 1..m, b \in 1..m : a < b => num[a] < num[b]
      /\ Len(labels) = m * k /\ DOMAIN labels = 1..(m * k) /\ m * k \in Nat
  BY DEF Given
<1>2. ASSUME NEW i \in 1..(m * k) PROVE cable(i) \in 1..m /\ labels[i] = id(num[cable(i)])
  BY LabelOfCable DEF Given
<1>3. ASSUME NEW a \in 1..m, NEW b \in 1..m, id(num[a]) = id(num[b]) PROVE a = b
  <2>1. Digits(c, num[a]) = Digits(c, num[b])
    BY <1>3 DEF format_identifier
  <2>2. num[a] \in Nat /\ num[b] \in Nat /\ num[a] < 10^9 /\ num[b] < 10^9
    BY <1>1
  <2>3. num[a] = num[b]
    BY <2>1, <2>2, DigitsDiffer, Zenon
  <2>4. ~(a < b) /\ ~(b < a)
    BY <1>1, <2>2, <2>3
  <2>5. QED
    BY <2>4
<1> HIDE DEF id
<1>4. ASSUME NEW i \in 2..Len(labels)
      PROVE  labels[i] = labels[i - 1] <=> (i - 1) % k # 0
  <2>1. /\ i \in 1..(m * k) /\ i - 1 \in 1..(m * k) /\ i - 1 \in Nat \ {0}
    BY <1>1
  <2>2. /\ cable(i) \in 1..m /\ labels[i] = id(num[cable(i)])
        /\ cable(i - 1) \in 1..m /\ labels[i - 1] = id(num[cable(i - 1)])
    BY <1>2, <2>1
  <2>3. labels[i] = labels[i - 1] <=> cable(i) = cable(i - 1)
    <3> HIDE DEF cable
    <3>1. QED
      BY <1>3, <2>2
  <2>4. cable(i) = cable(i - 1) <=> ((i - 1) - 1) \div k = (i - 1) \div k
    BY <2>1
  <2>5. ((i - 1) - 1) \div k = (i - 1) \div k <=> (i - 1) % k # 0
    BY <2>1, SameQuotient
  <2>6. QED
    BY <2>3, <2>4, <2>5
<1>5. Cardinality({labels[i] : i \in DOMAIN labels}) = m
  <2> DEFINE T == {labels[i] : i \in 1..(m * k)}
             f == [a \in 1..m |-> id(num[a])]
  <2>1. f \in [1..m -> T]
    <3>1. ASSUME NEW a \in 1..m PROVE id(num[a]) \in T
      <4> DEFINE i == (a - 1) * k + 1
      <4>1. i \in 1..(m * k) /\ cable(i) = a
        BY FirstLabel
      <4> HIDE DEF i, cable
      <4>2. QED
        BY <1>2, <4>1
    <3>2. QED
      BY <3>1
  <2>2. \A a \in 1..m, b \in 1..m : f[a] = f[b] => a = b
    BY <1>3
  <2>3. \A t \in T : \E a \in 1..m : f[a] = t
    <3> HIDE DEF cable
    <3>1. ASSUME NEW t \in T PROVE \E a \in 1..m : f[a] = t
      BY <1>2
    <3>2. QED
      BY <3>1
  <2> HIDE DEF f
  <2> HIDE DEF T
  <2>4. ExistsBijection(1..m, T)
    <3>1. DOMAIN f = 1..m
      BY <2>1
    <3>2. f \in Injection(1..m, T)
      BY <2>1, <2>2, <3>1, Zenon DEF Injection, IsInjective
    <3>3. f \in Surjection(1..m, T)
      BY <2>1, <2>3, Zenon DEF Surjection
    <3>4. QED
      BY <3>2, <3>3, Zenon DEF ExistsBijection, Bijection
  <2>5. IsFiniteSet(1..m) /\ Cardinality(1..m) = m
    <3>1. m \in Int /\ 1 \in Int /\ (IF 1 > m THEN 0 ELSE m - 1 + 1) = m
      OBVIOUS
    <3>2. QED
      BY <3>1, FS_Interval, Zenon
  <2>6. Cardinality(T) = m
    BY <2>4, <2>5, FS_Bijection, Zenon
  <2>7. QED
    BY <1>1, <2>6, Zenon DEF T
<1>6. QED
  BY <1>1, <1>4, <1>5 DEF OneCable

\* A block from first on, whose numbers are past all before.
LEMMA MoreCables ==
  ASSUME NEW c, NEW prefix, NEW k \in Nat \ {0}, NEW m \in Nat, NEW num,
         NEW S, NEW labels \in Seq(S), Given(c, prefix, k, m, num, labels),
         NEW first \in Nat, \A a \in 1..m : num[a] < first,
         NEW n \in Nat \ {0}, first + n - 1 < 10^9,
         NEW more \in Seq(S), Len(more) = n * k,
         \A i \in 1..(n * k) : more[i] = format_identifier(c, prefix, first + (i - 1) \div k)
  PROVE  \E num2 :
           /\ Given(c, prefix, k, m + n, num2, labels \o more)
           /\ \A a \in 1..(m + n) : num2[a] < first + n
<1> DEFINE num2 == [a \in 1..(m + n) |-> IF a <= m THEN num[a] ELSE first + (a - m) - 1]
           id(x) == format_identifier(c, prefix, x)
           all == labels \o more
<1>1. /\ num \in [1..m -> Nat] /\ \A a \in 1..m : num[a] < 10^9
      /\ \A a \in 1..m, b \in 1..m : a < b => num[a] < num[b]
      /\ Len(labels) = m * k
      /\ \A i \in 1..(m * k) : labels[i] = id(num[(i - 1) \div k + 1])
  BY DEF Given
<1>2. m * k \in Nat /\ n * k \in Nat /\ (m + n) * k = m * k + n * k
  OBVIOUS
<1>3. ASSUME NEW a \in 1..(m + n)
      PROVE  /\ num2[a] \in Nat /\ num2[a] < first + n
             /\ a <= m => a \in 1..m /\ num2[a] = num[a]
             /\ a > m => num2[a] = first + (a - m) - 1
  BY <1>1
<1>4. num2 \in [1..(m + n) -> Nat] /\ \A a \in 1..(m + n) : num2[a] < 10^9
  <2>1. DOMAIN num2 = 1..(m + n) /\ num2 = [a \in 1..(m + n) |-> num2[a]]
    OBVIOUS
  <2> HIDE DEF num2
  <2>2. num2 \in [1..(m + n) -> Nat]
    BY <1>3, <2>1
  <2>3. ASSUME NEW a \in 1..(m + n) PROVE num2[a] < 10^9
    <3>1. num2[a] \in Nat /\ num2[a] < first + n
      BY <1>3
    <3>2. 10^9 \in Int
      BY PowersOfTen, SMT DEF Powers
    <3>3. QED
      BY <3>1, <3>2
  <2>4. QED
    BY <2>2, <2>3
<1>5. ASSUME NEW a \in 1..(m + n), NEW b \in 1..(m + n), a < b PROVE num2[a] < num2[b]
  <2> HIDE DEF num2
  <2>1. CASE b <= m
    <3>1. a <= m /\ a \in Int /\ b \in Int
      BY <1>5, <2>1
    <3>2. a \in 1..m /\ b \in 1..m /\ num2[a] = num[a] /\ num2[b] = num[b]
      BY <1>3, <2>1, <3>1, Zenon
    <3>3. QED
      BY <1>1, <1>5, <3>2, Zenon
  <2>2. CASE a <= m /\ b > m
    <3>1. num2[a] < first /\ num2[a] \in Nat
      BY <1>3, <2>2
    <3>2. num2[b] = first + (b - m) - 1
      BY <1>3, <2>2
    <3>3. QED
      BY <2>2, <3>1, <3>2
  <2>3. CASE a > m
    <3>1. num2[a] = first + (a - m) - 1 /\ num2[b] = first + (b - m) - 1
      BY <1>3, <1>5, <2>3
    <3>2. QED
      BY <1>5, <3>1
  <2>4. QED
    BY <2>1, <2>2, <2>3
<1>6. /\ Len(all) = (m + n) * k /\ \A i \in 1..(m * k) : all[i] = labels[i]
      /\ \A i \in 1..(n * k) : all[m * k + i] = more[i]
  <2>1. /\ Len(all) = Len(labels) + Len(more)
        /\ \A i \in 1..Len(labels) : all[i] = labels[i]
        /\ \A i \in 1..Len(more) : all[Len(labels) + i] = more[i]
    <3>1. Len(all) = Len(labels) + Len(more)
      BY ConcatProperties, Zenon
    <3>2. ASSUME NEW i \in 1..Len(labels) PROVE all[i] = labels[i]
      OBVIOUS
    <3>3. ASSUME NEW i \in 1..Len(more) PROVE all[Len(labels) + i] = more[i]
      OBVIOUS
    <3>4. QED
      BY <3>1, <3>2, <3>3
  <2> HIDE DEF all
  <2>2. QED
    BY <1>1, <1>2, <2>1
<1> HIDE DEF num2, all, id
<1>7. ASSUME NEW i \in 1..((m + n) * k)
      PROVE  all[i] = id(num2[(i - 1) \div k + 1])
  <2>1. CASE i <= m * k
    <3>1. i \in 1..(m * k)
      BY <1>2, <2>1
    <3>2. (i - 1) \div k + 1 \in 1..m /\ (i - 1) \div k + 1 \in 1..(m + n)
          /\ (i - 1) \div k + 1 <= m
      <4>1. (i - 1) \div k + 1 \in 1..m
        BY <3>1, LabelOfCable
      <4> DEFINE q == (i - 1) \div k + 1
      <4> HIDE DEF q
      <4>2. q \in 1..m => q \in 1..(m + n) /\ q <= m
        OBVIOUS
      <4>3. QED
        BY <4>1, <4>2 DEF q
    <3>3. num2[(i - 1) \div k + 1] = num[(i - 1) \div k + 1]
      BY <1>3, <3>2, Zenon
    <3>4. QED
      BY <1>1, <1>6, <3>1, <3>3, Zenon
  <2>2. CASE i > m * k
    <3> DEFINE j == i - m * k
               q == (j - 1) \div k
    <3>1. j \in 1..(n * k) /\ i = m * k + j
      BY <1>2, <2>2
    <3> HIDE DEF j
    <3>2. q + 1 \in 1..n /\ q \in Nat
      BY <3>1, LabelOfCable
    <3>3. (i - 1) \div k = m + q
      <4>0. j - 1 \in Nat
        BY <1>2, <3>1
      <4>1. (j - 1) % k \in 0..(k - 1) /\ j - 1 = q * k + ((j - 1) % k)
        BY <4>0, Division
      <4> HIDE DEF q
      <4>2. /\ q * k \in Nat /\ (m + q) * k = m * k + q * k
            /\ ((m + q) + 1) * k = m * k + q * k + k
        BY <3>2
      <4>3. m + q \in Nat /\ i - 1 \in Nat /\ (m + q) * k <= i - 1 /\ i - 1 < ((m + q) + 1) * k
        BY <1>2, <3>1, <3>2, <4>0, <4>1, <4>2
      <4>4. QED
        BY <4>3, Quotient
    <3> HIDE DEF q
    <3>4. /\ m + q + 1 \in 1..(m + n) /\ m + q + 1 > m
          /\ first + ((m + q + 1) - m) - 1 = first + q
      BY <3>2
    <3>5. num2[m + q + 1] = first + q
      BY <1>3, <3>4
    <3>6. all[i] = id(first + q)
      BY <1>6, <3>1, Zenon DEF q, id
    <3>7. QED
      BY <3>3, <3>5, <3>6
  <2>3. QED
    BY <1>2, <2>1, <2>2
<1>8. \A a \in 1..(m + n), b \in 1..(m + n) : a < b => num2[a] < num2[b]
  BY <1>5
<1>9. Given(c, prefix, k, m + n, num2, all)
  BY <1>4, <1>6, <1>7, <1>8, Zenon DEF Given, id
<1>10. \A a \in 1..(m + n) : num2[a] < first + n
  BY <1>3, Zenon
<1>11. QED
  BY <1>9, <1>10, Zenon DEF all

\* What is ahead of the numbers printed so far.
Ahead == IF pc \in InHand THEN plan.first ELSE next

\* The labels printed so far show numbers that grow, each on as many labels as
\* the settings have it; a request from an asset goes on past them.
PrintedInOrder ==
  printed # <<>> =>
    /\ plan.perCable \in Nat \ {0}
    /\ req.source = "poll" => plan.perCable = cfg.perCable
    /\ \E m \in Nat : \E num :
         /\ Given(cfg, req.prefix, plan.perCable, m, num, printed)
         /\ req.source = "poll" => \A a \in 1..m : num[a] < Ahead

\* Nothing is printed, and no number ahead is given up.
LEMMA QuietStep ==
  ASSUME Control, PrintedInOrder, UNCHANGED <<cfg, req, printed>>,
         printed # <<>> => plan'.perCable = plan.perCable,
         req.source = "poll" => Ahead \in Int /\ Ahead' \in Int /\ Ahead <= Ahead'
  PROVE  PrintedInOrder'
<1> SUFFICES ASSUME printed # <<>>
             PROVE  PrintedInOrder'
  BY DEF PrintedInOrder
<1>0. PICK m \in Nat : \E num :
        /\ Given(cfg, req.prefix, plan.perCable, m, num, printed)
        /\ req.source = "poll" => \A a \in 1..m : num[a] < Ahead
  BY DEF PrintedInOrder
<1>1. PICK num :
        /\ Given(cfg, req.prefix, plan.perCable, m, num, printed)
        /\ req.source = "poll" => \A a \in 1..m : num[a] < Ahead
  BY <1>0
<1>2. Given(cfg', req.prefix', plan'.perCable, m, num, printed')
  BY <1>1
<1>3. req'.source = "poll" => \A a \in 1..m : num[a] < Ahead'
  <2> SUFFICES ASSUME req.source = "poll", NEW a \in 1..m
               PROVE  num[a] < Ahead'
    OBVIOUS
  <2>1. num[a] \in Nat /\ num[a] < Ahead /\ Ahead \in Int /\ Ahead' \in Int /\ Ahead <= Ahead'
    BY <1>1 DEF Given
  <2> HIDE DEF Ahead
  <2>2. QED
    BY <2>1
<1>4. /\ plan'.perCable \in Nat \ {0}
      /\ req'.source = "poll" => plan'.perCable = cfg'.perCable
  BY DEF PrintedInOrder
<1>5. QED
  BY <1>2, <1>3, <1>4, Zenon DEF PrintedInOrder

LEMMA OtherStepsKeepOrder ==
  ASSUME Control, PrintedInOrder, [Next]_vars, ~PrintPages
  PROVE  PrintedInOrder'
<1> USE DEF Control, Types
<1>1. next \in Int /\ plan.first \in Int
  OBVIOUS
<1>2. CASE LoadConfig \/ PlanRange \/ Refuse
  <2>1. printed' = <<>>
    BY <1>2 DEF LoadConfig, PlanRange, Refuse, Established
  <2>2. QED
    BY <2>1 DEF PrintedInOrder
<1>3. CASE Validate
  <2>1. /\ UNCHANGED <<cfg, req, printed, next>> /\ req.source = "poll"
        /\ plan'.perCable = cfg.perCable
        /\ Ahead = next /\ Ahead' = next
    BY <1>3 DEF Validate, Established, Ahead, InHand
  <2>2. printed # <<>> => plan'.perCable = plan.perCable
    BY <2>1 DEF PrintedInOrder
  <2>3. QED
    BY <1>1, <2>1, <2>2, QuietStep
<1>4. CASE NotValid
  <2>1. /\ UNCHANGED <<cfg, req, printed, plan>> /\ Ahead = next /\ Ahead' = next
    BY <1>4 DEF NotValid, Ahead, InHand
  <2>2. QED
    BY <1>1, <2>1, QuietStep
<1>5. CASE Reserve
  <2>1. /\ UNCHANGED <<cfg, req, printed, plan>> /\ Ahead = next /\ Ahead' = plan.first
        /\ plan.first = next
    BY <1>5 DEF Reserve, Established, Ahead, InHand
  <2>2. QED
    BY <1>1, <2>1, QuietStep
<1>6. CASE Render \/ Enqueue
  <2>1. /\ UNCHANGED <<cfg, req, printed, plan>> /\ Ahead = plan.first /\ Ahead' = plan.first
    BY <1>6 DEF Render, Enqueue, Ahead, InHand
  <2>2. QED
    BY <1>1, <2>1, QuietStep
<1>7. CASE RenderRaises \/ SidecarRefused \/ AgentRejects \/ PrintRaises
  <2>1. /\ UNCHANGED <<cfg, req, printed, plan, next>> /\ pc \in InHand
        /\ Ahead = plan.first /\ Ahead' = next
    BY <1>7 DEF RenderRaises, SidecarRefused, AgentRejects, PrintRaises, Ended, Ahead, InHand
  <2>2. req.source = "poll" => next = Last + 1 /\ plan.first <= Last /\ Last \in Int
    BY <2>1, BlockNumbers DEF Established, BlockInHand
  <2>3. req.source = "poll" => Ahead \in Int /\ Ahead' \in Int /\ Ahead <= Ahead'
    BY <1>1, <2>1, <2>2
  <2>4. QED
    BY <2>1, <2>3, QuietStep
<1>8. CASE UNCHANGED vars
  <2>1. UNCHANGED <<cfg, req, printed, plan>> /\ Ahead' = Ahead /\ Ahead \in Int
    BY <1>1, <1>8 DEF vars, Ahead
  <2>2. QED
    BY <2>1, QuietStep
<1>9. QED
  BY <1>2, <1>3, <1>4, <1>5, <1>6, <1>7, <1>8 DEF Next

LEMMA PrintKeepsOrder ==
  ASSUME NineDigits, Control, Counted, PrintedInOrder, PrintPages
  PROVE  PrintedInOrder'
<1> DEFINE k == plan.perCable
           n == plan.count
           more == [i \in 1..label_count |-> strip.ink[i].text]
<1>1. /\ pc = "agent" /\ printed' = printed \o more /\ pc' \in {"validate", "end"}
      /\ UNCHANGED <<cfg, req, plan, next>>
  BY DEF PrintPages, Ended
<1>2. /\ pc \in InHand /\ n \in Nat \ {0} /\ plan.first \in Int /\ Last = plan.first + n - 1
      /\ Last \in Int /\ Last < 10^9 /\ plan.first >= 0 /\ BlockInHand /\ printed \in Seq(Texts)
      /\ next \in Int
  <2>1. pc \in InHand
    BY <1>1 DEF InHand
  <2>2. QED
    BY <1>1, <2>1, BlockNumbers, LastHasNineDigits DEF Last, Control, Established, Types
<1>3. /\ k \in Nat \ {0} /\ label_count = n * k /\ label_count \in Nat
      /\ \A i \in 1..(n * k) :
           /\ (i - 1) \div k \in 0..(n - 1)
           /\ strip.ink[i].text = format_identifier(cfg, req.prefix, plan.first + (i - 1) \div k)
  BY <1>1, LabelTexts DEF label_count
<1>4. /\ more \in Seq(Texts) /\ Len(more) = n * k
      /\ \A i \in 1..(n * k) :
           more[i] = format_identifier(cfg, req.prefix, plan.first + (i - 1) \div k)
  <2>1. ASSUME NEW i \in 1..label_count PROVE strip.ink[i].text \in Texts
    <3>1. (i - 1) \div k \in Int /\ plan.first + (i - 1) \div k \in Int
      BY <1>2, <1>3
    <3>2. cfg \in Settings /\ req \in Requests
      BY DEF Control, Types
    <3>3. QED
      BY <1>3, <3>1, <3>2 DEF Texts
  <2>2. more \in Seq(Texts) /\ Len(more) = label_count
    <3>1. label_count \in Nat
      BY <1>3
    <3>2. more \in Seq(Texts)
      BY <2>1, <3>1
    <3>3. Len(more) = label_count
      BY <3>1
    <3>4. QED
      BY <3>2, <3>3
  <2>3. \A i \in 1..label_count : more[i] = strip.ink[i].text
    OBVIOUS
  <2> HIDE DEF more
  <2>4. QED
    BY <1>3, <2>2, <2>3, Zenon
<1>5. \E m \in Nat : \E num :
        /\ Given(cfg, req.prefix, k, m, num, printed)
        /\ \A a \in 1..m : num[a] < plan.first
  <2>1. CASE printed = <<>>
    <3> DEFINE none == [a \in 1..0 |-> 0]
    <3>1. 1..0 = {} /\ none \in [1..0 -> Nat] /\ 0 * k = 0 /\ Len(printed) = 0 /\ 0 \in Nat
      BY <1>3, <2>1
    <3>2. Given(cfg, req.prefix, k, 0, none, printed)
      BY <3>1 DEF Given
    <3>3. QED
      BY <3>1, <3>2
  <2>2. CASE printed # <<>>
    <3>1. req.source = "poll"
      BY <1>2, <2>2 DEF BlockInHand
    <3>2. QED
      BY <1>2, <2>2, <3>1 DEF PrintedInOrder, Ahead
  <2>3. QED
    BY <2>1, <2>2
<1> HIDE DEF more, n, k
<1>6. PICK m \in Nat : \E num :
        /\ Given(cfg, req.prefix, k, m, num, printed)
        /\ \A a \in 1..m : num[a] < plan.first
  BY <1>5
<1>7. PICK num :
        /\ Given(cfg, req.prefix, k, m, num, printed)
        /\ \A a \in 1..m : num[a] < plan.first
  BY <1>6
<1>8. \E num2 :
        /\ Given(cfg, req.prefix, k, m + n, num2, printed \o more)
        /\ \A a \in 1..(m + n) : num2[a] < plan.first + n
  <2>1. plan.first \in Nat /\ plan.first + n - 1 < 10^9
    BY <1>2
  <2>2. QED
    BY <1>2, <1>3, <1>4, <1>7, <2>1, MoreCables, Zenon
<1>9. req.source = "poll" => plan.first + n = next /\ plan.perCable = cfg.perCable
  BY <1>2 DEF BlockInHand
<1>10. m + n \in Nat
  BY <1>2
<1>11. Ahead' = next
  BY <1>1 DEF Ahead, InHand
<1>12. k' = k
  BY <1>1 DEF k
<1>13. PICK num2 :
         /\ Given(cfg, req.prefix, k, m + n, num2, printed \o more)
         /\ \A a \in 1..(m + n) : num2[a] < plan.first + n
  BY <1>8
<1>14. Given(cfg', req'.prefix, plan'.perCable, m + n, num2, printed')
  BY <1>1, <1>13 DEF k
<1>15. req'.source = "poll" => \A a \in 1..(m + n) : num2[a] < Ahead'
  BY <1>1, <1>9, <1>11, <1>13
<1>16. /\ plan'.perCable \in Nat \ {0}
       /\ req'.source = "poll" => plan'.perCable = cfg'.perCable
  BY <1>1, <1>3, <1>9 DEF k
<1>17. QED
  BY <1>10, <1>14, <1>15, <1>16, Zenon DEF PrintedInOrder

LEMMA OrderAlways ==
  ASSUME NineDigits
  PROVE  Spec => [](Control /\ PrintedInOrder)
<1>1. Init => PrintedInOrder
  BY DEF Init, PrintedInOrder
<1>2. Control /\ Counted /\ PrintedInOrder /\ [Next]_vars => PrintedInOrder'
  BY OtherStepsKeepOrder, PrintKeepsOrder
<1>3. QED
  BY <1>1, <1>2, CountedAlways, PTL DEF Spec

\* Across all batches of a request, whatever becomes of each, the printer is
\* given each identifier for one cable only, its labels one after the other, as
\* many as the settings or the tool have it; for numbers of up to nine digits
\* (format_identifier, label_sequence, allocator.reserve).
THEOREM OneCableEach ==
  ASSUME NineDigits
  PROVE  Spec => []EveryCableOnce
<1>1. Control /\ PrintedInOrder => EveryCableOnce
  <2> SUFFICES ASSUME Control, PrintedInOrder, Len(printed) > 0
               PROVE  OneCable(printed, plan.perCable)
    BY DEF EveryCableOnce, OneCable
  <2>1. printed \in Seq(Texts) /\ printed # <<>>
    BY DEF Control, Types
  <2>2. plan.perCable \in Nat \ {0}
    BY <2>1 DEF PrintedInOrder
  <2>3. PICK m \in Nat : \E num : Given(cfg, req.prefix, plan.perCable, m, num, printed)
    BY <2>1 DEF PrintedInOrder
  <2>4. PICK num : Given(cfg, req.prefix, plan.perCable, m, num, printed)
    BY <2>3
  <2>5. cfg.pad \in Int
    BY Records DEF Control, SettingsType
  <2>6. QED
    BY <2>1, <2>2, <2>4, <2>5, CablesOnce, Zenon
<1>2. QED
  BY <1>1, OrderAlways, PTL

-----------------------------------------------------------------------------
(* Where a block whose numbers are taken may still fail.                   *)

\* The agent never refuses to cut a strip; it refuses the file name of a block
\* from an asset only where the settings admit other characters.
CutAndNamed ==
  /\ "cut" \notin fates
  /\ req.source = "poll" /\ "stem" \in fates => cfg.loose

LEMMA PagesDivide ==
  ASSUME NEW h \in Nat, NEW n \in Nat \ {0}
  PROVE  Divides(h * n, n) /\ (h * n) \div n = h
<1>1. h * n \in Nat /\ (h + 1) * n = h * n + n
  OBVIOUS
<1> DEFINE p == h * n
<1>2. p \in Nat /\ h * n <= p /\ p < (h + 1) * n
  BY <1>1
<1>3. p % n \in 0..(n - 1) /\ p = (p \div n) * n + (p % n)
  BY <1>1, Division
<1>4. p \div n = h
  <2> HIDE DEF p
  <2>1. QED
    BY <1>2, Quotient
<1>5. p = p + (p % n)
  BY <1>3, <1>4
<1> HIDE DEF p
<1>6. p % n = 0
  BY <1>2, <1>3, <1>5
<1>7. QED
  BY <1>4, <1>6 DEF Divides, p

LEMMA StripIs ==
  ASSUME Control, pc = "agent"
  PROVE  /\ strip.width = Pixels(cfg, cfg.labelW)
         /\ strip.height = PageHeight(cfg) * label_count
         /\ Len(label_sequence(ids, plan.perCable)) = label_count
<1>1. /\ strip = Strip(cfg, label_sequence(ids, plan.perCable), size)
      /\ cfg \in SettingsType
  BY Records DEF Control, Established
<1>2. /\ label_count \in Nat \ {0} /\ plan.perCable \in Nat \ {0} /\ Len(ids) = plan.count
  BY LabelTexts
<1>3. Len(ids) * plan.perCable = label_count
  BY <1>2 DEF label_count
<1>4. Len(label_sequence(ids, plan.perCable)) = label_count
  <2>1. label_sequence(ids, plan.perCable)
          = [i \in 1..label_count |-> ids[(i - 1) \div plan.perCable + 1]]
    BY <1>3, Zenon DEF label_sequence
  <2>2. QED
    BY <1>2, <2>1
<1>5. strip.height = PageHeight(cfg) * label_count
  <2>1. strip.height = StripHeight(cfg, Len(label_sequence(ids, plan.perCable)))
    BY <1>1 DEF Strip
  <2>2. QED
    BY <1>4, <2>1, Zenon DEF StripHeight
<1>6. strip.width = Pixels(cfg, cfg.labelW)
  BY <1>1 DEF Strip
<1>7. QED
  BY <1>4, <1>5, <1>6

LEMMA StripDivides ==
  ASSUME Control, pc = "agent"
  PROVE  Divides(strip.height, label_count)
<1>1. label_count \in Nat \ {0} /\ strip.height = PageHeight(cfg) * label_count
  BY LabelTexts, StripIs
<1>2. PageHeight(cfg) \in Nat
  <2>1. cfg.dpi \in Int /\ cfg.labelH \in Int
    BY Records DEF Control, SettingsType
  <2>2. PageHeight(cfg) \in Nat \ {0}
    BY <2>1, PixelsType, Zenon DEF PageHeight
  <2>3. QED
    BY <2>2
<1> HIDE DEF label_count
<1>3. QED
  BY <1>1, <1>2, PagesDivide, Zenon

LEMMA CutAndNamedInductive ==
  ASSUME Control, CutAndNamed, [Next]_vars
  PROVE  CutAndNamed'
<1>1. CASE fates' = fates /\ UNCHANGED <<cfg, req>>
  BY <1>1 DEF CutAndNamed
<1>2. CASE RenderRaises \/ SidecarRefused \/ PrintPages
  <2>1. /\ UNCHANGED <<cfg, req>>
        /\ fates' \in {fates \cup {"layout"}, fates \cup {"sidecar"}, fates \cup {"sent"}}
    BY <1>2 DEF RenderRaises, SidecarRefused, PrintPages, Ended
  <2>2. QED
    BY <2>1 DEF CutAndNamed
<1>3. CASE AgentRejects
  <2>1. /\ UNCHANGED <<cfg, req>> /\ fates' = fates \cup {"stem"} /\ ~req.prefix.alnum
        /\ pc = "agent"
    BY <1>3 DEF AgentRejects, Ended, StemParses
  <2>2. req.source = "poll" => cfg.loose
    BY <2>1 DEF Control, Established, InHand, BlockInHand, Matches
  <2>3. QED
    BY <2>1, <2>2 DEF CutAndNamed
<1>4. CASE PrintRaises
  <2>1. /\ pc = "agent" /\ UNCHANGED <<cfg, req>>
        /\ fates' = fates \cup {IF Opens THEN "cut" ELSE "pixels"}
    BY <1>4 DEF PrintRaises, Ended
  <2>2. ~Opens
    BY <1>4, <2>1, StripDivides DEF PrintRaises
  <2>3. fates' = fates \cup {"pixels"}
    BY <2>1, <2>2
  <2>4. QED
    BY <2>1, <2>3 DEF CutAndNamed
<1>5. QED
  <2>1. ASSUME LoadConfig \/ Refuse \/ PlanRange \/ Validate \/ NotValid \/ Reserve
                 \/ Render \/ Enqueue \/ UNCHANGED vars
        PROVE  fates' = fates /\ UNCHANGED <<cfg, req>>
    BY <2>1 DEF LoadConfig, Refuse, PlanRange, Validate, NotValid, Reserve, Render, Enqueue, vars
  <2>2. QED
    BY <1>1, <1>2, <1>3, <1>4, <2>1 DEF Next

\* For every setting that load_config accepts and every request, the strip that
\* render draws is one that page_boxes cuts, and the agent reads the file name
\* of every block from an asset unless the pattern admits characters that
\* parse_stem does not: two of the ways in which TakenIsPrinted could fail.
THEOREM CutAndNamedAlways == Spec => []CutAndNamed
<1>1. Init => CutAndNamed
  BY DEF Init, CutAndNamed
<1>2. Control /\ CutAndNamed /\ [Next]_vars => CutAndNamed'
  BY CutAndNamedInductive
<1>3. QED
  BY <1>1, <1>2, ControlAlways, PTL DEF Spec

=============================================================================
