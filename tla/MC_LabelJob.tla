----------------------------- MODULE MC_LabelJob -----------------------------
(* Settings and requests for TLC: the shipped examples, with one thing      *)
(* changed at a time.                                                       *)
EXTENDS LabelJob

Example ==
  [dpi |-> 300, labelW |-> 200, labelH |-> 75, areaW |-> 100, areaH |-> 50, margin |-> 3, gap |-> 8,
   areaX |-> {}, areaY |-> {}, minFont |-> 5, maxFont |-> 12, repeat |-> 2, pad |-> 4, sepLen |-> 1,
   perCable |-> 2, statusMax |-> 255, prefixMax |-> 8, loose |-> FALSE,
   configured |-> TRUE, shadow |-> FALSE]

Odd == [Example EXCEPT !.dpi = 203]

Good ==
  {Example, Odd,
   [Odd EXCEPT !.areaX = {100}, !.areaY = {25}, !.margin = 0],
   [Odd EXCEPT !.repeat = 1, !.perCable = 3],
   [Odd EXCEPT !.repeat = 3, !.areaH = 70, !.gap = 5],
   [Example EXCEPT !.dpi = 600],
   [Example EXCEPT !.perCable = 4],
   [Example EXCEPT !.areaW = 36, !.minFont = 8],
   [Example EXCEPT !.dpi = 600, !.minFont = 6, !.areaH = 30, !.gap = 12],
   [Example EXCEPT !.pad = 1, !.areaW = 30],
   [Example EXCEPT !.loose = TRUE, !.prefixMax = 40, !.areaW = 200],
   [Example EXCEPT !.statusMax = 40],
   [Example EXCEPT !.configured = FALSE, !.shadow = TRUE]}

Bad ==
  {[Example EXCEPT !.areaW = 210], [Example EXCEPT !.areaX = {150}], [Example EXCEPT !.areaY = {-1}],
   [Example EXCEPT !.margin = 25], [Example EXCEPT !.pad = 0], [Example EXCEPT !.maxFont = 4],
   [Example EXCEPT !.perCable = 0], [Example EXCEPT !.statusMax = 24],
   [Example EXCEPT !.configured = FALSE]}

AllSettings == Good \cup Bad

Letters(n, alnum) == [letters |-> n, alnum |-> alnum]

Prefixes == {Letters(2, TRUE), Letters(3, FALSE), Letters(8, TRUE), Letters(34, TRUE)}

Polls ==
  [source : {"poll"}, prefix : Prefixes, first : {0, 1, 1109, 9800}, qty : {1, 4, 251},
   copies : {0}, what : {10, 190}]

Tools ==
  [source : {"reprint", "test"}, prefix : {Letters(0, TRUE), Letters(2, TRUE)}, first : {-1, 0, 1109},
   qty : {0, 4}, copies : {-1, 0, 1}, what : {0}]

AllRequests == Polls \cup Tools

\* The shipped settings, and a reprint of more than 400 cables.
Shipped == {Example}

LongReprint ==
  {[source |-> "reprint", prefix |-> Letters(2, TRUE), first |-> 1, qty |-> 450, copies |-> 0,
    what |-> 0]}
=============================================================================
