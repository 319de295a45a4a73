---------------------------- MODULE MCAvgScale ----------------------------
(***************************************************************************)
(* Dumps of two processes for get_avgscale.py: a single page each, of one  *)
(* on two lines, and the same page with three new ones that are used more, *)
(* or less, than it.                                                       *)
(***************************************************************************)
EXTENDS AvgScale

Line(g, p, n) == [page |-> g, pid |-> p, count |-> n]

\* Page 1 with count n, pages 2, 3 and 4 with count m.
Busy(p, n, m) == <<Line(1, p, n)>> \o [k \in 1 .. 3 |-> Line(k + 1, p, m)]

Single == <<Line(1, 1, 1), Line(1, 2, 7), Line(1, 2, 1)>>

MCDumps ==
  { Single,
    Busy(1, 9, 1) \o Busy(2, 8, 2),    \* both lower
    Busy(1, 2, 9) \o Busy(2, 5, 4) }   \* one raises; ratio 0.8
=============================================================================
