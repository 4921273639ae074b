------------------------------- MODULE Windows -------------------------------
(***************************************************************************)
(* A sliding window of samples as a sequence, newest first, and its mean.  *)
(* This is what a wnd_avg_store stands for: WindowedAverage shows that the *)
(* shifted C array of src/windowed_average.c behaves like it, and the      *)
(* components that keep a running average are modelled with it.            *)
(***************************************************************************)
EXTENDS Integers, Sequences, SequencesExt, CArithmetic

(* The newest sample goes in front; the oldest falls out of a full window. *)
Push(window, sample, len) ==
  SubSeq(<<sample>> \o window, 1, IF Len(window) < len THEN Len(window) + 1 ELSE len)

WindowSum(window) == FoldLeft(LAMBDA sum, sample : sum + sample, 0, window)

(* The mean of a non-empty window, rounded towards zero as C does.         *)
WindowMean(window) == TruncDiv(WindowSum(window), Len(window))
=============================================================================
