------------------------- MODULE MCWindowedAverage -------------------------
(* WindowedAverage on a window of three with negative and positive samples; *)
(* the word is just wide enough for the sum of a full window.               *)
EXTENDS WindowedAverage

MCSamples == {-2, 1, 3}
=============================================================================
