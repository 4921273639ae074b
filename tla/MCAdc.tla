------------------------------- MODULE MCAdc -------------------------------
(* Adc with the channels of the two board revisions: on 1.0.0 the sensors   *)
(* of z and y on the first converter and of x on the second, on 1.1.0 the   *)
(* bus voltage as the second converter's second channel.                    *)
EXTENDS Adc

MCThreeChannels == [d \in 0 .. 1 |-> 2 - d]
MCFourChannels  == [d \in 0 .. 1 |-> 2]

MCSensor == [c \in (0 .. 1) \X (0 .. 1) |->
               CASE c = <<0, 0>> -> 2
                 [] c = <<0, 1>> -> 1
                 [] c = <<1, 0>> -> 0
                 [] OTHER        -> 3]

MCBoth == {0, 1}
=============================================================================
