-------------------------------- MODULE LedCycle --------------------------------
(***************************************************************************)
(* What the button does to the light, as a user sees it: the colours come  *)
(* round in the order off, red, green, blue.                               *)
(***************************************************************************)

VARIABLE color

Off == [r |-> 0, g |-> 0, b |-> 0]
Red == [Off EXCEPT !.r = 255]
Green == [Off EXCEPT !.g = 255]
Blue == [Off EXCEPT !.b = 255]

Colors == {Off, Red, Green, Blue}

Successor(c) ==
  CASE c = Off -> Red
    [] c = Red -> Green
    [] c = Green -> Blue
    [] c = Blue -> Off

Init == color = Off

Next == color' = Successor(color)

Spec == Init /\ [][Next]_color
===============================================================================
