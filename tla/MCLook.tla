--------------------------------- MODULE MCLook ---------------------------------
(***************************************************************************)
(* The journal pane of Look.tla over a few runs, with somebody moving      *)
(* about in it while replies arrive in any order and the runs go on.       *)
(***************************************************************************)
EXTENDS Look, TLC

CONSTANT Heights   \* rows the list may have on the screen

\* However far the pointer strides, and whatever list it is in, the row it points at is one
\* that is drawn (draw.rs, journal).
PickedIsOnScreen ==
  PointingAt(win) # 0 /\ win.picked < Rows => \A tall \in Heights : win.picked \in Drawn(win, tall)
================================================================================
