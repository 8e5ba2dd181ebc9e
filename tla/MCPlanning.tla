------------------------------ MODULE MCPlanning ------------------------------
(* An instance of Planning for TLC: two tracks across and two down, at the *)
(* measures of test/simulation/test_grid.cpp.                              *)
EXTENDS Planning

Crossing(a, d, x, y, wd) ==
  [across_id |-> a, down_id |-> d, across_wd |-> 267, down_wd |-> wd,
   across_pos |-> x, down_pos |-> y]

\* The track of the human is the first that the tracks down cross.  One of
\* these is wider than the track across.
MCIntersections ==
  {Crossing(1, 3, 1200, 4197, 267), Crossing(1, 4, 3296, 4197, 400),
   Crossing(2, 3, 1200, 7194, 267), Crossing(2, 4, 3296, 7194, 267)}

MCAutos  == {2, 3, 4}
MCLength == [c \in Cars |-> 480]

At(p, v) == [position |-> p, velocity |-> v]

\* Car 2 may be just before its first crossing, slow enough to wait there or
\* not, and falls back from the second place to the first; car 3 about to
\* cross; car 4 exactly at the end of its track, with nothing ahead.
MCMoves ==
  [c \in Cars |->
     LET Start == At(0, 0)
         Onward(S) == {<<p, q>> \in ({Start} \cup S) \X S : p.position < q.position}
     IN  CASE c = Human -> Onward({At(2796, 1000)})
           [] c = 2     -> Onward({At(1100, 350), At(1160, 200)})
                             \cup {<<At(1160, 200), At(1100, 350)>>}
           [] c = 3     -> Onward({At(6994, 1000)})
           [] c = 4     -> {<<Start, At(10800, 800)>>}]
=============================================================================
