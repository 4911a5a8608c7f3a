---------------------------- MODULE MCAlgorithms ----------------------------
EXTENDS Algorithms

CONSTANTS p1, p2, p3, none

Line(kind, mark, content, rest) == [kind |-> kind, mark |-> mark, content |-> content, rest |-> rest]

MCLines ==
  {Line("heading", "none", "visible", FALSE), Line("blank", "none", "visible", FALSE),
   Line("bullet", "none", "visible", FALSE), Line("bullet", "none", "visible", TRUE),
   Line("bullet", "combat", "visible", FALSE),
   Line("state", "none", "visible", FALSE), Line("state", "combat", "visible", FALSE),
   Line("state", "sleep", "visible", FALSE), Line("state", "combat", "hidden", FALSE),
   Line("label", "combat", "visible", FALSE), Line("prose", "combat", "visible", FALSE),
   Line("outside", "none", "visible", FALSE)}

\* Boxes that lie within the image, cross its edges, lie outside, or are empty.
MCRegions ==
  {[x0 |-> x[1], x1 |-> x[2], y0 |-> y[1], y1 |-> y[2], dilate |-> d, feather |-> f] :
     x \in {<<-1, 2>>, <<1, 3>>, <<2, 6>>, <<5, 7>>, <<3, 1>>}, y \in {<<-1, 1>>, <<0, 3>>},
     d \in {0, 1}, f \in {0, 2}}

MCProjects == {p1, p2, p3}
MCTags == [key : {1, 2}, form : {1, 2}]

\* Boxes that are the same, nearly the same, overlap in a corner, border on each other,
\* lie apart, and cover the image.
MCBoxes ==
  {NoBox, Box(0, 2, 0, 2), Box(1, 3, 0, 2), Box(0, 1, 0, 1), Box(1, 3, 1, 3),
   Box(0, 4, 1, 2), Box(3, 4, 0, 3), Box(0, 4, 0, 3)}

MCFixTags ==
  <<<<[key |-> 1, form |-> 1]>>, <<[key |-> 1, form |-> 2], [key |-> 2, form |-> 1]>>,
    <<[key |-> 3, form |-> 1]>>>>

\* Places in the upper, the middle and the lower part, one too large, one inside out.
MCAnswers ==
  [said : {"pass", "fail", "missing"}, confidence : {4, 6},
   box : {Nowhere, [x0 |-> 0, x1 |-> 4, y0 |-> 0, y1 |-> 2], [x0 |-> 2, x1 |-> 6, y0 |-> 4, y1 |-> 6],
          [x0 |-> 0, x1 |-> 9, y0 |-> 7, y1 |-> 10], [x0 |-> 0, x1 |-> 10, y0 |-> 0, y1 |-> 7],
          [x0 |-> 5, x1 |-> 2, y0 |-> 9, y1 |-> 8]}]

MCPlaces == {"head", "face", "torso", "waist", "legs", "background"}
=============================================================================
