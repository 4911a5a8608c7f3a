---------------------------- MODULE MaskBuilder ----------------------------
(***************************************************************************)
(* build_mask_png() (core/editor/mask.py): the mask of a source image from *)
(* regions to repaint and regions to leave out.  A region is a half-open   *)
(* box [x0, x1) x [y0, y1) with the pixels to dilate it by and the width   *)
(* of its feathered border.  The order of regions is left out, as the      *)
(* largest value counts, and so is the PNG encoding.  Where the code has a *)
(* fraction, the model has the number of its Scale-ths.                    *)
(***************************************************************************)
EXTENDS Integers, FiniteSets, FiniteSetsExt

CONSTANTS Width, Height,
          Scale,        \* a multiple of every feather width
          MaxPixels     \* MAX_MASK_PIXELS

ASSUME MaskAssumption ==
  /\ {Width, Height, MaxPixels} \subseteq Nat
  /\ Scale \in Nat \ {0}

Pixels == (0..Width - 1) \X (0..Height - 1)
Within(v, low, high) == IF v < low THEN low ELSE IF v > high THEN high ELSE v
WellFormed(g) == g.x0 < g.x1 /\ g.y0 < g.y1

\* (mutant) The near edges are cut off at the last pixel.
ClampedToLast(g) ==
  LET x0 == Within(g.x0, 0, Width - 1)
      y0 == Within(g.y0, 0, Height - 1) IN
  [g EXCEPT !.x0 = x0, !.y0 = y0,
            !.x1 = Max({x0, Min({g.x1, Width})}), !.y1 = Max({y0, Min({g.y1, Height})})]

\* The box cut off at the image ...
Clamped(g) ==
  LET x0 == Within(g.x0, 0, Width)
      y0 == Within(g.y0, 0, Height) IN
  [g EXCEPT !.x0 = x0, !.y0 = y0,
            !.x1 = Max({x0, Min({g.x1, Width})}), !.y1 = Max({y0, Min({g.y1, Height})})]

\* ... and dilated.
Dilated(g) ==
  [g EXCEPT !.x0 = @ - g.dilate, !.y0 = @ - g.dilate,
            !.x1 = @ + g.dilate, !.y1 = @ + g.dilate]

Covers(g, p) == p[1] \in g.x0..g.x1 - 1 /\ p[2] \in g.y0..g.y1 - 1
Inside(g) == g.x0 >= 0 /\ g.y0 >= 0 /\ g.x1 <= Width /\ g.y1 <= Height

\* The border of a feathered region fades out.
Ramp(g, e, p) ==
  LET distance == Min({p[1] - e.x0, e.x1 - 1 - p[1], p[2] - e.y0, e.y1 - 1 - p[2]}) IN
  IF g.feather <= 0 \/ distance >= g.feather THEN Scale
  ELSE ((distance + 1) * Scale) \div g.feather

\* _accumulate_region(), for one pixel: the largest value counts.
RegionValue(g, p) ==
  LET e == Dilated(Clamped(g)) IN IF Covers(e, p) THEN Ramp(g, e, p) ELSE 0

UnionValue(regions, p) == Max({0} \cup {RegionValue(g, p) : g \in regions})

\* In Scale * Scale-ths.
Carved(value, subtracted) == value * (Scale - subtracted)

WasClamped(regions) ==
  \E g \in regions : ~Inside(g) \/ ~Inside(Dilated(Clamped(g)))

\* What build_mask_png() refuses.
Refused(regions, subtract) ==
  \/ Width = 0 \/ Height = 0 \/ regions = {} \/ Width * Height > MaxPixels
  \/ \E g \in regions \cup subtract : ~WellFormed(g)

Mask(regions, subtract) ==
  [p \in Pixels |-> Carved(UnionValue(regions, p), UnionValue(subtract, p))]

-----------------------------------------------------------------------------
Meets(g) == \E p \in Pixels : Covers(g, p)

\* Of the squares around a pixel that the feather looks at, how many lie within the
\* dilated region, as it was asked for and wherever the image ends?
Depth(g, p) ==
  LET cells == (g.x0..g.x1 - 1) \X (g.y0..g.y1 - 1)
      near(q) == \E c \in cells : /\ q[1] - c[1] \in -g.dilate..g.dilate
                                 /\ q[2] - c[2] \in -g.dilate..g.dilate
      square(k) == (p[1] - k..p[1] + k) \X (p[2] - k..p[2] + k) IN
  Cardinality({k \in 0..Max({1, g.feather}) - 1 : \A q \in square(k) : near(q)})

ExpectedValue(regions, p) ==
  Max({0} \cup {(Depth(g, p) * Scale) \div Max({1, g.feather}) : g \in regions})

\* The box is cut off before it is dilated.  That shows where a region crosses the frame
\* with a feather that dilation does not make up for, and where a region with no pixel
\* in the image is dilated: the comment in _accumulate_region() that a region does not
\* fade out at the frame is true of the others only.
CutShows(g) ==
  \/ Meets(g) /\ ~Inside(g) /\ g.feather > g.dilate + 1
  \/ ~Meets(g) /\ g.dilate > 0

MaskIsExact(regions, subtract) ==
  (~Refused(regions, subtract) /\ \A g \in regions \cup subtract : ~CutShows(g)) =>
    \A p \in Pixels : Mask(regions, subtract)[p] =
      ExpectedValue(regions, p) * (Scale - ExpectedValue(subtract, p))
=============================================================================
