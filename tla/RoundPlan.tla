----------------------------- MODULE RoundPlan -----------------------------
(***************************************************************************)
(* plan_round() (core/consultant/fidelity_loop.py): which failed checks a  *)
(* refinement round repairs, and the regions to repaint and to leave alone *)
(* that build_mask_png() gets.  A critic's result is [id, verdict,         *)
(* confidence, box]; a box is a region of MaskBuilder with nothing to      *)
(* dilate or feather, or NoBox.                                            *)
(***************************************************************************)
EXTENDS MaskBuilder, RefineLineage

CONSTANTS NoBox,
          TopK,                      \* DEFAULT_TOP_K
          MaskDilate, MaskFeather,   \* DEFAULT_MASK_DILATE, DEFAULT_MASK_FEATHER
          TagCap                     \* DEFAULT_TAG_CAP

ASSUME PlanAssumption ==
  /\ TopK \in Nat \ {0} /\ TagCap \in Nat /\ MaskDilate \in Nat /\ MaskFeather \in 0..MaskDilate
  /\ NoBox \notin [x0 : Int, x1 : Int, y0 : Int, y1 : Int, dilate : Nat, feather : Nat]

Box(x0, x1, y0, y1) == [x0 |-> x0, x1 |-> x1, y0 |-> y0, y1 |-> y1, dilate |-> 0, feather |-> 0]

Common(a, b) == Box(Max({a.x0, b.x0}), Min({a.x1, b.x1}), Max({a.y0, b.y0}), Min({a.y1, b.y1}))
Overlaps(a, b) == a # NoBox /\ b # NoBox /\ WellFormed(Common(a, b))
Area(b) == Max({0, b.x1 - b.x0}) * Max({0, b.y1 - b.y0})
Repainted(b) == [b EXCEPT !.dilate = MaskDilate, !.feather = MaskFeather]

\* _iou() of at least DEFAULT_SUBTRACT_IOU_THRESHOLD, 3/10.
SameRegion(a, b) ==
  LET shared == Area(Common(a, b)) IN
  shared > 0 /\ 10 * shared >= 3 * (Area(a) + Area(b) - shared)

\* (mutant) The corners beside the excluded box are lost.
ClipColumns(b, e) ==
  LET c == Common(b, e) IN
  IF ~WellFormed(c) THEN {b}
  ELSE {s \in {Box(b.x0, c.x0, c.y0, c.y1), Box(c.x1, b.x1, c.y0, c.y1)} : WellFormed(s)}

\* _clip_rect_excluding(): the strips above, below, left and right of the overlap.
Clip(b, e) ==
  LET c == Common(b, e) IN
  IF ~WellFormed(c) THEN {b}
  ELSE {s \in {Box(b.x0, b.x1, b.y0, c.y0), Box(b.x0, b.x1, c.y1, b.y1),
                Box(b.x0, c.x0, c.y0, c.y1), Box(c.x1, b.x1, c.y0, c.y1)} : WellFormed(s)}

\* The most confident of the checks; sorted() is stable.
First(checks) ==
  CHOOSE r \in checks : \A s \in checks :
    r.confidence > s.confidence \/ (r.confidence = s.confidence /\ r.id <= s.id)

\* select_top_k_failed(): the first failed check, and then the first of those that
\* overlap none before them, which is where the walk through the sorted list stops next.
SelectTopKFailed(results) ==
  LET Eligible(chosen) == {r \in Range(results) :
                             /\ r.verdict = "fail" /\ r \notin Range(chosen)
                             /\ \A c \in Range(chosen) : ~Overlaps(r.box, c.box)}
      chosen[n \in 0..TopK] ==
        IF n = 0 THEN <<>>
        ELSE LET before == chosen[n - 1] IN
             IF Eligible(before) = {} THEN before ELSE Append(before, First(Eligible(before)))
  IN chosen[TopK]

Localized(chosen) == {c \in Range(chosen) : c.box # NoBox}

\* The chosen checks that a passed one borders on.
Bordered(chosen, r) == {c \in Localized(chosen) : Overlaps(r.box, Dilated(Repainted(c.box)))}

\* The passed checks near a chosen one, each box once.
Reasserted(chosen, results) ==
  LET kept[n \in 0..Len(results)] ==
        IF n = 0 THEN <<>>
        ELSE LET before == kept[n - 1]
                 r == results[n] IN
             IF r.verdict = "pass" /\ r.box # NoBox /\ Bordered(chosen, r) # {}
                /\ \A k \in Range(before) : k.box # r.box
             THEN Append(before, r) ELSE before
  IN kept[Len(results)]

\* What is left of a passed box to keep: nothing of one that is a chosen region itself.
Kept(chosen, r) ==
  LET near == Bordered(chosen, r)
      left[n \in 0..Len(chosen)] ==
        IF n = 0 THEN {r.box}
        ELSE LET before == left[n - 1] IN
             IF chosen[n] \in near THEN UNION {Clip(b, chosen[n].box) : b \in before} ELSE before
  IN IF \E c \in near : SameRegion(r.box, c.box) THEN {} ELSE left[Len(chosen)]

\* build_instruction_tags() and build_negative_tags(), of what each check asks for.
BuildTags(chosen, reasserted, tagsOf) ==
  LET all == chosen \o reasserted
      said[n \in 0..Len(all)] == IF n = 0 THEN <<>> ELSE said[n - 1] \o tagsOf[all[n].id]
      tags == DedupeCommaTags(said[Len(all)]) IN
  SubSeq(tags, 1, Min({TagCap, Len(tags)}))

\* _merge_negative(): None leaves the negative prompt of the parent as it is.
MergeNegative(inherited, negativeTags) ==
  IF negativeTags = <<>> THEN inherited ELSE DedupeCommaTags(inherited \o negativeTags)

\* select_strategy_for_round(): more than 2/5 of the image is rendered anew as a whole.
SelectStrategyForRound(chosen) ==
  LET area[n \in 0..Len(chosen)] ==
        IF n = 0 THEN 0
        ELSE area[n - 1] + (IF chosen[n].box = NoBox THEN 0 ELSE Area(chosen[n].box)) IN
  IF Width > 0 /\ Height > 0 /\ 5 * area[Len(chosen)] > 2 * Width * Height
  THEN "img2img" ELSE "unset"

\* There is no plan unless a fail is confirmed.
HasPlan(results) == \E r \in Range(results) : r.verdict = "fail"

PlanRound(results, tagsOf) ==
  LET chosen == SelectTopKFailed(results)
      reasserted == Reasserted(chosen, results) IN
  [chosen |-> chosen,
   reasserted |-> reasserted,
   regions |-> {Repainted(c.box) : c \in Localized(chosen)},
   subtract |-> UNION {Kept(chosen, r) : r \in Range(reasserted)},
   tags |-> BuildTags(chosen, reasserted, tagsOf),
   strategy |-> SelectStrategyForRound(chosen)]

-----------------------------------------------------------------------------
\* A failed check is passed over only for others that it overlaps, or that fill the
\* round, each given with at least its confidence.
ChoiceIsGreedy(results) ==
  LET chosen == Range(SelectTopKFailed(results))
      before(r) == {c \in chosen : c.confidence >= r.confidence} IN
  /\ Cardinality(chosen) <= TopK
  /\ \A c, d \in chosen : c # d => ~Overlaps(c.box, d.box)
  /\ \A r \in Range(results) \ chosen :
       r.verdict = "fail" =>
         Cardinality(before(r)) = TopK \/ \E c \in before(r) : Overlaps(r.box, c.box)

\* Together with build_mask_png(): what failed is repainted in full, what lies away
\* from it is not touched, and neither is a passed region that is another one; the
\* mask is refused for an image that is too large, and never for its regions.
RepairIsLocal(results, tagsOf) ==
  LET plan == PlanRound(results, tagsOf)
      chosen == Localized(plan.chosen)
      value == Mask(plan.regions, plan.subtract)
      another(r) == r.verdict = "pass" /\ r.box # NoBox
                    /\ \A c \in chosen : ~SameRegion(r.box, c.box) IN
  plan.regions # {} =>
    /\ Refused(plan.regions, plan.subtract) => Width * Height > MaxPixels
    /\ \A p \in Pixels :
         /\ (\E c \in chosen : Covers(c.box, p)) => value[p] = Scale * Scale
         /\ (\A c \in chosen : ~Covers(Dilated(Repainted(c.box)), p)) => value[p] = 0
         /\ (/\ \E r \in Range(results) : another(r) /\ Covers(r.box, p)
             /\ \A c \in chosen : ~Covers(c.box, p)) => value[p] = 0

\* The instruction says what the chosen checks ask for before anything else, and each
\* thing once; a strategy that renders the image anew is for large failures only.
InstructionIsBounded(results, tagsOf) ==
  LET plan == PlanRound(results, tagsOf)
      asked == UNION {Range(tagsOf[r.id]) : r \in Range(plan.chosen)} IN
  /\ Len(plan.tags) = Cardinality(Keys(plan.tags)) /\ Len(plan.tags) <= TagCap
  /\ {tag.key : tag \in asked} \subseteq Keys(plan.tags) \/ Len(plan.tags) = TagCap
  /\ plan.strategy = "img2img" =>
       5 * Cardinality({p \in Pixels : \E c \in Localized(plan.chosen) : Covers(c.box, p)})
         > 2 * Width * Height
=============================================================================
