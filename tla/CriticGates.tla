---------------------------- MODULE CriticGates ----------------------------
(***************************************************************************)
(* The gates between what vision models say of an image and the verdicts   *)
(* the refinement loop works with: core/llm/critic_support.py and          *)
(* core/llm/vision.py.  An answer is what one model says of one check:     *)
(* [said, confidence, box] with said among pass, fail and missing (no      *)
(* entry, or one that is malformed).  Confidence is counted in tenths.     *)
(***************************************************************************)
EXTENDS Integers

CONSTANTS ImageWidth, ImageHeight,
          Nowhere,         \* no box: region_bbox is None
          MinConfidence    \* misaka_fidelity_pass_min_confidence

ASSUME CriticAssumption == {ImageWidth, ImageHeight} \subseteq Nat /\ MinConfidence \in 0..10

\* _REGION_VERTICAL_BAND, in hundredths of the height of the image.
RegionVerticalBand ==
  [head |-> <<0, 35>>, face |-> <<0, 35>>, torso |-> <<20, 65>>, waist |-> <<45, 75>>,
   legs |-> <<60, 100>>, background |-> <<0, 100>>]

\* parse_critic_response(): what is missing or malformed is a pass of no confidence.
Parse(answer) ==
  IF answer.said = "missing" THEN [verdict |-> "pass", confidence |-> 0, box |-> Nowhere]
  ELSE [verdict |-> answer.said, confidence |-> answer.confidence, box |-> answer.box]

\* (mutant) One fail is enough.
EitherFails(a, b) == IF a.verdict = "pass" /\ b.verdict = "pass" THEN a ELSE [a EXCEPT !.verdict = "fail"]

\* _apply_two_pass_gate(): a fail that is not repeated is a pass.
TwoPass(a, b) ==
  IF a.verdict = "pass" \/ b.verdict = "pass" THEN [a EXCEPT !.verdict = "pass"] ELSE a

TooLarge(box) ==
  LET x == IF box.x1 > box.x0 THEN box.x1 - box.x0 ELSE 0
      y == IF box.y1 > box.y0 THEN box.y1 - box.y0 ELSE 0 IN
  ImageWidth > 0 /\ ImageHeight > 0 /\ 10 * x * y > 6 * ImageWidth * ImageHeight

\* Is the centre of the box within the band of the region?
RegionCompatible(region, box) ==
  LET band == RegionVerticalBand[region]
      centre == IF ImageHeight > 0 THEN 100 * (box.y0 + box.y1) ELSE 0 IN
  2 * ImageHeight * band[1] <= centre /\ centre <= 2 * ImageHeight * band[2]

\* _apply_fail_side_gates()
FailGates(r, region) ==
  IF r.verdict = "fail" /\ (r.box = Nowhere \/ TooLarge(r.box) \/ ~RegionCompatible(region, r.box))
  THEN [r EXCEPT !.verdict = "pass"] ELSE r

\* _apply_localized_pass_gate()
PassGate(r) ==
  IF r.verdict = "pass" /\ (r.box = Nowhere \/ TooLarge(r.box) \/ r.confidence < MinConfidence)
  THEN [r EXCEPT !.verdict = "unverified"] ELSE r

NeedsOpinion(r, fineDetail) == r.verdict = "unverified" \/ (r.verdict = "pass" /\ fineDetail)

\* _call_second_opinion(): of a provider in the cloud, never when offline.
SecondOpinionCalled(mode, online) == mode \in {"gemini", "openai"} /\ online

\* _reconcile_second_opinion() and _mark_unverified_no_opinion(); "none" is a provider
\* that did not answer.
Reconcile(r, opinion) ==
  IF opinion.said = "none" THEN [r EXCEPT !.verdict = "unverified"]
  ELSE [r EXCEPT !.verdict = Parse(opinion).verdict]

\* _run_single_pass() twice and the gates of one model; then critique(), for one check.
FirstVerdict(a, b, check) == PassGate(FailGates(TwoPass(Parse(a), Parse(b)), check.region))

Critique(a, b, check, opinion, mode, online) ==
  LET r == FirstVerdict(a, b, check) IN
  IF mode = "off" \/ ~NeedsOpinion(r, check.fineDetail) THEN r
  ELSE Reconcile(r, IF SecondOpinionCalled(mode, online) THEN opinion
                    ELSE [opinion EXCEPT !.said = "none"])

-----------------------------------------------------------------------------
Precise(answer) == answer.said # "missing" /\ answer.box # Nowhere /\ ~TooLarge(answer.box)

\* The second model is asked of this check, and its answer has nothing on it.
LeftOut(a, b, check, opinion, mode, online) ==
  /\ NeedsOpinion(FirstVerdict(a, b, check), check.fineDetail)
  /\ SecondOpinionCalled(mode, online) /\ opinion.said = "missing"

\* What a verdict rests on: a fail on two that point at the same kind of place, or on a
\* second opinion that says so; a pass on a place and on confidence, or on a second
\* opinion that says so.  A check that the second opinion leaves out is a pass without
\* either: _reconcile_second_opinion() means to keep it unverified, but the parser has
\* answered for it.
VerdictHasGround(a, b, check, opinion, mode, online) ==
  LET verdict == Critique(a, b, check, opinion, mode, online).verdict
      asked == SecondOpinionCalled(mode, online) IN
  /\ verdict = "fail" =>
       \/ asked /\ opinion.said = "fail"
       \/ a.said = "fail" /\ b.said = "fail" /\ Precise(a) /\ RegionCompatible(check.region, a.box)
  /\ verdict = "pass" =>
       \/ asked /\ opinion.said = "pass"
       \/ /\ Precise(a) /\ a.confidence >= MinConfidence
          /\ ~check.fineDetail \/ mode = "off"
          /\ (a.said = "fail" /\ b.said = "fail") => ~RegionCompatible(check.region, a.box)
       \/ LeftOut(a, b, check, opinion, mode, online)
=============================================================================
