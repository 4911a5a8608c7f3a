----------------------------- MODULE Algorithms -----------------------------
(***************************************************************************)
(* The inputs of the pure algorithms, grown step by step: the lines of a   *)
(* character's file, the regions of a mask, the references between         *)
(* projects (or the parents of versions), the rounds of a refinement, the  *)
(* results of a critic, and the answers of the models behind it.  A        *)
(* behaviour grows the inputs of one of them.                              *)
(***************************************************************************)
EXTENDS FidelityChecklist, RoundPlan, CriticGates, ReferenceCycles, VersionTree, SequencesExt

CONSTANTS Lines, MaxLines, Weapons,
          Regions, MaxRegions, MaxSubtract,
          Projects, Gone,   \* a project with and one without a directory
          Tags, MaxRounds,
          Boxes, MaxResults,   \* what a check can point at
          FixTags,             \* the tags of each check
          Answers, Places      \* of a vision model, and of the checks it is asked

\* What the constants stand for; a parser makes answers of whole numbers, and the places
\* are those that a check can be about.
ASSUME AnswersAssumption ==
  /\ \A a \in Answers :
       /\ a = [said |-> a.said, confidence |-> a.confidence, box |-> a.box]
       /\ a.said \in {"pass", "fail", "missing"} /\ a.confidence \in 0..10
       /\ a.box # Nowhere => a.box \in [x0 : Int, y0 : Int, x1 : Int, y1 : Int]
  /\ Places \subseteq DOMAIN RegionVerticalBand

\* A marker is one of a render mode, and no weapon has the id of what hides them all.
ASSUME LinesAssumption == (\A line \in Lines : line.mark \in Marks) /\ "hidden" \notin Weapons

\* MaskRegion takes no negative number of pixels to dilate or to feather by.
ASSUME RegionsAssumption ==
  \A g \in Regions :
    g \in [x0 : Int, x1 : Int, y0 : Int, y1 : Int, dilate : Nat, feather : Nat]

ASSUME ProjectsAssumption ==
  IsFiniteSet(Projects) /\ Gone \notin Projects /\ NoParent \notin Projects

\* The critic is asked for boxes in the pixels of the image; each check has its tags.
ASSUME BoxesAssumption ==
  /\ \A b \in Boxes :
       \/ b = NoBox
       \/ /\ b \in [x0 : Nat, x1 : 1..Width, y0 : Nat, y1 : 1..Height, dilate : {0}, feather : {0}]
          /\ WellFormed(b)
  /\ MaxResults \in Nat
  /\ \A i \in 1..MaxResults :
       FixTags[i] \in Seq(UNION {Range(FixTags[j]) : j \in DOMAIN FixTags})

VARIABLES subject,
          section, weapons,
          regions, subtract,
          graph,
          version, said, verbatim, round,
          results,
          answers

lineage == <<version, said, verbatim, round>>
inputs == <<subject, section, weapons, regions, subtract, graph, lineage, results, answers>>

TagKeys == {tag.key : tag \in Tags}
Prompts == {<<>>} \cup {<<t>> : t \in Tags} \cup {<<s, t>> : s, t \in Tags}

\* A version that was imported, generated, or generated before assets had prompts.
FirstVersions ==
  {[own |-> <<>>, job |-> FALSE, jobPrompt |-> <<>>]}
  \cup {[own |-> p, job |-> TRUE, jobPrompt |-> <<t>>] : p \in {<<>>, <<CHOOSE t \in Tags : TRUE>>}, t \in Tags}

\* What a prompt adds to what was said: of every key the form it was first said in.
SaidWith(before, prompt) ==
  LET first(k) == prompt[CHOOSE i \in DOMAIN prompt :
                           prompt[i].key = k /\ \A j \in 1..i - 1 : prompt[j].key # k] IN
  [k \in TagKeys |-> IF before[k] = {} /\ k \in Keys(prompt) THEN {first(k)} ELSE before[k]]

Nothing == [k \in TagKeys |-> {}]

InputsInit ==
  /\ subject \in {"checklist", "mask", "graph", "lineage", "plan", "critic"}
  /\ section = <<>>
  /\ weapons \in IF subject = "checklist" THEN SUBSET Weapons ELSE {{}}
  /\ regions = {}
  /\ subtract = {}
  /\ graph = [p \in Projects |-> {}]
  /\ version \in IF subject = "lineage" THEN FirstVersions
                 ELSE {[own |-> <<>>, job |-> FALSE, jobPrompt |-> <<>>]}
  /\ said = SaidWith(Nothing, IF version.own = <<>> THEN version.jobPrompt ELSE version.own)
  /\ verbatim = TRUE
  /\ round = 0
  /\ results = <<>>
  /\ answers = <<>>

AddLine(line) ==
  /\ subject = "checklist" /\ Len(section) < MaxLines
  /\ section' = Append(section, line)
  /\ UNCHANGED <<subject, weapons, regions, subtract, graph, lineage, results, answers>>

AddRegion(g) ==
  /\ subject = "mask" /\ Cardinality(regions) < MaxRegions /\ subtract = {}
  /\ regions' = regions \cup {g}
  /\ UNCHANGED <<subject, section, weapons, subtract, graph, lineage, results, answers>>

AddSubtract(g) ==
  /\ subject = "mask" /\ Cardinality(subtract) < MaxSubtract
  /\ subtract' = subtract \cup {g}
  /\ UNCHANGED <<subject, section, weapons, regions, graph, lineage, results, answers>>

AddReference(p, q) ==
  /\ subject = "graph" /\ q \notin graph[p]
  /\ graph' = [graph EXCEPT ![p] = @ \cup {q}]
  /\ UNCHANGED <<subject, section, weapons, regions, subtract, lineage, results, answers>>

\* The version that was refined last is refined again.
Refine(request) ==
  /\ subject = "lineage" /\ round < MaxRounds
  /\ round' = round + 1
  /\ version' = Refined(version, request)
  /\ IF Renders(request)
     THEN LET anew == request.mode = "replace" \/ said = Nothing IN
          /\ said' = SaidWith(IF anew THEN Nothing ELSE said, request.instruction)
          /\ verbatim' = (anew \/ (verbatim /\ request.instruction = <<>>))
     ELSE UNCHANGED <<said, verbatim>>
  /\ UNCHANGED <<subject, section, weapons, regions, subtract, graph, results, answers>>

AddResult(verdict, confidence, box) ==
  /\ subject = "plan" /\ Len(results) < MaxResults
  /\ results' = Append(results, [id |-> Len(results) + 1, verdict |-> verdict,
                                 confidence |-> confidence, box |-> box])
  /\ UNCHANGED <<subject, section, weapons, regions, subtract, graph, lineage, answers>>

\* One of the two passes of the first model, over one check.
AddAnswer(answer) ==
  /\ subject = "critic" /\ Len(answers) < 2
  /\ answers' = Append(answers, answer)
  /\ UNCHANGED <<subject, section, weapons, regions, subtract, graph, lineage, results>>

RefineRequests ==
  [strategy : {"unset", "metadata_only"}, mask : {FALSE}, words : {{}, {"metadata"}},
   tuned : {FALSE}, mode : {"append", "replace"}, instruction : Prompts]

InputsNext ==
  \/ \E line \in Lines : AddLine(line)
  \/ \E g \in Regions : AddRegion(g) \/ AddSubtract(g)
  \/ \E p \in Projects, q \in Projects \cup {Gone} : AddReference(p, q)
  \/ \E request \in RefineRequests : Refine(request)
  \/ \E confidence \in 1..2, box \in Boxes : AddResult("fail", confidence, box)
  \/ \E verdict \in {"pass", "unverified"}, box \in Boxes : AddResult(verdict, 1, box)
  \/ \E answer \in Answers : AddAnswer(answer)

InputsSpec == InputsInit /\ [][InputsNext]_inputs

-----------------------------------------------------------------------------
\* parse_character_checklist(): of a bullet that tells its states apart, each render
\* mode checks exactly the lines of that mode, or without any the lines of no mode; a
\* bullet with prose is checked as a whole or not at all; and no mode checks what
\* another of its checks overrides.  The two files can tell the bullets in any order,
\* with headings, blank lines and weapons between them.  Left out are
\* bullets that go on behind a blank line or have bold sub-bullets: there the parser
\* does not do what its docstrings say (fidelity.py:381-384, :448-450).
ChecklistIsExact == subject = "checklist" => StatesAreExact(section, weapons)

\* build_mask_png(): the value of every pixel is what its distance from the outside
\* of each dilated region gives, as the region was asked for and wherever the image
\* ends, and what is to be left out is taken away last.  Left out are regions where
\* the cut at the frame shows: that cross it with a feather wider than their dilation
\* and a pixel more, and fade out there against mask.py:214-218, or that lie wholly
\* outside and are dilated, and leave a stripe at the edge of the image.
MaskIsAsDrawn == subject = "mask" => MaskIsExact(regions, subtract)

\* detect_cycles() ends; every path it reports comes back to where it was, and every
\* project on a loop that the project leads to is on such a path; build_version_tree()
\* over the same graph, where each version has one parent, shows a forest and cuts off
\* no more than what leads into a loop.
WalksAreExact ==
  subject = "graph" =>
    /\ \A p \in Projects : CyclesAreExact(graph, p)
    /\ (\A p \in Projects : Cardinality(graph[p]) <= 1) =>
         LET parent == [p \in Projects |-> IF graph[p] = {} THEN NoParent
                                           ELSE CHOOSE q \in graph[p] : TRUE] IN
         \A cap \in 1..Cardinality(Projects) : TreeIsExact(SetToSeq(Projects), parent, cap)

\* compose_prompt() and _resolve_effective_prompt(): after any rounds of refinement
\* the prompt has every tag that was said since the last replacement, in the form in
\* which it was said first, and nothing else (an instruction that is the whole prompt
\* stays as it was written, with the tags it says twice).
LineageKeepsTags ==
  subject = "lineage" =>
    LET prompt == EffectivePrompt(version)
        first == UNION {said[k] : k \in TagKeys} IN
    /\ first \subseteq Range(prompt)
    /\ Keys(prompt) = {tag.key : tag \in first}
    /\ ~verbatim => /\ Range(prompt) = first
                    /\ Len(prompt) = Cardinality(first)

\* plan_round() with build_mask_png(): the checks that a round repairs do not overlap
\* and are the most confident; the mask repaints what failed in full and nothing of a
\* passed region that is another one, however the boxes lie to each other; and the
\* instruction is not cut before the chosen checks have said what they ask for.
PlanRepairs ==
  (subject = "plan" /\ HasPlan(results)) =>
    /\ ChoiceIsGreedy(results)
    /\ RepairIsLocal(results, FixTags)
    /\ InstructionIsBounded(results, FixTags)

\* critique(): through the five gates no fail comes of one model's single answer, and
\* no pass without a place and confidence behind it or a second opinion that says pass,
\* whatever the first model leaves out of its answers and whether the second one can
\* be asked or not; but a check that the second model is asked of and leaves out does
\* pass, against the docstring at vision.py:409-411.
VerdictsAreTrusted ==
  (subject = "critic" /\ Len(answers) = 2) =>
    \A check \in Places \X BOOLEAN, mode \in {"off", "gemini"}, online \in BOOLEAN,
       opinion \in {"pass", "fail", "missing", "none"} :
      VerdictHasGround(answers[1], answers[2],
                       [region |-> check[1], fineDetail |-> check[2]],
                       [answers[2] EXCEPT !.said = opinion], mode, online)
=============================================================================
