---------------------------- MODULE RefineLineage ----------------------------
(***************************************************************************)
(* The prompts of refined versions: plan_refine() and compose_prompt()     *)
(* (core/generation/refine.py) and what GenerationService.refine_asset()   *)
(* makes of them.  A prompt is a sequence of tags; a tag is [key, form],   *)
(* where tags of one key differ in case or spacing only.                   *)
(***************************************************************************)
EXTENDS Naturals, Sequences, FiniteSets, Functions

\* select_strategy(): what the caller names, or the first rung that the request
\* calls for; a mask and a local edit come first.
SelectStrategy(request) ==
  CASE request.strategy # "unset" -> request.strategy
    [] request.strategy = "unset" /\ (request.mask \/ "local" \in request.words) -> "inpaint"
    [] request.strategy = "unset" /\ ~request.mask /\ "local" \notin request.words ->
         CASE "regenerate" \in request.words -> "full_regen"
           [] "regenerate" \notin request.words /\ "metadata" \in request.words -> "metadata_only"
           [] OTHER -> IF request.tuned THEN "param_retune" ELSE "img2img"

\* A version with pixels of its own comes of every strategy but this one.
Renders(request) == SelectStrategy(request) # "metadata_only"

\* The job waits for a mask, or for the worker.
NeedsMask(request) == SelectStrategy(request) = "inpaint" /\ ~request.mask

Keys(prompt) == {prompt[i].key : i \in DOMAIN prompt}

\* (mutant) A tag is dropped only when it is the same to the letter.
DedupeExact(prompt) ==
  LET kept[n \in 0..Len(prompt)] ==
        IF n = 0 THEN <<>>
        ELSE LET before == kept[n - 1] IN
             IF prompt[n] \in Range(before) THEN before ELSE Append(before, prompt[n])
  IN kept[Len(prompt)]

\* _dedupe_comma_tags(): the first tag of a key stays as it is.
DedupeCommaTags(prompt) ==
  LET kept[n \in 0..Len(prompt)] ==
        IF n = 0 THEN <<>>
        ELSE LET before == kept[n - 1] IN
             IF prompt[n].key \in Keys(before) THEN before ELSE Append(before, prompt[n])
  IN kept[Len(prompt)]

\* compose_prompt()
ComposePrompt(parent, instruction, mode) ==
  CASE mode = "replace" \/ parent = <<>> -> instruction
    [] mode # "replace" /\ parent # <<>> /\ instruction = <<>> -> parent
    [] OTHER -> DedupeCommaTags(parent \o instruction)

\* _resolve_effective_prompt(): an asset of an old version has none of its own, and
\* the job it came from has its prompt, if there is one.
EffectivePrompt(version) ==
  IF version.own # <<>> THEN version.own
  ELSE IF version.job THEN version.jobPrompt ELSE <<>>

\* refine_asset(): the new version, or the parent with other metadata.
Refined(parent, request) ==
  IF ~Renders(request) THEN parent
  ELSE LET prompt == ComposePrompt(EffectivePrompt(parent), request.instruction, request.mode) IN
       [own |-> prompt, job |-> TRUE, jobPrompt |-> prompt]

=============================================================================
