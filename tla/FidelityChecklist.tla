------------------------- MODULE FidelityChecklist -------------------------
(***************************************************************************)
(* parse_character_checklist() (core/consultant/fidelity.py): the checks   *)
(* that the two markdown files of a character give for a render mode.      *)
(*                                                                         *)
(* A section is a sequence of lines.  Of a line only what the parser tells *)
(* apart is kept:                                                          *)
(*   kind     "heading", "bullet" (bold label at the section's indent),    *)
(*            "state" (deeper, "- state: text"), "label" (a deeper bold    *)
(*            bullet, which has this form too when its label is short),    *)
(*            "prose" (deeper, anything else), "outside" (not deeper),     *)
(*            "blank"                                                      *)
(*   mark     the render mode whose marker it holds, or "none"             *)
(*   content  "visible" (it names a garment or a part of the body),        *)
(*            "hidden" (underwear, sound, smell) or "measure" (numbers)    *)
(*   rest     of a bullet: is there text behind the label?                 *)
(***************************************************************************)
EXTENDS Naturals, Sequences

Modes == {"default", "combat", "casting", "sleep"}
Marks == (Modes \ {"default"}) \cup {"none"}

\* _section_lines(): the lines up to the next heading.
SectionLines(lines) ==
  LET headings == {i \in DOMAIN lines : lines[i].kind = "heading"} IN
  IF headings = {} THEN lines
  ELSE SubSeq(lines, 1, (CHOOSE i \in headings : \A j \in headings : i <= j) - 1)

StateLines == {"state", "label"}
DeeperLines == StateLines \cup {"prose"}

\* _extract_bullets_at_indent(): a bullet is the index of its line; its block are the
\* deeper lines behind it, up to one that is not deeper, which closes it; blank lines
\* are passed over.
Bullets(lines) == {i \in DOMAIN lines : lines[i].kind = "bullet"}

Block(lines, bullet) ==
  {i \in bullet + 1..Len(lines) :
     /\ lines[i].kind \in DeeperLines
     /\ \A j \in bullet + 1..i : lines[j].kind \in DeeperLines \cup {"blank"}}

\* _detect_mode(): the first marker counts.
DetectMode(lines, quotes) ==
  LET marked == {i \in quotes : lines[i].mark # "none"} IN
  IF marked = {} THEN "default"
  ELSE lines[CHOOSE i \in marked : \A j \in marked : i <= j].mark

\* not (_is_non_visual() or _is_measurement_only())
Visual(lines, quotes) ==
  LET contents == {lines[i].content : i \in quotes} IN
  "hidden" \notin contents /\ contents # {"measure"}

Check(id, mode, quotes, visual, overrides) ==
  [id |-> id, mode |-> mode, quotes |-> quotes, visual |-> visual, overrides |-> overrides]

\* _make_check(): the label stands in front of the lines of the check.
MakeCheck(lines, bullet, key, mode, of, overrides) ==
  LET quotes == {bullet} \cup of IN
  Check(<<bullet, key>>, mode, quotes, Visual(lines, quotes), overrides)

\* (mutant) One line of a state is enough to split.
SplitsOnAny(lines, bullet) == \E i \in Block(lines, bullet) : lines[i].kind \in StateLines

\* _split_state_lines(): every line of the block must have the form of a state, one of
\* them without and one with a marker.
Splits(lines, bullet) ==
  LET block == Block(lines, bullet) IN
  /\ ~lines[bullet].rest
  /\ \A i \in block : lines[i].kind \in StateLines
  /\ \E i \in block : lines[i].mark = "none"
  /\ \E i \in block : lines[i].mark # "none"

\* _build_checks_from_bullet(): one check for the lines without a marker and one per
\* marked mode, which overrides it; or one check for the whole bullet.
BuildChecks(lines, bullet) ==
  LET block == Block(lines, bullet)
      Of(mark) == {i \in block : lines[i].mark = mark}
      marks == {lines[i].mark : i \in block} \ {"none"} IN
  IF Splits(lines, bullet)
  THEN {MakeCheck(lines, bullet, "default", "default", Of("none"), {})}
         \cup {MakeCheck(lines, bullet, m, m, Of(m), {<<bullet, "default">>}) : m \in marks}
  ELSE {MakeCheck(lines, bullet, "default", DetectMode(lines, {bullet} \cup block), block, {})}

\* _parse_setting_checks(), and _parse_outfit_checks() for the lines of the outfit.
ParseSection(section) ==
  LET lines == SectionLines(section) IN
  UNION {BuildChecks(lines, bullet) : bullet \in Bullets(lines)}

\* _parse_weapons_checks(): each weapon is drawn in combat, and otherwise hidden.
ParseWeapons(weapons) ==
  IF weapons = {} THEN {}
  ELSE {Check(<<0, w>>, "combat", {}, TRUE, {<<0, "hidden">>}) : w \in weapons}
         \cup {Check(<<0, "hidden">>, "default", {}, TRUE, {})}

Overridden(checks, mode) ==
  IF mode = "default" THEN {}
  ELSE UNION {c.overrides : c \in {c \in checks : c.mode = mode}}

\* The checks of the mode, the default ones that none of them overrides, and of all
\* these what can be seen.
ParseChecklist(section, weapons, mode) ==
  LET all == ParseSection(section) \cup ParseWeapons(weapons)
      kept == {c \in all : c.mode \in {mode, "default"}}
      effective == {c \in kept : c.mode # "default" \/ c.id \notin Overridden(kept, mode)} IN
  {c \in effective : c.visual}

-----------------------------------------------------------------------------
\* What belongs to a bullet when a blank line closes it, as a reader of the file sees it.
Told(lines, bullet) ==
  {i \in bullet + 1..Len(lines) : \A j \in bullet + 1..i : lines[j].kind \in DeeperLines}

\* Deeper lines that follow a blank one: the parser counts them to the bullet.
GoesOn(lines, bullet) ==
  \E i \in Block(lines, bullet) : \E j \in bullet + 1..i : lines[j].kind = "blank"

\* A bullet that tells its states apart, line by line, and shows in each of them.
TellsStates(lines, bullet) ==
  LET told == Told(lines, bullet) IN
  /\ ~lines[bullet].rest /\ lines[bullet].mark = "none"
  /\ \A i \in {bullet} \cup told : lines[i].content = "visible"
  /\ \A i \in told : lines[i].kind = "state"
  /\ \E i \in told : lines[i].mark = "none"

\* What such a bullet asks for in a mode: the lines of that mode, or without any the
\* lines of no mode.
Asked(lines, bullet, mode) ==
  LET told == Told(lines, bullet)
      own == {i \in told : lines[i].mark = mode} IN
  IF own # {} THEN own ELSE {i \in told : lines[i].mark = "none"}

Quoted(section, weapons, mode) ==
  UNION {c.quotes : c \in ParseChecklist(section, weapons, mode)}

\* A bullet is asked for as a whole, or not at all.
Whole(lines, bullet, quoted) ==
  LET all == {bullet} \cup Told(lines, bullet) IN quoted \cap all \in {{}, all}

StatesAreExact(section, weapons) ==
  LET lines == SectionLines(section) IN
  \A mode \in Modes :
    LET checks == ParseChecklist(section, weapons, mode)
        quoted == Quoted(section, weapons, mode) IN
    /\ \A b \in Bullets(lines) :
         LET told == Told(lines, b) IN
         ~GoesOn(lines, b) =>
           /\ TellsStates(lines, b) => quoted \cap told = Asked(lines, b, mode)
           /\ (\E i \in told : lines[i].kind = "prose") => Whole(lines, b, quoted)
    /\ \A c, d \in checks : c.id \notin d.overrides
=============================================================================
