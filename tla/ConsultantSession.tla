------------------------- MODULE ConsultantSession -------------------------
(***************************************************************************)
(* The consultant dialog: the sessions table of a project's memory.sqlite  *)
(* and the requests that move a session through Intake, Clarify, Summary,  *)
(* Generate, Refine and Accept (core/consultant/engine.py, session_store.py*)
(* and state_machine.py; spec 4.1).                                        *)
(*                                                                         *)
(* Routes run in a thread pool and nothing locks a session: a request reads*)
(* the row, works on its copy and writes the whole row back.  The planner  *)
(* is reduced to the modality its analysis is for; a slot value is "filled"*)
(* or "blank" (None, "", spaces).  checklist_status and missing_slots are  *)
(* functions of modality and slots and are not kept; last_result has no    *)
(* reader.  The routes attach suggestion cards to the answer only.         *)
(***************************************************************************)
EXTENDS Naturals, Sequences

CONSTANTS
  Clients,      \* threads that serve requests
  Sessions,     \* session ids
  Modalities,
  Text,         \* Modality.TEXT
  Slots,
  Required,     \* REQUIRED_SLOTS: modality -> slots that gate the checklist
  Optional,     \* OPTIONAL_SLOTS: modality -> slots that are stored only
  None

ASSUME ModalityAssumption == Text \in Modalities /\ None \notin Modalities
ASSUME SlotAssumption ==
  /\ Required \in [Modalities -> SUBSET Slots]
  /\ Optional \in [Modalities -> SUBSET Slots]

States == {"intake", "clarify", "summary", "generate", "refine", "accept"}
Values == {"absent", "blank", "filled"}

Rows == [modality : Modalities \union {None}, state : States,
         slots : [Slots -> Values], plan : Modalities \union {None}]

ASSUME NoneAssumption == None \notin Rows /\ None \notin Sessions

VARIABLES
  row,     \* session id -> its row, or None
  target,  \* client -> the session of the request it serves, or None
  todo,    \* client -> the rows this request has still to write
  stale    \* client -> has the row changed since this request last read or
           \* wrote it?  History for the properties: no action reads it.

vars == <<row, target, todo, stale>>

-----------------------------------------------------------------------------
(* state_machine.py *)

Or(m, default) == IF m = None THEN default ELSE m

Missing(m, slots) == {k \in Required[m] : slots[k] # "filled"}

Complete(m, slots) == Missing(m, slots) = {}

\* _ALLOWED_TRANSITIONS; can_transition() also allows a reset to INTAKE.
Allowed ==
  {"intake"} \X {"clarify", "summary"} \union
  {"clarify"} \X {"clarify", "summary"} \union
  {"summary"} \X {"generate", "clarify"} \union
  {"generate"} \X {"refine", "accept"} \union
  {"refine"} \X {"refine", "generate", "accept"}

CanTransition(from, to) == to = "intake" \/ <<from, to>> \in Allowed

\* (mutant) The checklist is looked at in Intake only.
NextStateUngated(from, m, slots, accept) ==
  IF from = "clarify" \/ (from = "intake" /\ Complete(m, slots)) THEN "summary"
  ELSE IF from = "intake" THEN "clarify"
  ELSE IF from = "summary" THEN "generate"
  ELSE IF from = "accept" \/ accept THEN "accept" ELSE "refine"

NextState(from, m, slots, accept) ==
  IF from \in {"intake", "clarify"}
  THEN IF Complete(m, slots) THEN "summary" ELSE "clarify"
  ELSE IF from = "summary" THEN "generate"
  ELSE IF from = "accept" \/ accept THEN "accept" ELSE "refine"

-----------------------------------------------------------------------------
(* ConsultantEngine._run_clarify() *)

\* A request: the modality it names, the one the planner infers from its
\* prompt, the slots it supplies ("absent": not supplied), accept.
Requests == [modality : Modalities \union {None}, inferred : Modalities,
             slots : [Slots -> Values], accept : BOOLEAN]

\* (mutant) The supplied slots replace the stored ones.
MergedOver(r, req) ==
  LET m == Or(Or(req.modality, r.modality), Text) IN
    [k \in Slots |->
       IF k \in Required[m] \union Optional[m] THEN req.slots[k] ELSE "absent"]

\* Slots the modality does not know are dropped, the others overwrite.
Merged(r, req) ==
  LET m == Or(Or(req.modality, r.modality), Text) IN
    [k \in Slots |->
       IF k \in Required[m] \union Optional[m] /\ req.slots[k] # "absent"
         THEN req.slots[k]
         ELSE r.slots[k]]

\* Analysing the request does not look at the session: a request without a
\* modality is analysed for what its prompt suggests.
Analysed(req) == Or(req.modality, req.inferred)

\* The row as the request saves it.
Clarified(r, req) ==
  LET m == Or(Or(req.modality, r.modality), Analysed(req))
      slots == Merged(r, req)
      to == NextState(r.state, m, slots, req.accept)
  IN [modality |-> m, state |-> to, slots |-> slots,
      plan |-> IF to = "generate" THEN Analysed(req) ELSE r.plan]

\* assert_transition() raises before the row is saved.
Saves(r, req) ==
  LET saved == Clarified(r, req) IN
    IF CanTransition(r.state, saved.state) THEN <<saved>> ELSE <<>>

FreshRow(req) ==
  [modality |-> req.modality, state |-> "intake",
   slots |-> [k \in Slots |-> "absent"], plan |-> None]

-----------------------------------------------------------------------------
Init ==
  /\ row = [s \in Sessions |-> None]
  /\ target = [c \in Clients |-> None]
  /\ todo = [c \in Clients |-> <<>>]
  /\ stale = [c \in Clients |-> FALSE]

Receive(c, s, writes) ==
  /\ target[c] = None
  /\ writes # <<>>
  /\ target' = [target EXCEPT ![c] = s]
  /\ todo' = [todo EXCEPT ![c] = writes]
  /\ stale' = [stale EXCEPT ![c] = FALSE]
  /\ UNCHANGED row

\* POST session, for an id or a new one: reads the row; it is created first
\* when there is none.
StartSession(c, s) ==
  \E m \in Modalities \union {None}, inferred \in Modalities :
    LET req == [modality |-> m, inferred |-> inferred,
                slots |-> [k \in Slots |-> "absent"], accept |-> FALSE]
    IN Receive(c, s, IF row[s] = None
                       THEN <<FreshRow(req)>> \o Saves(FreshRow(req), req)
                       ELSE Saves(row[s], req))

\* POST session/advance: the route passes modality=None; an unknown session
\* is a 404.
AdvanceSession(c, s) ==
  /\ row[s] # None
  /\ \E inferred \in Modalities, slots \in [Slots -> Values], accept \in BOOLEAN :
       Receive(c, s, Saves(row[s], [modality |-> None, inferred |-> inferred,
                                    slots |-> slots, accept |-> accept]))

\* SessionStore._write(): INSERT ... ON CONFLICT DO UPDATE replaces the row
\* whatever it holds by now.
WriteRow(c) ==
  /\ todo[c] # <<>>
  /\ LET s == target[c] IN
       /\ row' = [row EXCEPT ![s] = Head(todo[c])]
       /\ stale' = [d \in Clients |->
                      IF d = c THEN FALSE
                      ELSE stale[d] \/ (target[d] = s /\ row'[s] # row[s])]
  /\ todo' = [todo EXCEPT ![c] = Tail(@)]
  /\ target' = [target EXCEPT ![c] = IF Tail(todo[c]) = <<>> THEN None ELSE @]

\* The process dies and is started again: the table is all that is left.
Restart ==
  /\ target' = [c \in Clients |-> None]
  /\ todo' = [c \in Clients |-> <<>>]
  /\ stale' = [c \in Clients |-> FALSE]
  /\ UNCHANGED row

Next ==
  \/ \E c \in Clients, s \in Sessions : StartSession(c, s) \/ AdvanceSession(c, s)
  \/ \E c \in Clients : WriteRow(c)
  \/ Restart

Spec == Init /\ [][Next]_vars

-----------------------------------------------------------------------------
TypeOK ==
  /\ row \in [Sessions -> Rows \union {None}]
  /\ target \in [Clients -> Sessions \union {None}]
  /\ todo \in [Clients -> Seq(Rows)]
  /\ \A c \in Clients : Len(todo[c]) <= 2 /\ (todo[c] # <<>> => target[c] # None)
  /\ stale \in [Clients -> BOOLEAN]

PlanFromGenerateOn ==
  \A s \in Sessions : row[s] # None =>
    (row[s].plan # None <=> row[s].state \in {"generate", "refine", "accept"})

SummaryIsComplete ==
  \A s \in Sessions : row[s] # None =>
    (row[s].state = "summary" =>
       row[s].modality # None /\ Complete(row[s].modality, row[s].slots))

(***************************************************************************)
(* What a dialog knows fits the state it is in: it has an execution plan   *)
(* from Generate on and none before (engine.py:150-169), and it waits in   *)
(* Summary only with a complete checklist for the modality it has there    *)
(* (state_machine.py:1-7).  So it is over restarts, resumed sessions that  *)
(* change the modality, and requests that overwrite each other.            *)
(***************************************************************************)
DialogsAreCoherent == PlanFromGenerateOn /\ SummaryIsComplete

\* The step writes the row of s from a copy that is out of date.
StaleWrite(s) ==
  \E c \in Clients : target[c] = s /\ stale[c] /\ todo'[c] # todo[c]

(***************************************************************************)
(* A dialog moves along the legal transitions, so an accepted one stays    *)
(* accepted: only a request that wrote over another one's change can move  *)
(* it otherwise (engine.py:146-147 checks against the copy it has read).   *)
(***************************************************************************)
MovesAreLegal ==
  [][\A s \in Sessions : row[s] # None /\ row'[s] # row[s] =>
       StaleWrite(s) \/ <<row[s].state, row'[s].state>> \in Allowed]_vars

(***************************************************************************)
(* An answer the user gave is not asked again (spec 4.1.1): a filled slot  *)
(* stays filled, over restarts and changes of modality, unless a request   *)
(* blanks it or writes over another one's change (engine.py:125).          *)
(***************************************************************************)
AnswersAreKept ==
  [][\A s \in Sessions, k \in Slots :
       row[s] # None /\ row[s].slots[k] = "filled" =>
         \/ row'[s].slots[k] \in {"filled", "blank"}
         \/ StaleWrite(s)]_vars
=============================================================================
