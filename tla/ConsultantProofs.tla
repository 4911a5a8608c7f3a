-------------------------- MODULE ConsultantProofs --------------------------
(***************************************************************************)
(* Proofs about ConsultantSession for any set of clients, sessions,        *)
(* modalities and checklists.  The invariants need two facts about the     *)
(* rows that requests have yet to write: every such row is a good row, and *)
(* it follows from the row it will replace unless that row has changed.    *)
(*                                                                         *)
(* Behind them, proofs about the pure algorithms that the dialog and the   *)
(* refine loop call (module Algorithms), for inputs of any size: verdicts, *)
(* masks, prompts, checklists, loops of references, version trees and the  *)
(* plans of rounds.  The two parts share neither names nor state.          *)
(***************************************************************************)
EXTENDS ConsultantSession, Algorithms,
        WellFoundedInduction, FiniteSetTheorems, SequenceTheorems, TLAPS

GoodRow(r) ==
  /\ r \in Rows
  /\ r.plan # None <=> r.state \in {"generate", "refine", "accept"}
  /\ r.state = "summary" => r.modality # None /\ Complete(r.modality, r.slots)

\* What a request may make of the row it has read.
Follows(from, to) ==
  /\ <<from.state, to.state>> \in Allowed
  /\ \A k \in Slots : from.slots[k] = "filled" => to.slots[k] \in {"filled", "blank"}

RowsGood == \A s \in Sessions : row[s] # None => GoodRow(row[s])

TodoGood ==
  \A c \in Clients :
    /\ todo[c] # <<>> => GoodRow(todo[c][1])
    /\ Len(todo[c]) = 2 => GoodRow(todo[c][2]) /\ Follows(todo[c][1], todo[c][2])

TodoFollows ==
  \A c \in Clients :
    todo[c] # <<>> /\ ~stale[c] /\ row[target[c]] # None
      => Follows(row[target[c]], todo[c][1])

IInv == TypeOK /\ RowsGood /\ TodoGood /\ TodoFollows

-----------------------------------------------------------------------------
(***************************************************************************)
(* A request to a session makes a row that keeps the session's promises    *)
(* (engine.py:98-172).                                                     *)
(***************************************************************************)
LEMMA ClarifiedIsGood ==
  ASSUME NEW r, GoodRow(r), NEW req \in Requests,
         CanTransition(r.state, Clarified(r, req).state)
  PROVE  GoodRow(Clarified(r, req)) /\ Follows(r, Clarified(r, req))
<1> DEFINE n == Clarified(r, req)
           m == Or(Or(req.modality, r.modality), Analysed(req))
<1>1. r \in Rows /\ r.slots \in [Slots -> Values] /\ r.state \in States
  BY DEF GoodRow, Rows
<1>2. Analysed(req) \in Modalities /\ Analysed(req) # None
  BY ModalityAssumption DEF Analysed, Or, Requests
<1>3. m \in Modalities /\ m # None
  BY <1>1, <1>2, ModalityAssumption DEF Or, Requests, Rows
<1>4. /\ Merged(r, req) \in [Slots -> Values]
      /\ \A k \in Slots : r.slots[k] = "filled" =>
           Merged(r, req)[k] \in {"filled", "blank"}
  BY <1>1 DEF Merged, Requests, Values
<1>5. /\ n.modality = m
      /\ n.state = NextState(r.state, m, Merged(r, req), req.accept)
      /\ n.slots = Merged(r, req)
      /\ n.plan = IF n.state = "generate" THEN Analysed(req) ELSE r.plan
  BY DEF Clarified
<1>6. /\ n.state \in States
      /\ <<r.state, n.state>> \in Allowed
      /\ n.state = "summary" => Complete(m, Merged(r, req))
      /\ n.state = "generate" => r.state = "summary"
      /\ n.state \in {"refine", "accept"} => r.state \in {"generate", "refine"}
      /\ n.state \in {"clarify", "summary"} => r.state \in {"intake", "clarify"}
  <2>1. CASE r.state \in {"intake", "clarify"}
    BY <1>5, <2>1 DEF NextState, States, Allowed
  <2>2. CASE r.state = "summary"
    BY <1>5, <2>2 DEF NextState, States, Allowed
  <2>3. CASE r.state \in {"generate", "refine"}
    BY <1>5, <2>3 DEF NextState, States, Allowed
  <2>4. CASE r.state = "accept"
    BY <1>5, <2>4 DEF NextState, CanTransition, Allowed
  <2> QED BY <1>1, <2>1, <2>2, <2>3, <2>4 DEF States
<1>7. n \in Rows
  <2>1. n.plan \in Modalities \union {None}
    BY <1>1, <1>2, <1>5 DEF Rows
  <2> QED BY <1>3, <1>4, <1>5, <1>6, <2>1 DEF Clarified, Rows
<1>8. n.plan # None <=> n.state \in {"generate", "refine", "accept"}
  BY <1>1, <1>2, <1>5, <1>6 DEF GoodRow, States, Allowed
<1> QED BY <1>3, <1>4, <1>5, <1>6, <1>7, <1>8 DEF GoodRow, Follows

(***************************************************************************)
(* A row that has just been created is a good row (session_store.py:66-90).*)
(***************************************************************************)
LEMMA FreshIsGood ==
  ASSUME NEW req \in Requests
  PROVE  GoodRow(FreshRow(req))
BY DEF GoodRow, FreshRow, Rows, Requests, States, Values

\* Writes of a request to s that has just read its row.
GoodWrites(s, w) ==
  /\ w \in Seq(Rows) /\ Len(w) <= 2
  /\ w # <<>> => GoodRow(w[1])
  /\ Len(w) = 2 => GoodRow(w[2]) /\ Follows(w[1], w[2])
  /\ w # <<>> /\ row[s] # None => Follows(row[s], w[1])

(***************************************************************************)
(* Serving a request with good writes keeps the invariant.                 *)
(***************************************************************************)
LEMMA ReceiveKeepsInvariant ==
  ASSUME IInv, NEW c \in Clients, NEW s \in Sessions, NEW w,
         GoodWrites(s, w), Receive(c, s, w)
  PROVE  IInv'
<1> USE NoneAssumption DEF Receive
<1>1. TypeOK'
  BY DEF IInv, TypeOK, GoodWrites
<1>2. RowsGood'
  BY DEF IInv, RowsGood, GoodRow, Complete, Missing
<1>3. TodoGood'
  <2> SUFFICES ASSUME NEW d \in Clients
               PROVE  /\ todo'[d] # <<>> => GoodRow(todo'[d][1])
                      /\ Len(todo'[d]) = 2 =>
                           GoodRow(todo'[d][2]) /\ Follows(todo'[d][1], todo'[d][2])
    BY DEF TodoGood
  <2> QED BY DEF IInv, TypeOK, TodoGood, GoodWrites
<1>4. TodoFollows'
  <2> SUFFICES ASSUME NEW d \in Clients, todo'[d] # <<>>, ~stale'[d],
                      row'[target'[d]] # None
               PROVE  Follows(row'[target'[d]], todo'[d][1])
    BY DEF TodoFollows
  <2> QED BY DEF IInv, TypeOK, TodoFollows, GoodWrites
<1> QED BY <1>1, <1>2, <1>3, <1>4 DEF IInv

(***************************************************************************)
(* What a request to an existing session writes.                           *)
(***************************************************************************)
LEMMA SavesAreGood ==
  ASSUME IInv, NEW s \in Sessions, row[s] # None, NEW req \in Requests
  PROVE  GoodWrites(s, Saves(row[s], req))
<1> DEFINE n == Clarified(row[s], req)
<1>1. CASE CanTransition(row[s].state, n.state)
  <2>1. GoodRow(n) /\ Follows(row[s], n)
    BY <1>1, ClarifiedIsGood DEF IInv, RowsGood
  <2>2. Saves(row[s], req) = <<n>>
    BY <1>1 DEF Saves
  <2> HIDE DEF n
  <2> QED BY <2>1, <2>2 DEF GoodWrites, GoodRow
<1>2. CASE ~CanTransition(row[s].state, n.state)
  BY <1>2 DEF Saves, GoodWrites
<1> QED BY <1>1, <1>2

(***************************************************************************)
(* What a request that creates its session writes.                         *)
(***************************************************************************)
LEMMA CreatesAreGood ==
  ASSUME NEW s, row[s] = None, NEW req \in Requests
  PROVE  GoodWrites(s, <<FreshRow(req)>> \o Saves(FreshRow(req), req))
<1> DEFINE f == FreshRow(req)
           n == Clarified(f, req)
<1>1. GoodRow(f)
  BY FreshIsGood
<1>2. CASE CanTransition(f.state, n.state)
  <2>1. GoodRow(n) /\ Follows(f, n)
    BY <1>1, <1>2, ClarifiedIsGood
  <2>2. Saves(f, req) = <<n>>
    BY <1>2 DEF Saves
  <2> HIDE DEF f, n
  <2> DEFINE v == <<f>> \o <<n>>
  <2>3. v \in Seq(Rows) /\ Len(v) = 2 /\ v[1] = f /\ v[2] = n
    <3>1. <<f>> \in Seq(Rows) /\ <<n>> \in Seq(Rows)
      BY <1>1, <2>1 DEF GoodRow
    <3>2. Len(<<f>>) = 1 /\ Len(<<n>>) = 1
      OBVIOUS
    <3>3. /\ v \in Seq(Rows) /\ Len(v) = 2
          /\ \A i \in 1..2 : v[i] = IF i <= 1 THEN <<f>>[i] ELSE <<n>>[i - 1]
      BY <3>1, <3>2, ConcatProperties
    <3> QED BY <3>3
  <2> HIDE DEF v
  <2>4. GoodWrites(s, v)
    BY <1>1, <2>1, <2>3 DEF GoodWrites
  <2> QED BY <2>2, <2>4 DEF f, v
<1>3. CASE ~CanTransition(f.state, n.state)
  <2>1. Saves(f, req) = <<>>
    BY <1>3 DEF Saves
  <2> HIDE DEF f, n
  <2>2. <<f>> \o <<>> = <<f>>
    BY <1>1, ConcatEmptySeq DEF GoodRow
  <2>3. GoodWrites(s, <<f>>)
    BY <1>1 DEF GoodWrites, GoodRow
  <2> QED BY <2>1, <2>2, <2>3 DEF f
<1> QED BY <1>2, <1>3

LEMMA InitInvariant == Init => IInv
<1> SUFFICES ASSUME Init PROVE IInv
  OBVIOUS
<1> USE NoneAssumption DEF Init
<1>1. TypeOK
  BY DEF TypeOK
<1>2. RowsGood /\ TodoGood /\ TodoFollows
  BY DEF RowsGood, TodoGood, TodoFollows
<1> QED BY <1>1, <1>2 DEF IInv

LEMMA StartKeepsInvariant ==
  ASSUME IInv, NEW c \in Clients, NEW s \in Sessions, StartSession(c, s)
  PROVE  IInv'
<1>1. PICK m \in Modalities \union {None}, inferred \in Modalities :
        LET req == [modality |-> m, inferred |-> inferred,
                    slots |-> [k \in Slots |-> "absent"], accept |-> FALSE]
        IN Receive(c, s, IF row[s] = None
                           THEN <<FreshRow(req)>> \o Saves(FreshRow(req), req)
                           ELSE Saves(row[s], req))
  BY DEF StartSession
<1> DEFINE req == [modality |-> m, inferred |-> inferred,
                   slots |-> [k \in Slots |-> "absent"], accept |-> FALSE]
<1>2. req \in Requests
  BY DEF Requests, Values
<1>3. Receive(c, s, IF row[s] = None
                      THEN <<FreshRow(req)>> \o Saves(FreshRow(req), req)
                      ELSE Saves(row[s], req))
  BY <1>1
<1> HIDE DEF req
<1>4. CASE row[s] = None
  <2>1. Receive(c, s, <<FreshRow(req)>> \o Saves(FreshRow(req), req))
    BY <1>3, <1>4
  <2>2. GoodWrites(s, <<FreshRow(req)>> \o Saves(FreshRow(req), req))
    BY <1>2, <1>4, CreatesAreGood
  <2> QED BY <2>1, <2>2, ReceiveKeepsInvariant
<1>5. CASE row[s] # None
  <2>1. Receive(c, s, Saves(row[s], req))
    BY <1>3, <1>5
  <2>2. GoodWrites(s, Saves(row[s], req))
    BY <1>2, <1>5, SavesAreGood
  <2> QED BY <2>1, <2>2, ReceiveKeepsInvariant
<1> QED BY <1>4, <1>5

LEMMA AdvanceKeepsInvariant ==
  ASSUME IInv, NEW c \in Clients, NEW s \in Sessions, AdvanceSession(c, s)
  PROVE  IInv'
<1>1. PICK inferred \in Modalities, slots \in [Slots -> Values], accept \in BOOLEAN :
        Receive(c, s, Saves(row[s], [modality |-> None, inferred |-> inferred,
                                     slots |-> slots, accept |-> accept]))
  BY DEF AdvanceSession
<1> DEFINE req == [modality |-> None, inferred |-> inferred,
                   slots |-> slots, accept |-> accept]
<1>2. req \in Requests
  BY DEF Requests
<1>3. Receive(c, s, Saves(row[s], req))
  BY <1>1
<1> HIDE DEF req
<1>4. GoodWrites(s, Saves(row[s], req))
  BY <1>2, SavesAreGood DEF AdvanceSession
<1> QED BY <1>3, <1>4, ReceiveKeepsInvariant

(***************************************************************************)
(* The rest of a request's writes after the first.                         *)
(***************************************************************************)
LEMMA TailOfTwo ==
  ASSUME NEW S, NEW q \in Seq(S), q # <<>>, Len(q) <= 2
  PROVE  /\ Head(q) = q[1] /\ q[1] \in S
         /\ Tail(q) \in Seq(S)
         /\ Len(Tail(q)) <= 1 /\ Tail(q) # q
         /\ Tail(q) # <<>> => Len(q) = 2 /\ Tail(q)[1] = q[2]
<1>1. Len(q) \in Nat \ {0}
  BY EmptySeq
<1>2. /\ Head(q) \in S /\ Tail(q) \in Seq(S) /\ Len(Tail(q)) = Len(q) - 1
      /\ \A i \in 1..Len(Tail(q)) : Tail(q)[i] = q[i + 1]
  BY HeadTailProperties
<1>3. Head(q) = q[1]
  OBVIOUS
<1>4. Tail(q) # <<>> => Len(Tail(q)) \in Nat \ {0}
  BY <1>2, EmptySeq
<1>5. Tail(q) # <<>> => Len(q) = 2
  BY <1>1, <1>2, <1>4
<1>6. Tail(q) # <<>> => Tail(q)[1] = q[2]
  <2> HAVE Tail(q) # <<>>
  <2>1. Len(Tail(q)) = 1
    BY <1>2, <1>5
  <2>2. Tail(q)[1] = q[1 + 1]
    BY <1>2, <2>1
  <2> QED BY <2>2
<1>7. Tail(q) # q /\ Len(Tail(q)) <= 1
  <2> DEFINE r == Tail(q)
  <2>1. Len(r) = Len(q) - 1 /\ Len(q) \in Nat \ {0} /\ Len(q) <= 2
    BY <1>1, <1>2
  <2> HIDE DEF r
  <2>2. Len(r) <= 1 /\ Len(r) # Len(q)
    BY <2>1
  <2>3. r # q
    BY <2>2
  <2> QED BY <2>2, <2>3 DEF r
<1> QED BY <1>2, <1>3, <1>5, <1>6, <1>7

LEMMA WriteKeepsInvariant ==
  ASSUME IInv, NEW c \in Clients, WriteRow(c)
  PROVE  IInv'
<1> DEFINE s == target[c]
           w == todo[c][1]
           rest == Tail(todo[c])
<1>0. todo[c] \in Seq(Rows) /\ todo[c] # <<>> /\ Len(todo[c]) <= 2 /\ s \in Sessions
  BY DEF IInv, TypeOK, WriteRow
<1>3. /\ Head(todo[c]) = w
      /\ rest \in Seq(Rows) /\ Len(rest) <= 1
      /\ rest # <<>> => Len(todo[c]) = 2 /\ rest[1] = todo[c][2]
  BY <1>0, TailOfTwo
<1>1. /\ row' = [row EXCEPT ![s] = w]
      /\ todo' = [todo EXCEPT ![c] = rest]
      /\ target' = [target EXCEPT ![c] = IF rest = <<>> THEN None ELSE s]
  BY <1>0, <1>3 DEF WriteRow
<1>2. GoodRow(w) /\ w \in Rows
  BY <1>0 DEF IInv, TodoGood, GoodRow
<1> HIDE DEF rest
<1>4. TypeOK'
  <2>1. row' \in [Sessions -> Rows \union {None}]
    BY <1>0, <1>1, <1>2 DEF IInv, TypeOK
  <2>2. target' \in [Clients -> Sessions \union {None}]
    BY <1>0, <1>1 DEF IInv, TypeOK
  <2>3. todo' \in [Clients -> Seq(Rows)]
    BY <1>1, <1>3 DEF IInv, TypeOK
  <2>4. \A d \in Clients :
          Len(todo'[d]) <= 2 /\ (todo'[d] # <<>> => target'[d] # None)
    <3> TAKE d \in Clients
    <3>1. CASE d = c
      BY <1>0, <1>1, <1>3, <3>1, NoneAssumption DEF IInv, TypeOK
    <3>2. CASE d # c
      BY <1>1, <3>2 DEF IInv, TypeOK
    <3> QED BY <3>1, <3>2
  <2>5. stale' \in [Clients -> BOOLEAN]
    BY DEF IInv, TypeOK, WriteRow
  <2> QED BY <2>1, <2>2, <2>3, <2>4, <2>5 DEF TypeOK
<1>5. RowsGood'
  <2> SUFFICES ASSUME NEW t \in Sessions, row'[t] # None PROVE GoodRow(row'[t])
    BY DEF RowsGood, GoodRow, Complete, Missing
  <2> QED BY <1>0, <1>1, <1>2 DEF IInv, TypeOK, RowsGood
<1>6. TodoGood'
  <2> SUFFICES ASSUME NEW d \in Clients
               PROVE  /\ todo'[d] # <<>> => GoodRow(todo'[d][1])
                      /\ Len(todo'[d]) = 2 =>
                           GoodRow(todo'[d][2]) /\ Follows(todo'[d][1], todo'[d][2])
    BY DEF TodoGood
  <2>1. CASE d = c
    BY <1>0, <1>1, <1>3, <2>1 DEF IInv, TypeOK, TodoGood
  <2>2. CASE d # c
    BY <1>1, <2>2 DEF IInv, TypeOK, TodoGood
  <2> QED BY <2>1, <2>2
<1>7. TodoFollows'
  <2> SUFFICES ASSUME NEW d \in Clients, todo'[d] # <<>>, ~stale'[d],
                      row'[target'[d]] # None
               PROVE  Follows(row'[target'[d]], todo'[d][1])
    BY DEF TodoFollows
  <2>1. CASE d = c
    <3>1. target'[c] = s /\ todo'[c][1] = todo[c][2] /\ Len(todo[c]) = 2
      BY <1>0, <1>1, <1>3, <2>1 DEF IInv, TypeOK
    <3>2. row'[s] = w
      BY <1>0, <1>1 DEF IInv, TypeOK
    <3> QED BY <2>1, <3>1, <3>2 DEF IInv, TodoGood
  <2>2. CASE d # c
    <3>1. target'[d] = target[d] /\ todo'[d] = todo[d] /\ target[d] \in Sessions
      BY <1>1, <2>2, NoneAssumption DEF IInv, TypeOK
    <3>2. ~stale[d] /\ ~(target[d] = s /\ row'[s] # row[s])
      BY <2>2 DEF WriteRow
    <3>3. row'[target[d]] = row[target[d]]
      BY <1>1, <3>1, <3>2 DEF IInv, TypeOK
    <3> QED BY <3>1, <3>2, <3>3 DEF IInv, TodoFollows
  <2> QED BY <2>1, <2>2
<1> QED BY <1>4, <1>5, <1>6, <1>7 DEF IInv

LEMMA RestartKeepsInvariant ==
  ASSUME IInv, Restart
  PROVE  IInv'
<1> USE NoneAssumption DEF Restart
<1>1. TypeOK'
  BY DEF IInv, TypeOK
<1>2. RowsGood' /\ TodoGood' /\ TodoFollows'
  BY DEF IInv, RowsGood, TodoGood, TodoFollows, GoodRow, Complete, Missing
<1> QED BY <1>1, <1>2 DEF IInv

LEMMA StutterKeepsInvariant ==
  ASSUME IInv, UNCHANGED vars
  PROVE  IInv'
BY DEF IInv, TypeOK, RowsGood, TodoGood, TodoFollows, vars, GoodRow, Complete, Missing

(***************************************************************************)
(* Whatever requests overlap in engine.py, every row on disk and every row *)
(* that a request has yet to write is a good row, and the latter follows   *)
(* from the former unless that has changed since it was read.              *)
(***************************************************************************)
THEOREM InvariantHolds == Spec => []IInv
<1>1. ASSUME IInv, [Next]_vars PROVE IInv'
  BY <1>1, StartKeepsInvariant, AdvanceKeepsInvariant, WriteKeepsInvariant,
     RestartKeepsInvariant, StutterKeepsInvariant DEF Next
<1> QED BY <1>1, InitInvariant, PTL DEF Spec

(***************************************************************************)
(* Rows, requests and pending writes have the types the code gives them.   *)
(***************************************************************************)
THEOREM TypeCorrect == Spec => []TypeOK
BY InvariantHolds, PTL DEF IInv

(***************************************************************************)
(* A dialog has a plan exactly from Generate on, and in Summary every      *)
(* required slot of its modality is filled, whatever requests overlap and  *)
(* for any checklist tables (engine.py:150-169, state_machine.py:125-152). *)
(***************************************************************************)
THEOREM DialogsStayCoherent == Spec => []DialogsAreCoherent
<1>1. IInv => DialogsAreCoherent
  BY DEF IInv, RowsGood, GoodRow, PlanFromGenerateOn, SummaryIsComplete, DialogsAreCoherent
<1> QED BY <1>1, InvariantHolds, PTL

(***************************************************************************)
(* Only WriteRow changes a row, and it changes the row of one session.     *)
(***************************************************************************)
LEMMA ChangedRow ==
  ASSUME IInv, [Next]_vars, NEW s \in Sessions, row'[s] # row[s], row[s] # None
  PROVE  StaleWrite(s) \/ Follows(row[s], row'[s])
<1>1. PICK c \in Clients : WriteRow(c)
  BY DEF Next, StartSession, AdvanceSession, Receive, Restart, vars
<1>2. /\ todo[c] \in Seq(Rows) /\ todo[c] # <<>> /\ Len(todo[c]) <= 2
      /\ target[c] \in Sessions
  BY <1>1 DEF IInv, TypeOK, WriteRow
<1>3. Head(todo[c]) = todo[c][1] /\ Tail(todo[c]) # todo[c]
  BY <1>2, TailOfTwo
<1>4. target[c] = s /\ row'[s] = todo[c][1]
  BY <1>1, <1>2, <1>3 DEF IInv, TypeOK, WriteRow
<1>5. CASE stale[c]
  <2>1. todo'[c] = Tail(todo[c])
    BY <1>1 DEF IInv, TypeOK, WriteRow
  <2> QED BY <1>3, <1>4, <1>5, <2>1 DEF StaleWrite
<1>6. CASE ~stale[c]
  BY <1>2, <1>4, <1>6 DEF IInv, TodoFollows
<1> QED BY <1>5, <1>6 DEF IInv, TypeOK

(***************************************************************************)
(* Only a write over a change the request has not seen can move a dialog   *)
(* other than along a legal transition (engine.py:146-147).                *)
(***************************************************************************)
THEOREM DialogsMoveLegally == Spec => MovesAreLegal
<1>1. ASSUME IInv, [Next]_vars
      PROVE  \A s \in Sessions : row[s] # None /\ row'[s] # row[s] =>
               StaleWrite(s) \/ <<row[s].state, row'[s].state>> \in Allowed
  BY <1>1, ChangedRow DEF Follows
<1> QED BY <1>1, InvariantHolds, PTL DEF Spec, MovesAreLegal

(***************************************************************************)
(* Only such a write, or a request that blanks it, can take back an answer *)
(* (engine.py:125).                                                        *)
(***************************************************************************)
THEOREM AnswersStay == Spec => AnswersAreKept
<1>1. ASSUME IInv, [Next]_vars
      PROVE  \A s \in Sessions, k \in Slots :
               row[s] # None /\ row[s].slots[k] = "filled" =>
                 \/ row'[s].slots[k] \in {"filled", "blank"}
                 \/ StaleWrite(s)
  BY <1>1, ChangedRow DEF Follows
<1> QED BY <1>1, InvariantHolds, PTL DEF Spec, AnswersAreKept

\* The least-number principle for sets.
LEMMA LeastNumber ==
  ASSUME NEW T, T \subseteq Nat, T # {}
  PROVE  \E n \in T : \A m \in T : n <= m
<1> DEFINE less == OpToRel(<, Nat)
<1>1. IsWellFoundedOn(less, Nat)
  BY NatLessThanWellFounded
<1>2. \A x, y \in Nat : y < x => <<y, x>> \in less
  BY DEF OpToRel
<1> HIDE DEF less
<1>3. PICK n \in T : \A m \in T : <<m, n>> \notin less
  BY <1>1, WFMin
<1>4. ASSUME NEW m \in T PROVE n <= m
  <2>1. m \in Nat /\ n \in Nat
    OBVIOUS
  <2>2. ~(m < n)
    BY <1>2, <1>3, <2>1
  <2> QED
    BY <2>1, <2>2
<1> QED
  BY <1>4

\* Induction, for sets of numbers.
LEMMA InductionOnNat ==
  ASSUME NEW S, 0 \in S, \A n \in Nat : n \in S => n + 1 \in S
  PROVE  Nat \subseteq S
<1> DEFINE T == Nat \ S
<1> SUFFICES ASSUME T # {} PROVE FALSE
  OBVIOUS
<1>1. PICK n \in T : \A m \in T : n <= m
  BY LeastNumber
<1>2. n # 0 /\ n - 1 \in Nat /\ n - 1 \notin T
  BY <1>1
<1> QED
  BY <1>2

\* A function on the numbers can be defined by what follows each of its values.
Unrolls(f, a, step) == f[0] = a /\ \A n \in Nat : f[n + 1] = step[<<n, f[n]>>]

LEMMA RecursionOnNat ==
  ASSUME NEW A, NEW a \in A, NEW step \in [Nat \X A -> A]
  PROVE  \E f \in [Nat -> A] : Unrolls(f, a, step)
<1> DEFINE Runs(n) == {g \in [0..n -> A] : /\ g[0] = a
                                            /\ \A i \in 0..n - 1 : g[i + 1] = step[<<i, g[i]>>]}
           S == {n \in Nat : Runs(n) # {}}
           Q == {n \in Nat : \A m \in Nat : n <= m => \A g \in Runs(n), h \in Runs(m) : g[n] = h[n]}
<1>1. Nat \subseteq S
  <2>1. 0 \in S
    <3>1. [i \in 0..0 |-> a] \in Runs(0)
      OBVIOUS
    <3> QED
      BY <3>1
  <2>2. ASSUME NEW n \in Nat, n \in S PROVE n + 1 \in S
    <3>1. PICK g : g \in Runs(n)
      BY <2>2
    <3> DEFINE h == [i \in 0..n + 1 |-> IF i = n + 1 THEN step[<<n, g[n]>>] ELSE g[i]]
    <3>2. g \in [0..n -> A] /\ g[n] \in A
      BY <3>1
    <3>3. h \in [0..n + 1 -> A]
      BY <3>2
    <3>4. h[0] = a
      BY <3>1
    <3>5. \A i \in 0..n : h[i + 1] = step[<<i, h[i]>>]
      <4> SUFFICES ASSUME NEW i \in 0..n PROVE h[i + 1] = step[<<i, h[i]>>]
        OBVIOUS
      <4>1. CASE i = n
        <5>1. h[i + 1] = step[<<n, g[n]>>] /\ h[i] = g[n]
          BY <4>1
        <5> QED
          BY <4>1, <5>1
      <4>2. CASE i # n
        <5>1. i \in 0..n - 1 /\ i + 1 # n + 1 /\ i # n + 1 /\ i + 1 \in 0..n + 1 /\ i \in 0..n + 1
          BY <4>2
        <5>2. h[i + 1] = g[i + 1] /\ h[i] = g[i]
          BY <5>1
        <5> QED
          BY <3>1, <5>1, <5>2
      <4> QED
        BY <4>1, <4>2
    <3>6. h \in Runs(n + 1)
      <4> HIDE DEF h
      <4>1. n + 1 - 1 = n
        OBVIOUS
      <4> QED
        BY <3>3, <3>4, <3>5, <4>1
    <3>7. n + 1 \in Nat
      OBVIOUS
    <3> HIDE DEF Runs, h
    <3> QED
      BY <3>6, <3>7
  <2> HIDE DEF S
  <2> QED
    BY <2>1, <2>2, InductionOnNat
<1>2. Nat \subseteq Q
  <2>1. 0 \in Q
    OBVIOUS
  <2>2. ASSUME NEW n \in Nat, n \in Q PROVE n + 1 \in Q
    <3> HIDE DEF Runs
    <3> SUFFICES ASSUME NEW m \in Nat, n + 1 <= m, NEW g \in Runs(n + 1), NEW h \in Runs(m)
                 PROVE  g[n + 1] = h[n + 1]
      OBVIOUS
    <3> USE DEF Runs
    <3> DEFINE k == [i \in 0..n |-> g[i]]
    <3>1. k \in Runs(n)
      <4>1. /\ g \in [0..n + 1 -> A] /\ g[0] = a
            /\ \A i \in 0..(n + 1) - 1 : g[i + 1] = step[<<i, g[i]>>]
        OBVIOUS
      <4>2. /\ \A i \in 0..n : i \in 0..n + 1
            /\ \A i \in 0..n - 1 : i \in 0..(n + 1) - 1 /\ i \in 0..n /\ i + 1 \in 0..n
            /\ 0 \in 0..n
        OBVIOUS
      <4>3. k \in [0..n -> A] /\ \A i \in 0..n : k[i] = g[i]
        BY <4>1, <4>2
      <4> HIDE DEF k
      <4>4. k[0] = a /\ \A i \in 0..n - 1 : k[i + 1] = step[<<i, k[i]>>]
        BY <4>1, <4>2, <4>3
      <4> QED
        BY <4>3, <4>4
    <3>2. k[n] = g[n]
      OBVIOUS
    <3>4. k[n] = h[n]
      <4>1. n <= m
        OBVIOUS
      <4> HIDE DEF k, Runs
      <4> QED
        BY <2>2, <3>1, <4>1
    <3>3. g[n + 1] = step[<<n, g[n]>>] /\ h[n + 1] = step[<<n, h[n]>>]
      OBVIOUS
    <3> QED
      BY <3>2, <3>3, <3>4
  <2> HIDE DEF Q
  <2> QED
    BY <2>1, <2>2, InductionOnNat
<1> DEFINE run(n) == CHOOSE g : g \in Runs(n)
           f == [n \in Nat |-> run(n)[n]]
<1>3. \A n \in Nat : run(n) \in Runs(n)
  BY <1>1
<1> HIDE DEF run
<1>4. f \in [Nat -> A]
  BY <1>3
<1>5. f[0] = a
  BY <1>3
<1>6. ASSUME NEW n \in Nat PROVE f[n + 1] = step[<<n, f[n]>>]
  <2>1. run(n + 1)[n + 1] = step[<<n, run(n + 1)[n]>>]
    BY <1>3
  <2>2. run(n)[n] = run(n + 1)[n]
    <3>1. n \in Q /\ n <= n + 1 /\ n + 1 \in Nat
      BY <1>2
    <3> HIDE DEF Runs
    <3> QED
      BY <1>3, <3>1
  <2> QED
    BY <2>1, <2>2
<1> HIDE DEF f
<1> QED
  BY <1>4, <1>5, <1>6 DEF Unrolls


\* So can one on the numbers up to a bound.
UnrollsUpTo(N, f, a, step) == f = [n \in 0..N |-> IF n = 0 THEN a ELSE step[<<n, f[n - 1]>>]]

LEMMA RecursionUpTo ==
  ASSUME NEW N \in Nat, NEW A, NEW a \in A, NEW step \in [(1..N) \X A -> A]
  PROVE  \E f \in [0..N -> A] : UnrollsUpTo(N, f, a, step)
<1> DEFINE any == [x \in Nat \X A |-> IF x[1] + 1 \in 1..N THEN step[<<x[1] + 1, x[2]>>] ELSE x[2]]
<1>1. any \in [Nat \X A -> A]
  OBVIOUS
<1>2. \A n \in Nat, x \in A : n + 1 <= N => any[<<n, x>>] = step[<<n + 1, x>>]
  OBVIOUS
<1> HIDE DEF any
<1>3. PICK f \in [Nat -> A] : f[0] = a /\ \A n \in Nat : f[n + 1] = any[<<n, f[n]>>]
  <2>1. \E f \in [Nat -> A] : Unrolls(f, a, any)
    BY <1>1, RecursionOnNat
  <2> QED
    BY <2>1 DEF Unrolls
<1> DEFINE h == [n \in 0..N |-> f[n]]
<1>4. h \in [0..N -> A]
  OBVIOUS
<1>5. \A n \in 0..N : h[n] = IF n = 0 THEN a ELSE step[<<n, h[n - 1]>>]
  <2> SUFFICES ASSUME NEW n \in 0..N, n # 0 PROVE h[n] = step[<<n, h[n - 1]>>]
    BY <1>3
  <2>1. n - 1 \in Nat /\ n - 1 \in 0..N /\ (n - 1) + 1 = n
    OBVIOUS
  <2>2. f[n] = any[<<n - 1, f[n - 1]>>] /\ f[n - 1] \in A
    BY <1>3, <2>1
  <2> QED
    BY <1>2, <2>1, <2>2
<1>6. h = [n \in 0..N |-> IF n = 0 THEN a ELSE step[<<n, h[n - 1]>>]]
  BY <1>5
<1> HIDE DEF h
<1> QED
  BY <1>4, <1>6 DEF UnrollsUpTo

-----------------------------------------------------------------------------
(***************************************************************************)
(* The verdicts that the rounds are judged by: critique(), for one check.  *)
(***************************************************************************)
BoxesOf == [x0 : Int, y0 : Int, x1 : Int, y1 : Int]
AnswersSaying(words) == [said : words, confidence : 0..10, box : BoxesOf \cup {Nowhere}]
FirstAnswers == AnswersSaying({"pass", "fail", "missing"})
SecondAnswers == AnswersSaying({"pass", "fail", "missing", "none"})

\* The four gates before the second opinion.
Gated(a, b, region) == PassGate(FailGates(TwoPass(Parse(a), Parse(b)), region))

LEMMA GatedIsFirst ==
  ASSUME NEW a, NEW b, NEW check
  PROVE  FirstVerdict(a, b, check) = Gated(a, b, check.region)
BY DEF FirstVerdict, Gated

LEMMA ParsedAnswers ==
  ASSUME NEW a \in FirstAnswers
  PROVE  /\ Parse(a) = [verdict |-> Parse(a).verdict, confidence |-> Parse(a).confidence,
                        box |-> Parse(a).box]
         /\ Parse(a).verdict \in {"pass", "fail"}
         /\ Parse(a).verdict = "fail" <=> a.said = "fail"
         /\ a.said # "missing" => Parse(a).box = a.box /\ Parse(a).confidence = a.confidence
         /\ a.said = "missing" => Parse(a).box = Nowhere
BY DEF Parse, FirstAnswers, AnswersSaying

\* A fail is of both passes, with a place of the right kind; a pass has a place and
\* confidence, and is of one of the passes or of a place of the wrong kind.
LEMMA GatesAreSound ==
  ASSUME NEW a \in FirstAnswers, NEW b \in FirstAnswers, NEW region
  PROVE  /\ Gated(a, b, region) = [verdict |-> Gated(a, b, region).verdict,
                                   confidence |-> Gated(a, b, region).confidence,
                                   box |-> Gated(a, b, region).box]
         /\ Gated(a, b, region).verdict \in {"pass", "fail", "unverified"}
         /\ Gated(a, b, region).verdict = "fail" =>
              a.said = "fail" /\ b.said = "fail" /\ Precise(a) /\ RegionCompatible(region, a.box)
         /\ Gated(a, b, region).verdict = "pass" =>
              /\ Precise(a) /\ a.confidence >= MinConfidence
              /\ a.said = "fail" /\ b.said = "fail" => ~RegionCompatible(region, a.box)
<1> DEFINE p == TwoPass(Parse(a), Parse(b))
           f == FailGates(p, region)
           r == PassGate(f)
<1>1. /\ p = [verdict |-> p.verdict, confidence |-> p.confidence, box |-> p.box]
      /\ p.verdict = (IF a.said = "fail" /\ b.said = "fail" THEN "fail" ELSE "pass")
      /\ p.confidence = Parse(a).confidence /\ p.box = Parse(a).box
  BY ParsedAnswers DEF TwoPass
<1>2. a.said \in {"pass", "fail", "missing"} /\ a.confidence \in 0..10
  BY DEF FirstAnswers, AnswersSaying
<1>3. a.said # "missing" => p.box = a.box /\ p.confidence = a.confidence
  BY <1>1, ParsedAnswers
<1>4. a.said = "missing" => p.box = Nowhere
  BY <1>1, ParsedAnswers
<1> HIDE DEF p
<1>5. /\ f = [verdict |-> f.verdict, confidence |-> f.confidence, box |-> f.box]
      /\ f.confidence = p.confidence /\ f.box = p.box
      /\ f.verdict = (IF /\ p.verdict = "fail" /\ p.box # Nowhere /\ ~TooLarge(p.box)
                         /\ RegionCompatible(region, p.box)
                      THEN "fail" ELSE "pass")
  BY <1>1 DEF FailGates
<1> HIDE DEF f
<1>6. /\ r = [verdict |-> r.verdict, confidence |-> r.confidence, box |-> r.box]
      /\ r.verdict = (IF f.verdict = "fail" THEN "fail"
                      ELSE IF f.box = Nowhere \/ TooLarge(f.box) \/ f.confidence < MinConfidence
                      THEN "unverified" ELSE "pass")
  BY <1>5 DEF PassGate
<1>7. r = Gated(a, b, region)
  BY DEF Gated, p, f
<1> HIDE DEF r
<1>8. r.verdict = "fail" =>
        a.said = "fail" /\ b.said = "fail" /\ Precise(a) /\ RegionCompatible(region, a.box)
  BY <1>1, <1>3, <1>5, <1>6 DEF Precise
<1>9. r.verdict = "pass" =>
        /\ Precise(a) /\ a.confidence >= MinConfidence
        /\ a.said = "fail" /\ b.said = "fail" => ~RegionCompatible(region, a.box)
  <2> SUFFICES ASSUME r.verdict = "pass"
               PROVE  /\ Precise(a) /\ a.confidence >= MinConfidence
                      /\ a.said = "fail" /\ b.said = "fail" => ~RegionCompatible(region, a.box)
    OBVIOUS
  <2>1. f.verdict = "pass" /\ p.box # Nowhere /\ ~TooLarge(p.box) /\ ~(p.confidence < MinConfidence)
    BY <1>5, <1>6
  <2>2. Precise(a) /\ p.box = a.box /\ p.confidence = a.confidence
    BY <1>3, <1>4, <2>1 DEF Precise
  <2>3. a.confidence >= MinConfidence
    BY <1>2, <2>1, <2>2, CriticAssumption
  <2>4. a.said = "fail" /\ b.said = "fail" => ~RegionCompatible(region, a.box)
    BY <1>1, <1>5, <2>1, <2>2
  <2> QED
    BY <2>2, <2>3, <2>4
<1> QED
  BY <1>6, <1>7, <1>8, <1>9

(***************************************************************************)
(* Whatever the boxes, confidences and image sizes, and whatever the first *)
(* model leaves out: no fail comes of one model's single answer, and no    *)
(* pass without a place and confidence behind it or a second opinion that  *)
(* says pass, unless the second model was asked and leaves the check out   *)
(* of its answer, which the code takes as a pass (critic_support.py:66-70, *)
(* vision.py).                                                             *)
(***************************************************************************)
THEOREM VerdictsHaveGround ==
  ASSUME NEW a \in FirstAnswers, NEW b \in FirstAnswers, NEW opinion \in SecondAnswers,
         NEW region \in DOMAIN RegionVerticalBand, NEW fineDetail \in BOOLEAN,
         NEW mode \in {"off", "gemini", "openai"}, NEW online \in BOOLEAN
  PROVE  VerdictHasGround(a, b, [region |-> region, fineDetail |-> fineDetail], opinion, mode, online)
<1> DEFINE check == [region |-> region, fineDetail |-> fineDetail]
           r == Gated(a, b, region)
           verdict == Critique(a, b, check, opinion, mode, online).verdict
           asked == SecondOpinionCalled(mode, online)
<1>1. check.region = region /\ check.fineDetail = fineDetail
  OBVIOUS
<1>0. FirstVerdict(a, b, check) = r
  BY <1>1, GatedIsFirst
<1> HIDE DEF check
<1>2. CASE mode = "off" \/ ~NeedsOpinion(r, fineDetail)
  <2>1. verdict = r.verdict
    BY <1>0, <1>1, <1>2 DEF Critique
  <2>2. verdict = "fail" =>
          a.said = "fail" /\ b.said = "fail" /\ Precise(a) /\ RegionCompatible(region, a.box)
    BY <2>1, GatesAreSound
  <2>3. verdict = "pass" =>
          /\ Precise(a) /\ a.confidence >= MinConfidence
          /\ a.said = "fail" /\ b.said = "fail" => ~RegionCompatible(region, a.box)
    BY <2>1, GatesAreSound
  <2>4. verdict = "pass" => ~fineDetail \/ mode = "off"
    BY <1>2, <2>1 DEF NeedsOpinion
  <2> HIDE DEF verdict
  <2>5. VerdictHasGround(a, b, check, opinion, mode, online)
    BY <1>1, <2>2, <2>3, <2>4 DEF VerdictHasGround, verdict
  <2> QED
    BY <2>5 DEF check
<1>3. CASE ~(mode = "off" \/ ~NeedsOpinion(r, fineDetail))
  <2>1. /\ r = [verdict |-> r.verdict, confidence |-> r.confidence, box |-> r.box]
        /\ opinion = [said |-> opinion.said, confidence |-> opinion.confidence, box |-> opinion.box]
        /\ opinion.said \in {"pass", "fail", "missing", "none"}
    BY GatesAreSound DEF SecondAnswers, AnswersSaying
  <2>2. verdict = Reconcile(r, IF SecondOpinionCalled(mode, online) THEN opinion
                               ELSE [opinion EXCEPT !.said = "none"]).verdict
    BY <1>0, <1>1, <1>3 DEF Critique
  <2> HIDE DEF r, verdict
  <2>3. ~asked \/ opinion.said = "none" => verdict = "unverified"
    BY <2>1, <2>2 DEF Reconcile
  <2>4. asked /\ opinion.said # "none" => verdict = (IF opinion.said = "fail" THEN "fail" ELSE "pass")
    BY <2>1, <2>2 DEF Reconcile, Parse
  <2>5. verdict = "fail" => asked /\ opinion.said = "fail"
    BY <2>3, <2>4
  <2>6. verdict = "pass" => asked /\ opinion.said \in {"pass", "missing"}
    BY <2>1, <2>3, <2>4
  <2>7. opinion.said = "missing" /\ asked => LeftOut(a, b, check, opinion, mode, online)
    BY <1>0, <1>1, <1>3 DEF LeftOut
  <2>8. VerdictHasGround(a, b, check, opinion, mode, online)
    BY <2>5, <2>6, <2>7 DEF VerdictHasGround, verdict
  <2> QED
    BY <2>8 DEF check
<1> QED
  BY <1>2, <1>3

-----------------------------------------------------------------------------
(***************************************************************************)
(* The mask that a round repaints with: build_mask_png().                  *)
(***************************************************************************)
MaskRegions == [x0 : Int, x1 : Int, y0 : Int, y1 : Int, dilate : Nat, feather : Nat]

LEMMA MaxIs ==
  ASSUME NEW S \in SUBSET Int, NEW m \in S, \A y \in S : m >= y
  PROVE  Max(S) = m
<1>1. Max(S) \in S /\ \A y \in S : Max(S) >= y
  BY DEF Max
<1>2. Max(S) >= m /\ m >= Max(S) /\ Max(S) \in Int /\ m \in Int
  BY <1>1
<1> HIDE DEF Max
<1> QED
  BY <1>2

LEMMA MinIs ==
  ASSUME NEW S \in SUBSET Int, NEW m \in S, \A y \in S : m <= y
  PROVE  Min(S) = m
<1>1. Min(S) \in S /\ \A y \in S : Min(S) <= y
  BY DEF Min
<1>2. Min(S) <= m /\ m <= Min(S) /\ Min(S) \in Int /\ m \in Int
  BY <1>1
<1> HIDE DEF Min
<1> QED
  BY <1>2

LEMMA MaxOfTwo ==
  ASSUME NEW a \in Int, NEW b \in Int
  PROVE  Max({a, b}) = IF a >= b THEN a ELSE b
<1>1. CASE a >= b
  BY <1>1, MaxIs
<1>2. CASE ~(a >= b)
  BY <1>2, MaxIs
<1> QED
  BY <1>1, <1>2

LEMMA MinOfTwo ==
  ASSUME NEW a \in Int, NEW b \in Int
  PROVE  Min({a, b}) = IF a <= b THEN a ELSE b
<1>1. CASE a <= b
  BY <1>1, MinIs
<1>2. CASE ~(a <= b)
  BY <1>2, MinIs
<1> QED
  BY <1>1, <1>2

LEMMA MinOfFour ==
  ASSUME NEW a \in Int, NEW b \in Int, NEW c \in Int, NEW d \in Int
  PROVE  LET m == Min({a, b, c, d}) IN
         m \in {a, b, c, d} /\ m <= a /\ m <= b /\ m <= c /\ m <= d
<1> DEFINE S == {a, b, c, d}
<1>1. \E m \in S : \A y \in S : m <= y
  <2>1. PICK e \in {a, b} : e <= a /\ e <= b
    OBVIOUS
  <2>2. PICK f \in {c, d} : f <= c /\ f <= d
    OBVIOUS
  <2>3. PICK m \in {e, f} : m <= e /\ m <= f
    OBVIOUS
  <2>4. m <= a /\ m <= b /\ m <= c /\ m <= d
    BY <2>1, <2>2, <2>3
  <2> QED
    BY <2>4
<1>2. PICK m \in S : \A y \in S : m <= y
  BY <1>1
<1>3. Min(S) = m
  BY <1>2, MinIs
<1> QED
  BY <1>2, <1>3

\* A set of values of pixels that is not empty has a largest one.
LEMMA MaxOfValues ==
  ASSUME NEW n \in Nat, NEW S \in SUBSET (0..n), S # {}
  PROVE  Max(S) \in S /\ \A y \in S : Max(S) >= y
<1> DEFINE less == OpToRel(<, Nat)
           below == {n - y : y \in S}
<1>1. below \subseteq Nat /\ below # {}
  OBVIOUS
<1>2. IsWellFoundedOn(less, Nat)
  BY NatLessThanWellFounded
<1>3. \A x, y \in Nat : y < x => <<y, x>> \in less
  BY DEF OpToRel
<1> HIDE DEF less
<1>4. PICK x \in below : \A y \in below : <<y, x>> \notin less
  <2> HIDE DEF below
  <2> QED
    BY <1>1, <1>2, WFMin
<1>5. PICK m \in S : x = n - m
  BY <1>4
<1>6. ASSUME NEW y \in S PROVE m >= y
  <2>1. n - y \in below /\ n - y \in Nat /\ x \in Nat
    BY <1>1
  <2>2. ~(n - y < x)
    BY <1>3, <1>4, <2>1
  <2>3. m \in Int /\ y \in Int
    OBVIOUS
  <2> QED
    BY <1>5, <2>2, <2>3
<1>7. Max(S) = m
  BY <1>6, MaxIs
<1> QED
  BY <1>6, <1>7

\* The box of a region is cut off at the image and keeps the pixels of the image.
LEMMA ClampedIs ==
  ASSUME NEW g \in MaskRegions
  PROVE  /\ Clamped(g) \in MaskRegions
         /\ Clamped(g).dilate = g.dilate /\ Clamped(g).feather = g.feather
         /\ \A p \in Pixels : Covers(g, p) => Covers(Clamped(g), p)
<1>1. Width \in Nat /\ Height \in Nat
  BY MaskAssumption
<1>2. /\ g.x0 \in Int /\ g.x1 \in Int /\ g.y0 \in Int /\ g.y1 \in Int
  BY DEF MaskRegions
<1> DEFINE x0 == Within(g.x0, 0, Width)
           y0 == Within(g.y0, 0, Height)
           x1 == Max({x0, Min({g.x1, Width})})
           y1 == Max({y0, Min({g.y1, Height})})
<1>3. /\ x0 \in Int /\ y0 \in Int
      /\ \A v \in 0..Width - 1 : v >= g.x0 => v >= x0
      /\ \A v \in 0..Height - 1 : v >= g.y0 => v >= y0
  BY <1>1, <1>2 DEF Within
<1> HIDE DEF x0, y0
<1>4. x1 \in Int /\ \A v \in 0..Width - 1 : v < g.x1 => v < x1
  <2>1. /\ Min({g.x1, Width}) \in Int
        /\ \A v \in 0..Width - 1 : v < g.x1 => v < Min({g.x1, Width})
    BY <1>1, <1>2, MinOfTwo
  <2> DEFINE far == Min({g.x1, Width})
  <2> HIDE DEF far
  <2>2. x1 = IF x0 >= far THEN x0 ELSE far
    BY <1>3, <2>1, MaxOfTwo DEF far
  <2> HIDE DEF x1
  <2> QED
    BY <1>1, <1>3, <2>1, <2>2 DEF far
<1>5. y1 \in Int /\ \A v \in 0..Height - 1 : v < g.y1 => v < y1
  <2>1. /\ Min({g.y1, Height}) \in Int
        /\ \A v \in 0..Height - 1 : v < g.y1 => v < Min({g.y1, Height})
    BY <1>1, <1>2, MinOfTwo
  <2> DEFINE far == Min({g.y1, Height})
  <2> HIDE DEF far
  <2>2. y1 = IF y0 >= far THEN y0 ELSE far
    BY <1>3, <2>1, MaxOfTwo DEF far
  <2> HIDE DEF y1
  <2> QED
    BY <1>1, <1>3, <2>1, <2>2 DEF far
<1>6. Clamped(g) = [g EXCEPT !.x0 = x0, !.y0 = y0, !.x1 = x1, !.y1 = y1]
  BY DEF Clamped, x0, y0
<1> HIDE DEF x1, y1
<1>7. /\ Clamped(g) \in MaskRegions
      /\ Clamped(g).dilate = g.dilate /\ Clamped(g).feather = g.feather
      /\ Clamped(g).x0 = x0 /\ Clamped(g).x1 = x1 /\ Clamped(g).y0 = y0 /\ Clamped(g).y1 = y1
  BY <1>3, <1>4, <1>5, <1>6 DEF MaskRegions
<1>8. ASSUME NEW p \in Pixels, Covers(g, p) PROVE Covers(Clamped(g), p)
  <2>1. p[1] \in 0..Width - 1 /\ p[2] \in 0..Height - 1
    BY DEF Pixels
  <2>2. /\ p[1] >= g.x0 /\ p[1] < g.x1 /\ p[2] >= g.y0 /\ p[2] < g.y1
    BY <1>2, <1>8, <2>1 DEF Covers
  <2>3. /\ p[1] >= x0 /\ p[1] < x1 /\ p[2] >= y0 /\ p[2] < y1
    BY <1>3, <1>4, <1>5, <2>1, <2>2
  <2> QED
    BY <1>1, <1>3, <1>4, <1>5, <1>7, <2>1, <2>3 DEF Covers
<1> QED
  BY <1>7, <1>8

\* A feathered border fades between nothing and everything.
LEMMA FadesWithin ==
  ASSUME NEW f \in Nat, NEW d \in 0..f - 1
  PROVE  ((d + 1) * Scale) \div f \in 0..Scale
<1> DEFINE n == (d + 1) * Scale
           q == n \div f
<1>1. Scale \in Nat /\ f > 0 /\ d \in Nat /\ d + 1 <= f
  BY MaskAssumption
<1>2. n \in Nat /\ n <= f * Scale
  BY <1>1
<1> HIDE DEF n
<1>3. q \in Nat /\ f * q <= n
  BY <1>1, <1>2
<1> HIDE DEF q
<1>4. q <= Scale
  <2> SUFFICES ASSUME q > Scale PROVE FALSE
    BY <1>1, <1>3
  <2>1. q >= Scale + 1
    BY <1>1, <1>3
  <2>2. f * q >= f * (Scale + 1) /\ f * (Scale + 1) = f * Scale + f
    BY <1>1, <1>3, <2>1
  <2> QED
    BY <1>1, <1>2, <1>3, <2>2
<1> QED
  BY <1>1, <1>3, <1>4 DEF q, n

\* What a region says of a pixel: nothing beyond its dilated box, and everything
\* within the box itself unless the border is wider than the dilation.
LEMMA RegionValueIs ==
  ASSUME NEW g \in MaskRegions, NEW p \in Pixels
  PROVE  /\ RegionValue(g, p) \in 0..Scale
         /\ ~Covers(Dilated(Clamped(g)), p) => RegionValue(g, p) = 0
         /\ Covers(g, p) /\ g.feather <= g.dilate => RegionValue(g, p) = Scale
<1> DEFINE k == Clamped(g)
           e == Dilated(k)
<1>1. /\ k \in MaskRegions /\ k.dilate = g.dilate /\ k.feather = g.feather
      /\ Covers(g, p) => Covers(k, p)
  BY ClampedIs
<1> HIDE DEF k
<1>2. /\ k.x0 \in Int /\ k.x1 \in Int /\ k.y0 \in Int /\ k.y1 \in Int
      /\ g.dilate \in Nat /\ g.feather \in Nat
  BY <1>1 DEF MaskRegions
<1>3. /\ e.x0 = k.x0 - g.dilate /\ e.x1 = k.x1 + g.dilate
      /\ e.y0 = k.y0 - g.dilate /\ e.y1 = k.y1 + g.dilate
  BY <1>1 DEF Dilated, MaskRegions
<1>4. /\ e.x0 \in Int /\ e.x1 \in Int /\ e.y0 \in Int /\ e.y1 \in Int
  BY <1>2, <1>3
<1>5. p[1] \in Int /\ p[2] \in Int
  BY MaskAssumption DEF Pixels
<1>6. Covers(e, p) <=> e.x0 <= p[1] /\ p[1] <= e.x1 - 1 /\ e.y0 <= p[2] /\ p[2] <= e.y1 - 1
  BY <1>4, <1>5 DEF Covers
<1>7. Covers(k, p) <=> k.x0 <= p[1] /\ p[1] <= k.x1 - 1 /\ k.y0 <= p[2] /\ p[2] <= k.y1 - 1
  BY <1>2, <1>5 DEF Covers
<1>8. RegionValue(g, p) = IF Covers(e, p) THEN Ramp(g, e, p) ELSE 0
  BY DEF RegionValue, k
<1> DEFINE distance == Min({p[1] - e.x0, e.x1 - 1 - p[1], p[2] - e.y0, e.y1 - 1 - p[2]})
<1>9. /\ distance \in {p[1] - e.x0, e.x1 - 1 - p[1], p[2] - e.y0, e.y1 - 1 - p[2]}
      /\ distance \in Int
  <2> DEFINE west == p[1] - e.x0
             east == e.x1 - 1 - p[1]
             north == p[2] - e.y0
             south == e.y1 - 1 - p[2]
  <2>1. west \in Int /\ east \in Int /\ north \in Int /\ south \in Int
    BY <1>4, <1>5
  <2> HIDE DEF west, east, north, south
  <2>2. Min({west, east, north, south}) \in {west, east, north, south}
    BY <2>1, MinOfFour
  <2>3. Min({west, east, north, south}) \in Int
    BY <2>1, <2>2
  <2> QED
    BY <2>2, <2>3 DEF west, east, north, south
<1>10. Ramp(g, e, p) = IF g.feather <= 0 \/ distance >= g.feather THEN Scale
                       ELSE ((distance + 1) * Scale) \div g.feather
  BY DEF Ramp
<1> HIDE DEF e, distance
<1>11. Covers(e, p) => distance >= 0
  BY <1>4, <1>5, <1>6, <1>9
<1>12. Covers(e, p) => Ramp(g, e, p) \in 0..Scale
  <2> SUFFICES ASSUME Covers(e, p) PROVE Ramp(g, e, p) \in 0..Scale
    OBVIOUS
  <2>1. CASE g.feather <= 0 \/ distance >= g.feather
    BY <1>10, <2>1, MaskAssumption
  <2>2. CASE ~(g.feather <= 0 \/ distance >= g.feather)
    <3>1. distance \in 0..g.feather - 1
      BY <1>2, <1>9, <1>11, <2>2
    <3> QED
      BY <1>2, <1>10, <2>2, <3>1, FadesWithin
  <2> QED
    BY <2>1, <2>2
<1>13. ASSUME Covers(g, p), g.feather <= g.dilate PROVE RegionValue(g, p) = Scale
  <2>1. /\ k.x0 <= p[1] /\ p[1] <= k.x1 - 1 /\ k.y0 <= p[2] /\ p[2] <= k.y1 - 1
    BY <1>1, <1>7, <1>13
  <2>2. /\ g.dilate <= p[1] - e.x0 /\ g.dilate <= e.x1 - 1 - p[1]
        /\ g.dilate <= p[2] - e.y0 /\ g.dilate <= e.y1 - 1 - p[2]
    BY <1>2, <1>3, <1>5, <2>1
  <2>3. distance >= g.dilate
    BY <1>9, <2>2
  <2>4. distance >= g.feather
    BY <1>2, <1>9, <1>13, <2>3
  <2>5. Covers(e, p)
    BY <1>2, <1>4, <1>5, <1>6, <2>2
  <2> QED
    BY <1>8, <1>10, <2>4, <2>5
<1>14. RegionValue(g, p) \in 0..Scale
  BY <1>8, <1>12, MaskAssumption
<1>15. ~Covers(e, p) => RegionValue(g, p) = 0
  BY <1>8
<1> QED
  BY <1>13, <1>14, <1>15 DEF e, k

\* Of several regions the largest value counts.
LEMMA UnionValueIs ==
  ASSUME NEW drawn \in SUBSET MaskRegions, NEW p \in Pixels
  PROVE  /\ UnionValue(drawn, p) \in 0..Scale
         /\ \A g \in drawn : RegionValue(g, p) <= UnionValue(drawn, p)
         /\ (\A g \in drawn : ~Covers(Dilated(Clamped(g)), p)) =>
              UnionValue(drawn, p) = 0
         /\ (\E g \in drawn : Covers(g, p) /\ g.feather <= g.dilate) =>
              UnionValue(drawn, p) = Scale
<1> DEFINE S == {0} \cup {RegionValue(g, p) : g \in drawn}
<1>1. \A g \in drawn : g \in MaskRegions
  OBVIOUS
<1>2. Scale \in Nat
  BY MaskAssumption
<1>3. S \in SUBSET (0..Scale) /\ S # {}
  BY <1>1, <1>2, RegionValueIs
<1>4. UnionValue(drawn, p) = Max(S)
  BY DEF UnionValue
<1>5. Max(S) \in S /\ \A y \in S : Max(S) >= y
  BY <1>2, <1>3, MaxOfValues
<1>6. UnionValue(drawn, p) \in 0..Scale
  BY <1>3, <1>4, <1>5
<1>7. ASSUME NEW g \in drawn PROVE RegionValue(g, p) <= UnionValue(drawn, p)
  <2>1. RegionValue(g, p) \in S
    OBVIOUS
  <2> HIDE DEF S
  <2>2. \A y \in S : y \in Int
    BY <1>2, <1>3
  <2> QED
    BY <1>4, <1>5, <2>1, <2>2
<1>8. ASSUME \A g \in drawn : ~Covers(Dilated(Clamped(g)), p)
      PROVE  UnionValue(drawn, p) = 0
  <2>1. \A g \in drawn : RegionValue(g, p) = 0
    BY <1>1, <1>8, RegionValueIs
  <2>2. \A y \in S : y = 0
    BY <2>1
  <2> HIDE DEF S
  <2> QED
    BY <1>4, <1>5, <2>2
<1>9. ASSUME NEW g \in drawn, Covers(g, p), g.feather <= g.dilate
      PROVE  UnionValue(drawn, p) = Scale
  <2>1. RegionValue(g, p) = Scale
    BY <1>1, <1>9, RegionValueIs
  <2> QED
    BY <1>2, <1>6, <1>7, <2>1
<1> QED
  BY <1>6, <1>7, <1>8, <1>9

(***************************************************************************)
(* Whatever the regions, their overlaps and the edges of the image they    *)
(* cross: a pixel is repainted in full where a region is and nothing near  *)
(* is to be left out, not at all beyond the dilated regions or in a box    *)
(* that is to be left out, and otherwise by a value that the image can     *)
(* hold (mask.py:133-260).                                                 *)
(***************************************************************************)
THEOREM RepaintIsLocal ==
  ASSUME NEW drawn \in SUBSET MaskRegions, NEW left \in SUBSET MaskRegions, NEW p \in Pixels
  PROVE  /\ Mask(drawn, left)[p] \in 0..Scale * Scale
         /\ (\A g \in drawn : ~Covers(Dilated(Clamped(g)), p)) =>
              Mask(drawn, left)[p] = 0
         /\ (\E h \in left : Covers(h, p) /\ h.feather <= h.dilate) =>
              Mask(drawn, left)[p] = 0
         /\ (\E g \in drawn : Covers(g, p) /\ g.feather <= g.dilate)
            /\ (\A h \in left : ~Covers(Dilated(Clamped(h)), p)) =>
              Mask(drawn, left)[p] = Scale * Scale
<1> DEFINE u == UnionValue(drawn, p)
           s == UnionValue(left, p)
<1>1. Mask(drawn, left)[p] = u * (Scale - s)
  BY DEF Mask, Carved
<1>2. u \in 0..Scale /\ s \in 0..Scale /\ Scale \in Nat
  BY UnionValueIs, MaskAssumption
<1>3. (\A g \in drawn : ~Covers(Dilated(Clamped(g)), p)) => u = 0
  BY UnionValueIs
<1>4. (\E g \in drawn : Covers(g, p) /\ g.feather <= g.dilate) => u = Scale
  BY UnionValueIs
<1>5. (\A h \in left : ~Covers(Dilated(Clamped(h)), p)) => s = 0
  BY UnionValueIs
<1>6. (\E h \in left : Covers(h, p) /\ h.feather <= h.dilate) => s = Scale
  BY UnionValueIs
<1> HIDE DEF u, s
<1>7. u * (Scale - s) \in 0..Scale * Scale
  <2>1. Scale - s \in 0..Scale
    BY <1>2
  <2>2. ASSUME NEW x \in 0..Scale, NEW y \in 0..Scale PROVE x * y \in 0..Scale * Scale
    <3>1. x \in Nat /\ y \in Nat /\ x <= Scale /\ y <= Scale
      BY <1>2
    <3>2. x * y \in Nat /\ x * y <= Scale * y /\ Scale * y <= Scale * Scale
      BY <1>2, <3>1
    <3> QED
      BY <1>2, <3>1, <3>2
  <2> QED
    BY <1>2, <2>1, <2>2
<1>8. u = 0 => u * (Scale - s) = 0
  BY <1>2
<1>9. s = Scale => u * (Scale - s) = 0
  BY <1>2
<1>10. u = Scale /\ s = 0 => u * (Scale - s) = Scale * Scale
  BY <1>2
<1> QED
  BY <1>1, <1>3, <1>4, <1>5, <1>6, <1>7, <1>8, <1>9, <1>10

-----------------------------------------------------------------------------
(***************************************************************************)
(* The inputs of the algorithms, however they have grown.                  *)
(***************************************************************************)
Grown ==
  /\ section \in Seq(Lines) /\ weapons \in SUBSET Weapons
  /\ regions \in SUBSET Regions /\ subtract \in SUBSET Regions
  /\ graph \in [Projects -> SUBSET (Projects \cup {Gone})]
  /\ answers \in Seq(Answers)

LEMMA GrownStep == ASSUME Grown, [InputsNext]_inputs PROVE Grown'
<1> USE DEF Grown
<1>1. ASSUME NEW line \in Lines, AddLine(line) PROVE Grown'
  BY <1>1 DEF AddLine
<1>2. ASSUME NEW g \in Regions, AddRegion(g) PROVE Grown'
  BY <1>2 DEF AddRegion
<1>3. ASSUME NEW g \in Regions, AddSubtract(g) PROVE Grown'
  BY <1>3 DEF AddSubtract
<1>4. ASSUME NEW p \in Projects, NEW q \in Projects \cup {Gone}, AddReference(p, q) PROVE Grown'
  BY <1>4 DEF AddReference
<1>5. ASSUME NEW request, Refine(request) PROVE Grown'
  BY <1>5 DEF Refine
<1>6. ASSUME NEW verdict, NEW confidence, NEW box, AddResult(verdict, confidence, box) PROVE Grown'
  BY <1>6 DEF AddResult
<1>7. ASSUME NEW answer \in Answers, AddAnswer(answer) PROVE Grown'
  BY <1>7 DEF AddAnswer
<1>8. CASE UNCHANGED inputs
  BY <1>8 DEF inputs
<1> QED
  BY <1>1, <1>2, <1>3, <1>4, <1>5, <1>6, <1>7, <1>8 DEF InputsNext

(***************************************************************************)
(* What the algorithms are called with has the form the code gives it:     *)
(* lines of sections, regions of masks, references between projects,       *)
(* answers of a vision model.                                              *)
(***************************************************************************)
THEOREM InputsAreGrown == InputsSpec => []Grown
<1>1. InputsInit => Grown
  BY DEF InputsInit, Grown
<1> QED
  BY <1>1, GrownStep, PTL DEF InputsSpec

(***************************************************************************)
(* critique(): whatever two passes of the first model answer or leave out, *)
(* whatever the place of the check, and whether and what the second model  *)
(* is asked, a verdict has the ground it claims, unless the second model   *)
(* leaves the check out (critic_support.py, vision.py).                    *)
(***************************************************************************)
THEOREM VerdictsTrusted == InputsSpec => []VerdictsAreTrusted
<1>1. Grown => VerdictsAreTrusted
  <2> SUFFICES ASSUME Grown, Len(answers) = 2,
                      NEW check \in Places \X BOOLEAN, NEW mode \in {"off", "gemini"},
                      NEW online \in BOOLEAN, NEW opinion \in {"pass", "fail", "missing", "none"}
               PROVE  VerdictHasGround(answers[1], answers[2],
                        [region |-> check[1], fineDetail |-> check[2]],
                        [answers[2] EXCEPT !.said = opinion], mode, online)
    BY DEF VerdictsAreTrusted
  <2>1. answers[1] \in Answers /\ answers[2] \in Answers
    <3>1. answers \in Seq(Answers) /\ 1 \in 1..Len(answers) /\ 2 \in 1..Len(answers)
      BY DEF Grown
    <3> QED
      BY ONLY <3>1
  <2>2. \A a \in Answers : a \in FirstAnswers
    BY AnswersAssumption DEF FirstAnswers, AnswersSaying, BoxesOf
  <2>3. answers[1] \in FirstAnswers /\ answers[2] \in FirstAnswers
    BY <2>1, <2>2
  <2>4. [answers[2] EXCEPT !.said = opinion] \in SecondAnswers
    BY <2>3 DEF FirstAnswers, SecondAnswers, AnswersSaying
  <2>5. check[1] \in DOMAIN RegionVerticalBand /\ check[2] \in BOOLEAN
    BY AnswersAssumption
  <2>6. mode \in {"off", "gemini", "openai"}
    OBVIOUS
  <2> DEFINE a == answers[1]
             b == answers[2]
             second == [answers[2] EXCEPT !.said = opinion]
  <2> HIDE DEF a, b, second
  <2>7. a \in FirstAnswers /\ b \in FirstAnswers /\ second \in SecondAnswers
    BY <2>3, <2>4 DEF a, b, second
  <2>8. VerdictHasGround(a, b, [region |-> check[1], fineDetail |-> check[2]], second, mode, online)
    BY <2>5, <2>6, <2>7, VerdictsHaveGround
  <2> QED
    BY <2>8 DEF a, b, second
<1> QED
  BY <1>1, InputsAreGrown, PTL

-----------------------------------------------------------------------------
(***************************************************************************)
(* The values of a mask are those of its definition by distances.          *)
(***************************************************************************)

\* The corners of a region that has pixels in the image, cut off and dilated.
LEMMA EdgesAre ==
  ASSUME NEW g \in MaskRegions, Meets(g)
  PROVE  LET e == Dilated(Clamped(g))
             west == IF g.x0 < 0 THEN 0 ELSE g.x0
             north == IF g.y0 < 0 THEN 0 ELSE g.y0
             east == IF g.x1 > Width THEN Width ELSE g.x1
             south == IF g.y1 > Height THEN Height ELSE g.y1 IN
         /\ west < east /\ north < south /\ west >= 0 /\ north >= 0
         /\ east <= Width /\ south <= Height
         /\ e.x0 = west - g.dilate /\ e.x1 = east + g.dilate
         /\ e.y0 = north - g.dilate /\ e.y1 = south + g.dilate
<1>1. Width \in Nat /\ Height \in Nat
  BY MaskAssumption
<1>2. /\ g.x0 \in Int /\ g.x1 \in Int /\ g.y0 \in Int /\ g.y1 \in Int
      /\ g.dilate \in Nat
  BY DEF MaskRegions
<1>3. PICK p \in Pixels : Covers(g, p)
  BY DEF Meets
<1>4. /\ p[1] \in 0..Width - 1 /\ p[2] \in 0..Height - 1
      /\ g.x0 <= p[1] /\ p[1] < g.x1 /\ g.y0 <= p[2] /\ p[2] < g.y1
  BY <1>1, <1>2, <1>3 DEF Pixels, Covers
<1>5. /\ g.x0 < g.x1 /\ g.x0 < Width /\ g.x1 > 0 /\ Width > 0
      /\ g.y0 < g.y1 /\ g.y0 < Height /\ g.y1 > 0 /\ Height > 0
  BY <1>1, <1>2, <1>4
<1> DEFINE west == IF g.x0 < 0 THEN 0 ELSE g.x0
           north == IF g.y0 < 0 THEN 0 ELSE g.y0
           east == IF g.x1 > Width THEN Width ELSE g.x1
           south == IF g.y1 > Height THEN Height ELSE g.y1
<1>6. /\ west < east /\ north < south /\ west >= 0 /\ north >= 0
      /\ west \in Int /\ east \in Int /\ north \in Int /\ south \in Int
      /\ east <= Width /\ south <= Height
  BY <1>1, <1>2, <1>5
<1>7. Within(g.x0, 0, Width) = west /\ Within(g.y0, 0, Height) = north
  BY <1>1, <1>2, <1>5 DEF Within
<1>8. Min({g.x1, Width}) = east /\ Min({g.y1, Height}) = south
  BY <1>1, <1>2, MinOfTwo
<1> HIDE DEF west, north, east, south
<1>9. Max({west, east}) = east /\ Max({north, south}) = south
  BY <1>6, MaxOfTwo
<1>10. Clamped(g) = [g EXCEPT !.x0 = west, !.y0 = north, !.x1 = east, !.y1 = south]
  BY <1>7, <1>8, <1>9 DEF Clamped
<1>11. /\ Clamped(g).x0 = west /\ Clamped(g).x1 = east /\ Clamped(g).y0 = north
       /\ Clamped(g).y1 = south /\ Clamped(g).dilate = g.dilate
       /\ Clamped(g) = [x0 |-> west, x1 |-> east, y0 |-> north, y1 |-> south,
                        dilate |-> g.dilate, feather |-> g.feather]
  BY <1>10 DEF MaskRegions
<1>12. /\ Dilated(Clamped(g)).x0 = west - g.dilate /\ Dilated(Clamped(g)).x1 = east + g.dilate
       /\ Dilated(Clamped(g)).y0 = north - g.dilate /\ Dilated(Clamped(g)).y1 = south + g.dilate
  BY <1>11 DEF Dilated
<1> QED
  BY <1>6, <1>12 DEF west, north, east, south

\* Within the dilated box, as it was asked for, lies what is near a cell of the region.
Cells(g) == (g.x0..g.x1 - 1) \X (g.y0..g.y1 - 1)
NearTo(g, q) == \E c \in Cells(g) : /\ q[1] - c[1] \in -g.dilate..g.dilate
                                   /\ q[2] - c[2] \in -g.dilate..g.dilate

LEMMA AskedIs ==
  ASSUME NEW g \in MaskRegions
  PROVE  LET e == Dilated(g) IN
         /\ e.x0 = g.x0 - g.dilate /\ e.x1 = g.x1 + g.dilate
         /\ e.y0 = g.y0 - g.dilate /\ e.y1 = g.y1 + g.dilate
         /\ e.x0 \in Int /\ e.x1 \in Int /\ e.y0 \in Int /\ e.y1 \in Int
BY DEF Dilated, MaskRegions

LEMMA NearIsCovered ==
  ASSUME NEW g \in MaskRegions, WellFormed(g), NEW q \in Int \X Int
  PROVE  NearTo(g, q) <=> Covers(Dilated(g), q)
<1> DEFINE e == Dilated(g)
<1>1. /\ g.x0 \in Int /\ g.x1 \in Int /\ g.y0 \in Int /\ g.y1 \in Int
      /\ g.dilate \in Nat
  BY DEF MaskRegions
<1>2. g.x0 < g.x1 /\ g.y0 < g.y1
  BY DEF WellFormed
<1>3. /\ e.x0 = g.x0 - g.dilate /\ e.x1 = g.x1 + g.dilate
      /\ e.y0 = g.y0 - g.dilate /\ e.y1 = g.y1 + g.dilate
  BY AskedIs
<1> HIDE DEF e
<1>4. q[1] \in Int /\ q[2] \in Int
  OBVIOUS
<1>5. Covers(e, q) <=> /\ g.x0 - g.dilate <= q[1] /\ q[1] < g.x1 + g.dilate
                       /\ g.y0 - g.dilate <= q[2] /\ q[2] < g.y1 + g.dilate
  BY <1>1, <1>3, <1>4 DEF Covers
<1>6. ASSUME NearTo(g, q) PROVE Covers(e, q)
  <2>1. PICK c \in Cells(g) : /\ q[1] - c[1] \in -g.dilate..g.dilate
                              /\ q[2] - c[2] \in -g.dilate..g.dilate
    BY <1>6 DEF NearTo
  <2>2. c[1] \in g.x0..g.x1 - 1 /\ c[2] \in g.y0..g.y1 - 1
    BY DEF Cells
  <2> QED
    BY <1>1, <1>4, <1>5, <2>1, <2>2
<1>7. ASSUME Covers(e, q) PROVE NearTo(g, q)
  <2> DEFINE x == IF q[1] < g.x0 THEN g.x0 ELSE IF q[1] >= g.x1 THEN g.x1 - 1 ELSE q[1]
             y == IF q[2] < g.y0 THEN g.y0 ELSE IF q[2] >= g.y1 THEN g.y1 - 1 ELSE q[2]
  <2>1. x \in g.x0..g.x1 - 1 /\ q[1] - x \in -g.dilate..g.dilate
    BY <1>1, <1>2, <1>4, <1>5, <1>7
  <2>2. y \in g.y0..g.y1 - 1 /\ q[2] - y \in -g.dilate..g.dilate
    BY <1>1, <1>2, <1>4, <1>5, <1>7
  <2> HIDE DEF x, y
  <2>3. <<x, y>> \in Cells(g) /\ <<x, y>>[1] = x /\ <<x, y>>[2] = y
    BY <2>1, <2>2 DEF Cells
  <2> QED
    BY <2>1, <2>2, <2>3 DEF NearTo
<1> QED
  BY <1>6, <1>7 DEF e

\* The squares within the box around a pixel are those up to its distance.
LEMMA SquaresWithin ==
  ASSUME NEW g \in MaskRegions, WellFormed(g), NEW p \in Pixels, NEW k \in Nat
  PROVE  LET e == Dilated(g) IN
         (\A q \in (p[1] - k..p[1] + k) \X (p[2] - k..p[2] + k) : NearTo(g, q)) <=>
           /\ e.x0 <= p[1] - k /\ p[1] + k <= e.x1 - 1
           /\ e.y0 <= p[2] - k /\ p[2] + k <= e.y1 - 1
<1> DEFINE e == Dilated(g)
           square == (p[1] - k..p[1] + k) \X (p[2] - k..p[2] + k)
<1>1. p[1] \in Int /\ p[2] \in Int
  BY MaskAssumption DEF Pixels
<1>2. /\ e.x0 \in Int /\ e.x1 \in Int /\ e.y0 \in Int /\ e.y1 \in Int
  BY AskedIs
<1> HIDE DEF e
<1>3. \A q \in square : q \in Int \X Int /\ q[1] \in p[1] - k..p[1] + k /\ q[2] \in p[2] - k..p[2] + k
  BY <1>1
<1>4. \A q \in square : NearTo(g, q) <=> Covers(e, q)
  BY <1>3, NearIsCovered DEF e
<1>5. ASSUME \A q \in square : Covers(e, q)
      PROVE  /\ e.x0 <= p[1] - k /\ p[1] + k <= e.x1 - 1
             /\ e.y0 <= p[2] - k /\ p[2] + k <= e.y1 - 1
  <2>1. <<p[1] - k, p[2] - k>> \in square /\ <<p[1] + k, p[2] + k>> \in square
    BY <1>1
  <2>2. Covers(e, <<p[1] - k, p[2] - k>>) /\ Covers(e, <<p[1] + k, p[2] + k>>)
    BY <1>5, <2>1
  <2> HIDE DEF square
  <2>3. p[1] - k \in e.x0..e.x1 - 1 /\ p[2] - k \in e.y0..e.y1 - 1
    BY <2>2 DEF Covers
  <2>4. p[1] + k \in e.x0..e.x1 - 1 /\ p[2] + k \in e.y0..e.y1 - 1
    BY <2>2 DEF Covers
  <2> QED
    BY <1>1, <1>2, <2>3, <2>4
<1>6. ASSUME /\ e.x0 <= p[1] - k /\ p[1] + k <= e.x1 - 1
             /\ e.y0 <= p[2] - k /\ p[2] + k <= e.y1 - 1,
             NEW q \in square
      PROVE  Covers(e, q)
  <2>1. q[1] \in p[1] - k..p[1] + k /\ q[2] \in p[2] - k..p[2] + k
    BY <1>3
  <2> HIDE DEF square
  <2> QED
    BY <1>1, <1>2, <1>6, <2>1 DEF Covers
<1> HIDE DEF square
<1>7. (\A q \in square : NearTo(g, q)) <=>
           /\ e.x0 <= p[1] - k /\ p[1] + k <= e.x1 - 1
           /\ e.y0 <= p[2] - k /\ p[2] + k <= e.y1 - 1
  BY <1>4, <1>5, <1>6
<1> QED
  BY <1>7 DEF e, square

\* The value that a region has, as it was asked for, is what the depth of the pixel gives.
AskedValue(g, p) == IF Covers(Dilated(g), p) THEN Ramp(g, Dilated(g), p) ELSE 0

LEMMA ValueByDepth ==
  ASSUME NEW g \in MaskRegions, WellFormed(g), NEW p \in Pixels
  PROVE  AskedValue(g, p) = (Depth(g, p) * Scale) \div Max({1, g.feather})
<1> DEFINE e == Dilated(g)
           F == Max({1, g.feather})
           within == {k \in 0..F - 1 : /\ e.x0 <= p[1] - k /\ p[1] + k <= e.x1 - 1
                                       /\ e.y0 <= p[2] - k /\ p[2] + k <= e.y1 - 1}
<1>1. p[1] \in Int /\ p[2] \in Int /\ Scale \in Nat
  BY MaskAssumption DEF Pixels
<1>2. g.feather \in Nat /\ F \in Nat /\ F = IF g.feather <= 0 THEN 1 ELSE g.feather
  <2>1. g.feather \in Nat
    BY DEF MaskRegions
  <2> QED
    BY <2>1, MaxOfTwo
<1>3. /\ e.x0 \in Int /\ e.x1 \in Int /\ e.y0 \in Int /\ e.y1 \in Int
  BY AskedIs
<1>4. Depth(g, p) = Cardinality(within)
  <2> DEFINE deep == {k \in 0..F - 1 : \A q \in (p[1] - k..p[1] + k) \X (p[2] - k..p[2] + k) : NearTo(g, q)}
  <2>1. Depth(g, p) = Cardinality(deep)
    BY DEF Depth, NearTo, Cells
  <2>2. \A k \in 0..F - 1 : k \in Nat
    BY <1>2
  <2>3. deep = within
    BY <2>2, SquaresWithin
  <2> QED
    BY <2>1, <2>3
<1> DEFINE far == Min({p[1] - e.x0, e.x1 - 1 - p[1], p[2] - e.y0, e.y1 - 1 - p[2]})
<1>5. Ramp(g, e, p) = IF g.feather <= 0 \/ far >= g.feather THEN Scale
                      ELSE ((far + 1) * Scale) \div g.feather
  BY DEF Ramp
<1>6. AskedValue(g, p) = IF Covers(e, p) THEN Ramp(g, e, p) ELSE 0
  BY DEF AskedValue
<1> HIDE DEF e, F
<1>7. /\ far \in {p[1] - e.x0, e.x1 - 1 - p[1], p[2] - e.y0, e.y1 - 1 - p[2]}
      /\ far <= p[1] - e.x0 /\ far <= e.x1 - 1 - p[1]
      /\ far <= p[2] - e.y0 /\ far <= e.y1 - 1 - p[2]
  <2> DEFINE west == p[1] - e.x0
             east == e.x1 - 1 - p[1]
             north == p[2] - e.y0
             south == e.y1 - 1 - p[2]
  <2>1. west \in Int /\ east \in Int /\ north \in Int /\ south \in Int
    BY <1>1, <1>3
  <2> HIDE DEF west, east, north, south
  <2>2. LET m == Min({west, east, north, south}) IN
         m \in {west, east, north, south} /\ m <= west /\ m <= east /\ m <= north /\ m <= south
    BY <2>1, MinOfFour
  <2> QED
    BY <2>2 DEF west, east, north, south
<1> HIDE DEF far
<1>8. far \in Int
  BY <1>1, <1>3, <1>7
<1>9. Covers(e, p) <=> far >= 0
  BY <1>1, <1>3, <1>7, <1>8 DEF Covers
<1>10. within = {k \in 0..F - 1 : k <= far}
  <2>1. ASSUME NEW k \in 0..F - 1
        PROVE  (/\ e.x0 <= p[1] - k /\ p[1] + k <= e.x1 - 1
                /\ e.y0 <= p[2] - k /\ p[2] + k <= e.y1 - 1) <=> k <= far
    <3>1. k \in Int
      BY <1>2
    <3> QED
      BY <1>1, <1>3, <1>7, <1>8, <3>1
  <2> QED
    BY <2>1
<1> HIDE DEF within
<1>11. CASE far < 0
  <2>1. within = {} /\ AskedValue(g, p) = 0
    BY <1>2, <1>6, <1>8, <1>9, <1>10, <1>11
  <2>2. Depth(g, p) = 0
    BY <1>4, <2>1, FS_EmptySet
  <2>3. (0 * Scale) \div F = 0
    BY <1>1, <1>2
  <2> QED
    BY <2>1, <2>2, <2>3 DEF F
<1>12. CASE far >= 0 /\ far < F
  <2>1. within = 0..far
    BY <1>2, <1>8, <1>10, <1>12
  <2>2. Depth(g, p) = far + 1
    BY <1>4, <1>8, <1>12, <2>1, FS_Interval
  <2>3. CASE g.feather <= 0
    <3>1. F = 1 /\ far = 0 /\ g.feather = 0
      BY <1>2, <1>8, <1>12, <2>3
    <3>2. AskedValue(g, p) = Scale
      BY <1>5, <1>6, <1>9, <1>12, <2>3
    <3>3. ((0 + 1) * Scale) \div 1 = Scale
      BY <1>1
    <3> QED
      BY <2>2, <3>1, <3>2, <3>3 DEF F
  <2>4. CASE ~(g.feather <= 0)
    <3>1. F = g.feather /\ ~(far >= g.feather)
      BY <1>2, <1>8, <1>12, <2>4
    <3>2. AskedValue(g, p) = ((far + 1) * Scale) \div g.feather
      BY <1>5, <1>6, <1>9, <1>12, <2>4, <3>1
    <3> QED
      BY <2>2, <3>1, <3>2 DEF F
  <2> QED
    BY <2>3, <2>4
<1>13. CASE far >= F
  <2>1. within = 0..F - 1
    BY <1>2, <1>8, <1>10, <1>13
  <2>2. Depth(g, p) = F
    <3>1. F \in Nat /\ F >= 1
      BY <1>2
    <3>2. Cardinality(0..F - 1) = F
      BY <3>1, FS_Interval
    <3> QED
      BY <1>4, <2>1, <3>2
  <2>3. far >= 0 /\ (g.feather <= 0 \/ far >= g.feather)
    BY <1>2, <1>8, <1>13
  <2>4. AskedValue(g, p) = Scale
    BY <1>5, <1>6, <1>9, <2>3
  <2>5. (F * Scale) \div F = Scale
    <3>1. F \in Nat /\ F > 0
      BY <1>2
    <3>2. \A n \in Nat, s \in Nat : n > 0 => (n * s) \div n = s
      OBVIOUS
    <3> QED
      BY <1>1, <3>1, <3>2
  <2> QED
    BY <2>2, <2>4, <2>5 DEF F
<1>14. F \in Int
  BY <1>2
<1> QED
  BY <1>8, <1>11, <1>12, <1>13, <1>14

\* Where the cut at the frame does not show, a region has the value it was asked for.
LEMMA CutCovers ==
  ASSUME NEW g \in MaskRegions, Meets(g), NEW p \in Pixels
  PROVE  Covers(Dilated(Clamped(g)), p) <=> Covers(Dilated(g), p)
<1> DEFINE e == Dilated(Clamped(g))
           f == Dilated(g)
<1>1. p[1] \in 0..Width - 1 /\ p[2] \in 0..Height - 1 /\ Width \in Nat /\ Height \in Nat
  BY MaskAssumption DEF Pixels
<1>2. /\ g.x0 \in Int /\ g.x1 \in Int /\ g.y0 \in Int /\ g.y1 \in Int /\ g.dilate \in Nat
  BY DEF MaskRegions
<1>3. /\ e.x0 = (IF g.x0 < 0 THEN 0 ELSE g.x0) - g.dilate
      /\ e.x1 = (IF g.x1 > Width THEN Width ELSE g.x1) + g.dilate
      /\ e.y0 = (IF g.y0 < 0 THEN 0 ELSE g.y0) - g.dilate
      /\ e.y1 = (IF g.y1 > Height THEN Height ELSE g.y1) + g.dilate
  BY EdgesAre
<1>4. /\ f.x0 = g.x0 - g.dilate /\ f.x1 = g.x1 + g.dilate
      /\ f.y0 = g.y0 - g.dilate /\ f.y1 = g.y1 + g.dilate
  BY AskedIs
<1> HIDE DEF e, f
<1>5. p[1] \in e.x0..e.x1 - 1 <=> p[1] \in f.x0..f.x1 - 1
  BY <1>1, <1>2, <1>3, <1>4
<1>6. p[2] \in e.y0..e.y1 - 1 <=> p[2] \in f.y0..f.y1 - 1
  BY <1>1, <1>2, <1>3, <1>4
<1> QED
  BY <1>5, <1>6 DEF Covers, e, f

\* Cut or not, a feather no wider than that is full at such a distance.
LEMMA FullAt ==
  ASSUME NEW g \in MaskRegions, NEW e, NEW p, NEW far \in Int,
         far = Min({p[1] - e.x0, e.x1 - 1 - p[1], p[2] - e.y0, e.y1 - 1 - p[2]}),
         far >= g.feather - 1
  PROVE  Ramp(g, e, p) = Scale
<1>1. g.feather \in Nat /\ Scale \in Nat
  BY MaskAssumption DEF MaskRegions
<1>2. Ramp(g, e, p) = IF g.feather <= 0 \/ far >= g.feather THEN Scale
                      ELSE ((far + 1) * Scale) \div g.feather
  BY DEF Ramp
<1>3. CASE ~(g.feather <= 0 \/ far >= g.feather)
  <2>1. far + 1 = g.feather /\ g.feather > 0
    BY <1>1, <1>3
  <2>2. \A n \in Nat, s \in Nat : n > 0 => (n * s) \div n = s
    OBVIOUS
  <2> QED
    BY <1>1, <1>2, <1>3, <2>1, <2>2
<1> QED
  BY <1>2, <1>3

LEMMA CutFades ==
  ASSUME NEW g \in MaskRegions, Meets(g), g.feather <= g.dilate + 1, NEW p \in Pixels
  PROVE  Ramp(g, Dilated(Clamped(g)), p) = Ramp(g, Dilated(g), p)
<1> DEFINE e == Dilated(Clamped(g))
           f == Dilated(g)
           w == p[1] - e.x0
           o == e.x1 - 1 - p[1]
           n == p[2] - e.y0
           s == e.y1 - 1 - p[2]
           W == p[1] - f.x0
           O == f.x1 - 1 - p[1]
           N == p[2] - f.y0
           S == f.y1 - 1 - p[2]
<1>1. p[1] \in 0..Width - 1 /\ p[2] \in 0..Height - 1 /\ Width \in Nat /\ Height \in Nat
  BY MaskAssumption DEF Pixels
<1>2. /\ g.x0 \in Int /\ g.x1 \in Int /\ g.y0 \in Int /\ g.y1 \in Int /\ g.dilate \in Nat
      /\ g.feather \in Nat
  BY DEF MaskRegions
<1>3. /\ e.x0 = (IF g.x0 < 0 THEN 0 ELSE g.x0) - g.dilate
      /\ e.x1 = (IF g.x1 > Width THEN Width ELSE g.x1) + g.dilate
      /\ e.y0 = (IF g.y0 < 0 THEN 0 ELSE g.y0) - g.dilate
      /\ e.y1 = (IF g.y1 > Height THEN Height ELSE g.y1) + g.dilate
  BY EdgesAre
<1>4. /\ f.x0 = g.x0 - g.dilate /\ f.x1 = g.x1 + g.dilate
      /\ f.y0 = g.y0 - g.dilate /\ f.y1 = g.y1 + g.dilate
  BY AskedIs
<1> HIDE DEF e, f
<1>5. /\ w \in Int /\ W \in Int /\ w <= W /\ (w = W \/ w >= g.dilate)
      /\ o \in Int /\ O \in Int /\ o <= O /\ (o = O \/ o >= g.dilate)
  BY <1>1, <1>2, <1>3, <1>4
<1>6. /\ n \in Int /\ N \in Int /\ n <= N /\ (n = N \/ n >= g.dilate)
      /\ s \in Int /\ S \in Int /\ s <= S /\ (s = S \/ s >= g.dilate)
  BY <1>1, <1>2, <1>3, <1>4
<1> DEFINE far == Min({w, o, n, s})
           Far == Min({W, O, N, S})
<1>7. Ramp(g, e, p) = (IF g.feather <= 0 \/ far >= g.feather THEN Scale
                       ELSE ((far + 1) * Scale) \div g.feather)
  BY DEF Ramp
<1>8. Ramp(g, f, p) = (IF g.feather <= 0 \/ Far >= g.feather THEN Scale
                       ELSE ((Far + 1) * Scale) \div g.feather)
  BY DEF Ramp
<1>9. ASSUME far \in Int, far >= g.feather - 1 PROVE Ramp(g, e, p) = Scale
  BY <1>9, FullAt
<1>10. ASSUME Far \in Int, Far >= g.feather - 1 PROVE Ramp(g, f, p) = Scale
  BY <1>10, FullAt
<1> HIDE DEF w, o, n, s, W, O, N, S
<1>11. far \in {w, o, n, s} /\ far <= w /\ far <= o /\ far <= n /\ far <= s
  BY <1>5, <1>6, MinOfFour
<1>12. Far \in {W, O, N, S} /\ Far <= W /\ Far <= O /\ Far <= N /\ Far <= S
  BY <1>5, <1>6, MinOfFour
<1> HIDE DEF far, Far
<1>13. far \in Int /\ Far \in Int
  BY <1>5, <1>6, <1>11, <1>12
<1>14. far = Far \/ (far >= g.dilate /\ Far >= g.dilate)
  BY <1>2, <1>5, <1>6, <1>11, <1>12, <1>13
<1>15. CASE far = Far
  BY <1>7, <1>8, <1>15 DEF e, f
<1>16. CASE far >= g.dilate /\ Far >= g.dilate
  <2>1. far >= g.feather - 1 /\ Far >= g.feather - 1
    BY <1>2, <1>13, <1>16
  <2> QED
    BY <1>9, <1>10, <1>13, <2>1 DEF e, f
<1> QED
  BY <1>14, <1>15, <1>16

LEMMA CutAway ==
  ASSUME NEW g \in MaskRegions, ~Meets(g), g.dilate = 0, NEW p \in Pixels
  PROVE  ~Covers(Dilated(Clamped(g)), p) /\ ~Covers(Dilated(g), p)
<1> DEFINE west == Within(g.x0, 0, Width)
           north == Within(g.y0, 0, Height)
           east == Max({west, Min({g.x1, Width})})
           south == Max({north, Min({g.y1, Height})})
           e == Dilated(Clamped(g))
<1>1. p[1] \in 0..Width - 1 /\ p[2] \in 0..Height - 1 /\ Width \in Nat /\ Height \in Nat
  BY MaskAssumption DEF Pixels
<1>2. /\ g.x0 \in Int /\ g.x1 \in Int /\ g.y0 \in Int /\ g.y1 \in Int
  BY DEF MaskRegions
<1>3. ~Covers(g, p)
  BY DEF Meets
<1>4. ~Covers(Dilated(g), p)
  <2>1. /\ Dilated(g).x0 = g.x0 /\ Dilated(g).x1 = g.x1
        /\ Dilated(g).y0 = g.y0 /\ Dilated(g).y1 = g.y1
    BY <1>2, AskedIs
  <2> QED
    BY <1>3, <2>1 DEF Covers
<1>5. e.x0 = west /\ e.x1 = east /\ e.y0 = north /\ e.y1 = south
  <2>1. /\ west \in Int /\ north \in Int
    BY <1>1, <1>2 DEF Within
  <2>2. Min({g.x1, Width}) \in Int /\ Min({g.y1, Height}) \in Int
    BY <1>1, <1>2, MinOfTwo
  <2>3. east \in Int /\ south \in Int
    <3> DEFINE x == Min({g.x1, Width})
               y == Min({g.y1, Height})
    <3> HIDE DEF west, north, x, y
    <3> QED
      BY <2>1, <2>2, MaxOfTwo DEF x, y
  <2>4. Clamped(g) = [g EXCEPT !.x0 = west, !.y0 = north, !.x1 = east, !.y1 = south]
    BY DEF Clamped
  <2> HIDE DEF west, north, east, south
  <2>5. Clamped(g) = [x0 |-> west, x1 |-> east, y0 |-> north, y1 |-> south,
                      dilate |-> g.dilate, feather |-> g.feather]
    BY <2>4 DEF MaskRegions
  <2> QED
    BY <2>1, <2>3, <2>5 DEF Dilated
<1> HIDE DEF e
<1>6. p[1] >= west => p[1] >= g.x0
  BY <1>1, <1>2 DEF Within
<1>7. p[2] >= north => p[2] >= g.y0
  BY <1>1, <1>2 DEF Within
<1>8. west \in Int /\ north \in Int
  BY <1>1, <1>2 DEF Within
<1>9. p[1] >= west /\ p[1] < east => p[1] < g.x1
  <2> DEFINE x == Min({g.x1, Width})
  <2>1. x \in Int /\ x <= g.x1
    BY <1>1, <1>2, MinOfTwo
  <2>2. east = IF west >= x THEN west ELSE x
    <3> HIDE DEF west, x
    <3> QED
      BY <1>8, <2>1, MaxOfTwo DEF x
  <2> HIDE DEF west, east, x
  <2> QED
    BY <1>1, <1>2, <1>8, <2>1, <2>2
<1>10. p[2] >= north /\ p[2] < south => p[2] < g.y1
  <2> DEFINE y == Min({g.y1, Height})
  <2>1. y \in Int /\ y <= g.y1
    BY <1>1, <1>2, MinOfTwo
  <2>2. south = IF north >= y THEN north ELSE y
    <3> HIDE DEF north, y
    <3> QED
      BY <1>8, <2>1, MaxOfTwo DEF y
  <2> HIDE DEF north, south, y
  <2> QED
    BY <1>1, <1>2, <1>8, <2>1, <2>2
<1>11. ASSUME Covers(e, p) PROVE FALSE
  <2>1. p[1] \in west..east - 1 /\ p[2] \in north..south - 1
    BY <1>5, <1>11 DEF Covers
  <2>2. east \in Int /\ south \in Int
    <3>1. Min({g.x1, Width}) \in Int /\ Min({g.y1, Height}) \in Int
      BY <1>1, <1>2, MinOfTwo
    <3> DEFINE x == Min({g.x1, Width})
               y == Min({g.y1, Height})
    <3> HIDE DEF west, north, x, y
    <3> QED
      BY <1>8, <3>1, MaxOfTwo DEF x, y
  <2> HIDE DEF west, east, north, south
  <2>3. g.x0 <= p[1] /\ p[1] < g.x1 /\ g.y0 <= p[2] /\ p[2] < g.y1
    BY <1>1, <1>6, <1>7, <1>8, <1>9, <1>10, <2>1, <2>2
  <2> QED
    BY <1>1, <1>2, <1>3, <2>3 DEF Covers
<1> QED
  BY <1>4, <1>11 DEF e

LEMMA CutIsAsked ==
  ASSUME NEW g \in MaskRegions, WellFormed(g), ~CutShows(g), NEW p \in Pixels
  PROVE  RegionValue(g, p) = AskedValue(g, p)
<1>1. CASE Inside(g)
  <2>1. Clamped(g) = g
    <3>1. /\ g.x0 \in Int /\ g.x1 \in Int /\ g.y0 \in Int /\ g.y1 \in Int
          /\ Width \in Nat /\ Height \in Nat
      BY MaskAssumption DEF MaskRegions
    <3>2. /\ 0 <= g.x0 /\ g.x0 < g.x1 /\ g.x1 <= Width
          /\ 0 <= g.y0 /\ g.y0 < g.y1 /\ g.y1 <= Height
      BY <1>1, <3>1 DEF Inside, WellFormed
    <3>3. Within(g.x0, 0, Width) = g.x0 /\ Within(g.y0, 0, Height) = g.y0
      BY <3>1, <3>2 DEF Within
    <3>4. Min({g.x1, Width}) = g.x1 /\ Min({g.y1, Height}) = g.y1
      BY <3>1, <3>2, MinOfTwo
    <3>5. Max({g.x0, g.x1}) = g.x1 /\ Max({g.y0, g.y1}) = g.y1
      BY <3>1, <3>2, MaxOfTwo
    <3> QED
      BY <3>3, <3>4, <3>5 DEF Clamped, MaskRegions
  <2> QED
    BY <2>1 DEF RegionValue, AskedValue
<1>2. CASE Meets(g) /\ g.feather <= g.dilate + 1
  BY <1>2, CutCovers, CutFades DEF RegionValue, AskedValue
<1>3. CASE ~Meets(g) /\ g.dilate = 0
  BY <1>3, CutAway DEF RegionValue, AskedValue
<1>4. g.feather \in Nat /\ g.dilate \in Nat
  BY DEF MaskRegions
<1> QED
  BY <1>1, <1>2, <1>3, <1>4 DEF CutShows

(***************************************************************************)
(* build_mask_png(): whatever the regions, their dilation and feather and  *)
(* the edges of the image they cross, every pixel has the value that its   *)
(* distance from the outside of each dilated region gives, as the region   *)
(* was asked for, and what is to be left out is taken away last            *)
(* (mask.py:133-240); unless a region crosses the frame with a feather     *)
(* wider than its dilation, and a pixel more, or is dilated from wholly    *)
(* outside the image, where the cut at the frame shows.                    *)
(***************************************************************************)
THEOREM MaskIsDistance == InputsSpec => []MaskIsAsDrawn
<1>1. ASSUME NEW drawn \in SUBSET MaskRegions, \A g \in drawn : WellFormed(g) /\ ~CutShows(g),
             NEW p \in Pixels
      PROVE  ExpectedValue(drawn, p) = UnionValue(drawn, p)
  <2>1. \A g \in drawn : RegionValue(g, p) = (Depth(g, p) * Scale) \div Max({1, g.feather})
    BY <1>1, ValueByDepth, CutIsAsked
  <2>2. {RegionValue(g, p) : g \in drawn}
          = {(Depth(g, p) * Scale) \div Max({1, g.feather}) : g \in drawn}
    BY <2>1
  <2> QED
    BY <2>2 DEF ExpectedValue, UnionValue
<1>2. Grown => MaskIsAsDrawn
  <2> SUFFICES ASSUME Grown, \A g \in regions \cup subtract : ~CutShows(g),
                      ~Refused(regions, subtract), NEW p \in Pixels
               PROVE  Mask(regions, subtract)[p] =
                        ExpectedValue(regions, p) * (Scale - ExpectedValue(subtract, p))
    BY DEF MaskIsAsDrawn, MaskIsExact
  <2>1. regions \in SUBSET MaskRegions /\ subtract \in SUBSET MaskRegions
    BY RegionsAssumption DEF Grown, MaskRegions
  <2>2. \A g \in regions \cup subtract : WellFormed(g)
    BY DEF Refused
  <2>3. /\ ExpectedValue(regions, p) = UnionValue(regions, p)
        /\ ExpectedValue(subtract, p) = UnionValue(subtract, p)
    BY <1>1, <2>1, <2>2
  <2>4. Mask(regions, subtract)[p] = UnionValue(regions, p) * (Scale - UnionValue(subtract, p))
    BY DEF Mask, Carved
  <2> QED
    BY <2>3, <2>4
<1> QED
  BY <1>2, InputsAreGrown, PTL

-----------------------------------------------------------------------------
(***************************************************************************)
(* The tags of a prompt: _dedupe_comma_tags() keeps the first of each key. *)
(***************************************************************************)

\* The tag that a prompt has of a key, in the form it is said in first.
FirstOf(prompt, k) ==
  {prompt[i] : i \in {i \in DOMAIN prompt : /\ prompt[i].key = k
                                            /\ \A j \in 1..i - 1 : prompt[j].key # k}}

KeysDiffer(prompt) == \A i, j \in DOMAIN prompt : prompt[i].key = prompt[j].key => i = j

LEMMA InductionUpTo ==
  ASSUME NEW N \in Nat, NEW S, 0 \in S, \A n \in 0..N - 1 : n \in S => n + 1 \in S
  PROVE  0..N \subseteq S
<1> DEFINE T == {n \in Nat : n <= N => n \in S}
<1>1. 0 \in T
  OBVIOUS
<1>2. ASSUME NEW n \in Nat, n \in T PROVE n + 1 \in T
  <2>1. CASE n + 1 <= N
    <3>1. n \in 0..N - 1 /\ n \in S
      BY <1>2, <2>1
    <3> QED
      BY <3>1
  <2>2. CASE ~(n + 1 <= N)
    BY <2>2
  <2> QED
    BY <2>1, <2>2
<1> HIDE DEF T
<1>3. Nat \subseteq T
  BY <1>1, <1>2, InductionOnNat
<1> QED
  BY <1>3 DEF T

\* How the tags are kept, one after the other.
Keeps(prompt, kept, T) ==
  /\ kept \in [0..Len(prompt) -> Seq(T)]
  /\ kept[0] = <<>>
  /\ \A n \in 1..Len(prompt) :
       kept[n] = IF prompt[n].key \in Keys(kept[n - 1]) THEN kept[n - 1]
                 ELSE Append(kept[n - 1], prompt[n])
  /\ DedupeCommaTags(prompt) = kept[Len(prompt)]

LEMMA DedupeKeeps ==
  ASSUME NEW T, NEW prompt \in Seq(T)
  PROVE  \E kept : Keeps(prompt, kept, T)
<1> DEFINE N == Len(prompt)
           Then(before, n) == IF prompt[n].key \in Keys(before) THEN before
                              ELSE Append(before, prompt[n])
           F(g) == [n \in 0..N |-> IF n = 0 THEN <<>> ELSE Then(g[n - 1], n)]
           d == CHOOSE g : g = F(g)
           step == [x \in (1..N) \X Seq(T) |-> Then(x[2], x[1])]
<1>1. DedupeCommaTags(prompt) = d[N]
  BY DEF DedupeCommaTags
<1>2. \A s \in Seq(T), n \in 1..N : Then(s, n) \in Seq(T)
  OBVIOUS
<1> HIDE DEF Then
<1>3. step \in [(1..N) \X Seq(T) -> Seq(T)]
  BY <1>2
<1>4. \A n \in 1..N, s \in Seq(T) : step[<<n, s>>] = Then(s, n)
  OBVIOUS
<1>5. <<>> \in Seq(T) /\ N \in Nat
  OBVIOUS
<1> HIDE DEF step, N
<1>6. PICK f \in [0..N -> Seq(T)] : UnrollsUpTo(N, f, <<>>, step)
  BY <1>3, <1>5, RecursionUpTo
<1>7. f = F(f)
  <2>1. f = [n \in 0..N |-> IF n = 0 THEN <<>> ELSE step[<<n, f[n - 1]>>]]
    BY <1>6 DEF UnrollsUpTo
  <2>2. ASSUME NEW n \in 0..N, n # 0 PROVE step[<<n, f[n - 1]>>] = Then(f[n - 1], n)
    <3>1. n \in 1..N /\ n - 1 \in 0..N
      BY <1>5, <2>2
    <3>2. f[n - 1] \in Seq(T)
      BY <3>1
    <3> QED
      BY <1>4, <3>1, <3>2
  <2> QED
    BY <2>1, <2>2
<1>8. d = F(d)
  <2> HIDE DEF F
  <2> QED
    BY <1>7
<1> HIDE DEF d
<1>9. \A n \in 0..N : d[n] = IF n = 0 THEN <<>> ELSE Then(d[n - 1], n)
  BY <1>8, Zenon
<1>10. 0..N \subseteq {n \in 0..N : d[n] \in Seq(T)}
  <2> DEFINE S == {n \in 0..N : d[n] \in Seq(T)}
  <2>1. 0 \in S
    <3>1. 0 \in 0..N
      BY <1>5
    <3>2. d[0] = <<>>
      BY <1>9, <3>1
    <3> QED
      BY <1>5, <3>1, <3>2
  <2>2. ASSUME NEW n \in 0..N - 1, n \in S PROVE n + 1 \in S
    <3>1. n + 1 \in 1..N /\ n + 1 \in 0..N /\ n + 1 # 0 /\ (n + 1) - 1 = n
      BY <1>5
    <3>2. d[n + 1] = Then(d[(n + 1) - 1], n + 1)
      BY <1>9, <3>1, Zenon
    <3>3. Then(d[n], n + 1) \in Seq(T)
      BY <1>2, <2>2, <3>1
    <3> QED
      BY <3>1, <3>2, <3>3
  <2> HIDE DEF S
  <2>3. 0..N \subseteq S
    BY <1>5, <2>1, <2>2, InductionUpTo
  <2> QED
    BY <2>3 DEF S
<1>11. d = [n \in 0..N |-> d[n]]
  BY <1>8
<1>12. d \in [0..N -> Seq(T)]
  BY <1>10, <1>11
<1>13. d[0] = <<>>
  BY <1>5, <1>9
<1>14. \A n \in 1..N : d[n] = Then(d[n - 1], n)
  BY <1>5, <1>9
<1>15. Keeps(prompt, d, T)
  BY <1>1, <1>12, <1>13, <1>14 DEF Keeps, N, Then
<1> QED
  BY <1>15

\* What is left has every key once, in the form in which the prompt says it first.
LEMMA DedupeIs ==
  ASSUME NEW T, NEW prompt \in Seq(T)
  PROVE  LET d == DedupeCommaTags(prompt) IN
         /\ d \in Seq(T) /\ KeysDiffer(d)
         /\ Keys(d) = Keys(prompt)
         /\ \A k : FirstOf(d, k) = FirstOf(prompt, k)
<1> DEFINE N == Len(prompt)
<1>1. PICK kept : Keeps(prompt, kept, T)
  BY DedupeKeeps
<1>2. N \in Nat /\ \A i \in 1..N : prompt[i] \in T
  OBVIOUS
<1> DEFINE Good(n) == LET s == kept[n] IN
             /\ KeysDiffer(s)
             /\ Keys(s) = {prompt[i].key : i \in 1..n}
             /\ \A i \in DOMAIN s : \E m \in 1..n : /\ s[i] = prompt[m]
                                                    /\ \A j \in 1..m - 1 : prompt[j].key # prompt[m].key
           S == {n \in 0..N : Good(n)}
<1>3. 0 \in S
  <2>1. kept[0] = <<>>
    BY <1>1 DEF Keeps
  <2>2. Good(0)
    BY <2>1 DEF KeysDiffer, Keys
  <2>3. 0 \in 0..N
    BY <1>2
  <2> HIDE DEF Good
  <2> QED
    BY <2>2, <2>3, Zenon
<1>4. ASSUME NEW n \in 0..N - 1, n \in S PROVE n + 1 \in S
  <2> DEFINE s == kept[n]
             t == kept[n + 1]
             tag == prompt[n + 1]
  <2>1. /\ n + 1 \in 1..N /\ n \in 0..N /\ n + 1 \in 0..N /\ (n + 1) - 1 = n
        /\ \A i \in 1..n : i \in 1..n + 1 /\ i \in 1..N
        /\ \A i \in 1..n + 1 : i = n + 1 \/ i \in 1..n
    BY <1>2
  <2>2. s \in Seq(T) /\ tag \in T
    BY <1>1, <1>2, <2>1 DEF Keeps
  <2>3. t = IF tag.key \in Keys(s) THEN s ELSE Append(s, tag)
    BY <1>1, <2>1 DEF Keeps
  <2>4. Good(n)
    BY <1>4
  <2> HIDE DEF s, t
  <2>5. /\ KeysDiffer(s)
        /\ Keys(s) = {prompt[i].key : i \in 1..n}
        /\ \A i \in DOMAIN s : \E m \in 1..n : /\ s[i] = prompt[m]
                                               /\ \A j \in 1..m - 1 : prompt[j].key # prompt[m].key
    BY <2>4 DEF s
  <2>6. {prompt[i].key : i \in 1..n + 1} = {prompt[i].key : i \in 1..n} \cup {tag.key}
    BY <2>1
  <2>7. CASE tag.key \in Keys(s)
    <3>1. t = s
      BY <2>3, <2>7
    <3>2. Keys(t) = {prompt[i].key : i \in 1..n + 1}
      BY <2>5, <2>6, <2>7, <3>1
    <3>3. \A i \in DOMAIN t : \E m \in 1..n + 1 :
             t[i] = prompt[m] /\ \A j \in 1..m - 1 : prompt[j].key # prompt[m].key
      BY <2>1, <2>5, <3>1
    <3> QED
      BY <2>1, <2>5, <3>1, <3>2, <3>3 DEF t
  <2>8. CASE tag.key \notin Keys(s)
    <3>1. t = Append(s, tag)
      BY <2>3, <2>8
    <3>2. /\ DOMAIN s = 1..Len(s) /\ Len(s) \in Nat
          /\ DOMAIN t = 1..Len(s) + 1
          /\ \A i \in 1..Len(s) : t[i] = s[i]
          /\ t[Len(s) + 1] = tag
      BY <2>2, <3>1
    <3>3. Keys(t) = Keys(s) \cup {tag.key}
      <4>1. Keys(t) \subseteq Keys(s) \cup {tag.key}
        <5> SUFFICES ASSUME NEW i \in DOMAIN t PROVE t[i].key \in Keys(s) \cup {tag.key}
          BY DEF Keys
        <5> QED
          BY <3>2 DEF Keys
      <4>2. tag.key \in Keys(t)
        BY <3>2 DEF Keys
      <4>3. Keys(s) \subseteq Keys(t)
        <5> SUFFICES ASSUME NEW i \in DOMAIN s PROVE s[i].key \in Keys(t)
          BY DEF Keys
        <5>1. i \in DOMAIN t /\ t[i] = s[i]
          BY <3>2
        <5> QED
          BY <5>1 DEF Keys
      <4> QED
        BY <4>1, <4>2, <4>3
    <3>4. KeysDiffer(t)
      <4> SUFFICES ASSUME NEW i \in DOMAIN t, NEW j \in DOMAIN t, t[i].key = t[j].key PROVE i = j
        BY DEF KeysDiffer
      <4>1. \A l \in 1..Len(s) : s[l].key # tag.key
        BY <2>8, <3>2 DEF Keys
      <4>2. CASE i \in 1..Len(s) /\ j \in 1..Len(s)
        <5>1. s[i].key = s[j].key
          BY <3>2, <4>2
        <5> QED
          BY <2>5, <3>2, <4>2, <5>1 DEF KeysDiffer
      <4>3. CASE i = Len(s) + 1 \/ j = Len(s) + 1
        BY <3>2, <4>1, <4>3
      <4> QED
        BY <3>2, <4>2, <4>3
    <3>5. \A j \in 1..n : prompt[j].key # tag.key
      BY <2>5, <2>8
    <3>6. \A i \in DOMAIN t : \E m \in 1..n + 1 :
             t[i] = prompt[m] /\ \A j \in 1..m - 1 : prompt[j].key # prompt[m].key
      <4> SUFFICES ASSUME NEW i \in DOMAIN t
                   PROVE  \E m \in 1..n + 1 :
                            t[i] = prompt[m] /\ \A j \in 1..m - 1 : prompt[j].key # prompt[m].key
        OBVIOUS
      <4>1. CASE i \in 1..Len(s)
        BY <2>1, <2>5, <3>2, <4>1
      <4>2. CASE i = Len(s) + 1
        <5>1. t[i] = prompt[n + 1] /\ n + 1 \in 1..n + 1 /\ (n + 1) - 1 = n
          BY <2>1, <3>2, <4>2
        <5>2. \A j \in 1..(n + 1) - 1 : prompt[j].key # prompt[n + 1].key
          BY <3>5, <5>1
        <5> QED
          BY <5>1, <5>2
      <4> QED
        BY <3>2, <4>1, <4>2
    <3>7. Keys(t) = {prompt[i].key : i \in 1..n + 1}
      BY <2>5, <2>6, <3>3
    <3> QED
      BY <2>1, <3>4, <3>6, <3>7 DEF t
  <2> QED
    BY <2>7, <2>8
<1> HIDE DEF S
<1>5. 0..N \subseteq S
  BY <1>2, <1>3, <1>4, InductionUpTo
<1>6. N \in S
  BY <1>2, <1>5
<1> DEFINE d == DedupeCommaTags(prompt)
<1>7. d = kept[N] /\ d \in Seq(T)
  BY <1>1, <1>2 DEF Keeps
<1>8. Good(N)
  BY <1>6 DEF S
<1> HIDE DEF d, N
<1>9. /\ KeysDiffer(d)
      /\ Keys(d) = {prompt[i].key : i \in 1..N}
      /\ \A i \in DOMAIN d : \E m \in 1..N : /\ d[i] = prompt[m]
                                             /\ \A j \in 1..m - 1 : prompt[j].key # prompt[m].key
  BY <1>7, <1>8
<1>10. Keys(d) = Keys(prompt)
  <2>1. DOMAIN prompt = 1..N
    BY DEF N
  <2>2. Keys(prompt) = {prompt[i].key : i \in 1..N}
    BY <2>1 DEF Keys
  <2> QED
    BY <1>9, <2>2
<1>11. ASSUME NEW k PROVE FirstOf(d, k) = FirstOf(prompt, k)
  <2>1. DOMAIN prompt = 1..N /\ DOMAIN d = 1..Len(d) /\ Len(d) \in Nat
    BY <1>7 DEF N
  <2>2. ASSUME NEW x \in FirstOf(d, k) PROVE x \in FirstOf(prompt, k)
    <3>1. PICK i \in DOMAIN d : x = d[i] /\ d[i].key = k
      BY <2>2 DEF FirstOf
    <3>2. PICK m \in 1..N : d[i] = prompt[m] /\ \A j \in 1..m - 1 : prompt[j].key # prompt[m].key
      BY <1>9, <3>1
    <3> QED
      BY <2>1, <3>1, <3>2 DEF FirstOf
  <2>3. ASSUME NEW x \in FirstOf(prompt, k) PROVE x \in FirstOf(d, k)
    <3>1. PICK m \in 1..N : /\ x = prompt[m] /\ prompt[m].key = k
                            /\ \A j \in 1..m - 1 : prompt[j].key # k
      BY <2>1, <2>3 DEF FirstOf
    <3>2. PICK i \in DOMAIN d : d[i].key = k
      <4>1. k \in Keys(d)
        BY <1>9, <3>1
      <4> QED
        BY <4>1 DEF Keys
    <3>3. PICK l \in 1..N : d[i] = prompt[l] /\ \A j \in 1..l - 1 : prompt[j].key # prompt[l].key
      BY <1>9, <3>2
    <3>4. l = m
      <4>1. ~(m \in 1..l - 1) /\ ~(l \in 1..m - 1)
        BY <3>1, <3>2, <3>3
      <4> QED
        BY <1>2, <4>1
    <3>5. \A j \in 1..i - 1 : d[j].key # k
      <4> SUFFICES ASSUME NEW j \in 1..i - 1, d[j].key = k PROVE FALSE
        OBVIOUS
      <4>1. j \in DOMAIN d /\ j # i
        BY <2>1
      <4> QED
        BY <1>9, <3>2, <4>1 DEF KeysDiffer
    <3> QED
      BY <3>1, <3>2, <3>3, <3>4, <3>5 DEF FirstOf
  <2> QED
    BY <2>2, <2>3
<1> QED
  BY <1>7, <1>9, <1>10, <1>11 DEF d

LEMMA FirstIs ==
  ASSUME NEW T, NEW prompt \in Seq(T), NEW k
  PROVE  /\ k \notin Keys(prompt) => FirstOf(prompt, k) = {}
         /\ k \in Keys(prompt) =>
              LET i == CHOOSE i \in DOMAIN prompt :
                         prompt[i].key = k /\ \A j \in 1..i - 1 : prompt[j].key # k IN
              /\ i \in DOMAIN prompt /\ prompt[i].key = k
              /\ FirstOf(prompt, k) = {prompt[i]}
<1> DEFINE Is(i) == prompt[i].key = k /\ \A j \in 1..i - 1 : prompt[j].key # k
<1>1. DOMAIN prompt = 1..Len(prompt) /\ Len(prompt) \in Nat
  OBVIOUS
<1>2. k \notin Keys(prompt) => FirstOf(prompt, k) = {}
  BY DEF FirstOf, Keys
<1>3. ASSUME k \in Keys(prompt)
      PROVE  LET i == CHOOSE i \in DOMAIN prompt : Is(i) IN
             /\ i \in DOMAIN prompt /\ Is(i)
             /\ FirstOf(prompt, k) = {prompt[i]}
  <2> DEFINE S == {i \in DOMAIN prompt : prompt[i].key = k}
  <2>1. S \subseteq Nat /\ S # {}
    BY <1>1, <1>3 DEF Keys
  <2>2. PICK m \in S : \A i \in S : m <= i
    <3> HIDE DEF S
    <3> QED
      BY <2>1, LeastNumber
  <2>3. m \in DOMAIN prompt /\ Is(m)
    <3> SUFFICES ASSUME NEW j \in 1..m - 1, prompt[j].key = k PROVE FALSE
      BY <2>2
    <3>1. j \in S /\ ~(m <= j)
      BY <1>1, <2>2
    <3> QED
      BY <2>2, <3>1
  <2> DEFINE i == CHOOSE i \in DOMAIN prompt : Is(i)
  <2>4. i \in DOMAIN prompt /\ Is(i)
    BY <2>3
  <2> HIDE DEF i
  <2>5. ASSUME NEW l \in DOMAIN prompt, Is(l) PROVE l = i
    <3>1. ~(l \in 1..i - 1) /\ ~(i \in 1..l - 1)
      BY <2>4, <2>5
    <3> QED
      BY <1>1, <2>4, <3>1
  <2>6. FirstOf(prompt, k) = {prompt[i]}
    BY <2>4, <2>5 DEF FirstOf
  <2> QED
    BY <2>4, <2>6 DEF i
<1> QED
  BY <1>2, <1>3

\* What is said first is said by the part that comes first.
LEMMA FirstOfBoth ==
  ASSUME NEW T, NEW s \in Seq(T), NEW t \in Seq(T), NEW k
  PROVE  FirstOf(s \o t, k) = IF k \in Keys(s) THEN FirstOf(s, k) ELSE FirstOf(t, k)
<1> DEFINE both == s \o t
           n == Len(s)
<1>1. /\ both \in Seq(T) /\ n \in Nat /\ Len(t) \in Nat
      /\ DOMAIN both = 1..n + Len(t) /\ DOMAIN s = 1..n /\ DOMAIN t = 1..Len(t)
      /\ \A i \in 1..n : both[i] = s[i]
      /\ \A i \in 1..Len(t) : both[n + i] = t[i]
  BY ConcatProperties
<1> HIDE DEF both, n
<1>2. CASE k \in Keys(s)
  <2>1. PICK m \in 1..n : s[m].key = k
    BY <1>1, <1>2 DEF Keys
  <2>2. ASSUME NEW i \in DOMAIN both, \A j \in 1..i - 1 : both[j].key # k PROVE i \in 1..n
    <3>1. ~(m \in 1..i - 1)
      BY <1>1, <2>1, <2>2
    <3> QED
      BY <1>1, <3>1
  <2>3. ASSUME NEW i \in 1..n
        PROVE  /\ both[i] = s[i]
               /\ (\A j \in 1..i - 1 : both[j].key # k) <=> (\A j \in 1..i - 1 : s[j].key # k)
    <3>1. \A j \in 1..i - 1 : j \in 1..n
      BY <1>1
    <3> QED
      BY <1>1, <3>1
  <2>4. FirstOf(both, k) = FirstOf(s, k)
    <3>1. ASSUME NEW x \in FirstOf(both, k) PROVE x \in FirstOf(s, k)
      <4>1. PICK i \in DOMAIN both : /\ x = both[i] /\ both[i].key = k
                                     /\ \A j \in 1..i - 1 : both[j].key # k
        BY <3>1 DEF FirstOf
      <4>2. i \in 1..n
        BY <2>2, <4>1
      <4> QED
        BY <1>1, <2>3, <4>1, <4>2 DEF FirstOf
    <3>2. ASSUME NEW x \in FirstOf(s, k) PROVE x \in FirstOf(both, k)
      <4>1. PICK i \in 1..n : x = s[i] /\ s[i].key = k /\ \A j \in 1..i - 1 : s[j].key # k
        BY <1>1, <3>2 DEF FirstOf
      <4>2. i \in DOMAIN both
        BY <1>1
      <4> QED
        BY <2>3, <4>1, <4>2 DEF FirstOf
    <3> QED
      BY <3>1, <3>2
  <2> QED
    BY <1>2, <2>4 DEF both
<1>3. CASE k \notin Keys(s)
  <2>1. \A i \in 1..n : both[i].key # k
    BY <1>1, <1>3 DEF Keys
  <2>2. ASSUME NEW i \in 1..Len(t)
        PROVE  /\ n + i \in DOMAIN both /\ both[n + i] = t[i]
               /\ (\A j \in 1..(n + i) - 1 : both[j].key # k) <=> (\A j \in 1..i - 1 : t[j].key # k)
    <3>1. n + i \in DOMAIN both /\ both[n + i] = t[i]
      BY <1>1
    <3>2. ASSUME \A j \in 1..(n + i) - 1 : both[j].key # k, NEW j \in 1..i - 1 PROVE t[j].key # k
      <4>1. n + j \in 1..(n + i) - 1 /\ j \in 1..Len(t)
        BY <1>1
      <4> QED
        BY <1>1, <3>2, <4>1
    <3>3. ASSUME \A j \in 1..i - 1 : t[j].key # k, NEW j \in 1..(n + i) - 1 PROVE both[j].key # k
      <4>1. CASE j \in 1..n
        BY <2>1, <4>1
      <4>2. CASE j \notin 1..n
        <5>1. j - n \in 1..i - 1 /\ j - n \in 1..Len(t) /\ n + (j - n) = j
          BY <1>1, <4>2
        <5>2. both[n + (j - n)] = t[j - n]
          BY <1>1, <5>1
        <5> QED
          BY <3>3, <5>1, <5>2
      <4> QED
        BY <4>1, <4>2
    <3> QED
      BY <3>1, <3>2, <3>3
  <2>3. ASSUME NEW x \in FirstOf(both, k) PROVE x \in FirstOf(t, k)
    <3>1. PICK i \in DOMAIN both : /\ x = both[i] /\ both[i].key = k
                                   /\ \A j \in 1..i - 1 : both[j].key # k
      BY <2>3 DEF FirstOf
    <3>2. i - n \in 1..Len(t) /\ n + (i - n) = i
      BY <1>1, <2>1, <3>1
    <3>3. both[i] = t[i - n] /\ \A j \in 1..(i - n) - 1 : t[j].key # k
      <4> DEFINE l == i - n
      <4>1. l \in 1..Len(t) /\ n + l = i
        BY <3>2
      <4> HIDE DEF l
      <4>2. both[i] = t[l] /\ \A j \in 1..l - 1 : t[j].key # k
        BY <2>2, <3>1, <4>1
      <4> QED
        BY <4>2 DEF l
    <3> QED
      BY <1>1, <3>1, <3>2, <3>3 DEF FirstOf
  <2>4. ASSUME NEW x \in FirstOf(t, k) PROVE x \in FirstOf(both, k)
    <3>1. PICK i \in 1..Len(t) : x = t[i] /\ t[i].key = k /\ \A j \in 1..i - 1 : t[j].key # k
      BY <1>1, <2>4 DEF FirstOf
    <3>2. /\ n + i \in DOMAIN both /\ both[n + i] = t[i]
          /\ \A j \in 1..(n + i) - 1 : both[j].key # k
      BY <2>2, <3>1
    <3> QED
      BY <3>1, <3>2 DEF FirstOf
  <2> QED
    BY <1>3, <2>3, <2>4 DEF both
<1> QED
  BY <1>2, <1>3

\* The tags that a prompt says in the form it says them in first.
LEMMA FirstsOf ==
  ASSUME NEW T, NEW prompt \in Seq(T)
  PROVE  /\ \A k : \A t \in FirstOf(prompt, k) : t \in Range(prompt) /\ t.key = k /\ t \in T
         /\ \A k \in Keys(prompt) : FirstOf(prompt, k) # {}
         /\ KeysDiffer(prompt) => \A t \in Range(prompt) : t \in FirstOf(prompt, t.key)
<1>1. DOMAIN prompt = 1..Len(prompt) /\ Len(prompt) \in Nat
  OBVIOUS
<1>2. ASSUME NEW k, NEW t \in FirstOf(prompt, k) PROVE t \in Range(prompt) /\ t.key = k /\ t \in T
  BY <1>1, <1>2 DEF FirstOf, Range
<1>3. \A k \in Keys(prompt) : FirstOf(prompt, k) # {}
  BY FirstIs
<1>4. ASSUME KeysDiffer(prompt), NEW t \in Range(prompt) PROVE t \in FirstOf(prompt, t.key)
  <2>1. PICK i \in DOMAIN prompt : t = prompt[i]
    BY DEF Range
  <2>2. \A j \in 1..i - 1 : prompt[j].key # t.key
    <3> SUFFICES ASSUME NEW j \in 1..i - 1, prompt[j].key = t.key PROVE FALSE
      OBVIOUS
    <3>1. j \in DOMAIN prompt /\ j # i
      BY <1>1
    <3> QED
      BY <1>4, <2>1, <3>1 DEF KeysDiffer
  <2> QED
    BY <2>1, <2>2 DEF FirstOf
<1> QED
  BY <1>2, <1>3, <1>4

\* A prompt without a key that comes twice has as many tags as entries.
LEMMA TagsCounted ==
  ASSUME NEW T, NEW prompt \in Seq(T), KeysDiffer(prompt)
  PROVE  Len(prompt) = Cardinality(Range(prompt)) /\ Len(prompt) = Cardinality(Keys(prompt))
<1> DEFINE n == Len(prompt)
           keys == [i \in 1..n |-> prompt[i].key]
<1>1. n \in Nat /\ DOMAIN prompt = 1..n /\ prompt = [i \in 1..n |-> prompt[i]]
  OBVIOUS
<1> HIDE DEF n
<1>2. prompt \in Bijection(1..n, Range(prompt))
  BY <1>1 DEF KeysDiffer, Bijection, Injection, Surjection, IsInjective, Range
<1>3. keys \in Bijection(1..n, Keys(prompt))
  <2>1. keys \in [1..n -> Keys(prompt)]
    BY <1>1 DEF Keys
  <2>2. \A i, j \in 1..n : keys[i] = keys[j] => i = j
    BY <1>1 DEF KeysDiffer
  <2>3. \A k \in Keys(prompt) : \E i \in 1..n : keys[i] = k
    BY <1>1 DEF Keys
  <2> HIDE DEF keys
  <2> QED
    BY <2>1, <2>2, <2>3 DEF Bijection, Injection, Surjection, IsInjective
<1>4. ExistsBijection(1..n, Range(prompt)) /\ ExistsBijection(1..n, Keys(prompt))
  BY <1>2, <1>3 DEF ExistsBijection
<1>5. Cardinality(Range(prompt)) = n
  BY <1>1, <1>4, FS_CountingElements
<1>6. Cardinality(Keys(prompt)) = n
  BY <1>1, <1>4, FS_CountingElements
<1> QED
  BY <1>5, <1>6 DEF n

(***************************************************************************)
(* What is said of a key is what the prompt says of it first, and from the *)
(* second append on the prompt says nothing twice.                         *)
(***************************************************************************)
LineageInv ==
  LET prompt == EffectivePrompt(version) IN
  /\ version = [own |-> version.own, job |-> version.job, jobPrompt |-> version.jobPrompt]
  /\ prompt \in Seq(Tags)
  /\ said = [k \in TagKeys |-> FirstOf(prompt, k)]
  /\ ~verbatim => KeysDiffer(prompt)

LEMMA SaidFirst ==
  ASSUME NEW prompt \in Seq(Tags)
  PROVE  SaidWith(Nothing, prompt) = [k \in TagKeys |-> FirstOf(prompt, k)]
<1>1. ASSUME NEW k \in TagKeys PROVE SaidWith(Nothing, prompt)[k] = FirstOf(prompt, k)
  <2>1. Nothing[k] = {}
    BY DEF Nothing
  <2>2. CASE k \in Keys(prompt)
    BY <2>1, <2>2, FirstIs DEF SaidWith
  <2>3. CASE k \notin Keys(prompt)
    BY <2>1, <2>3, FirstIs DEF SaidWith
  <2> QED
    BY <2>2, <2>3
<1> QED
  BY <1>1 DEF SaidWith

LEMMA SaidMore ==
  ASSUME NEW s \in Seq(Tags), NEW t \in Seq(Tags)
  PROVE  SaidWith([k \in TagKeys |-> FirstOf(s, k)], t) = [k \in TagKeys |-> FirstOf(s \o t, k)]
<1> DEFINE before == [k \in TagKeys |-> FirstOf(s, k)]
<1>1. ASSUME NEW k \in TagKeys PROVE SaidWith(before, t)[k] = FirstOf(s \o t, k)
  <2>1. before[k] = FirstOf(s, k)
    OBVIOUS
  <2> HIDE DEF before
  <2>2. FirstOf(s \o t, k) = IF k \in Keys(s) THEN FirstOf(s, k) ELSE FirstOf(t, k)
    BY FirstOfBoth
  <2>3. CASE k \in Keys(s)
    <3>1. before[k] # {}
      BY <2>1, <2>3, FirstsOf
    <3> QED
      BY <2>1, <2>2, <2>3, <3>1 DEF SaidWith
  <2>4. CASE k \notin Keys(s)
    <3>1. before[k] = {}
      BY <2>1, <2>4, FirstIs
    <3>2. CASE k \in Keys(t)
      BY <2>2, <2>4, <3>1, <3>2, FirstIs DEF SaidWith
    <3>3. CASE k \notin Keys(t)
      BY <2>2, <2>4, <3>1, <3>3, FirstIs DEF SaidWith
    <3> QED
      BY <3>2, <3>3
  <2> QED
    BY <2>3, <2>4
<1> HIDE DEF before
<1>2. SaidWith(before, t) = [k \in TagKeys |-> SaidWith(before, t)[k]]
  BY DEF SaidWith
<1> QED
  BY <1>1, <1>2 DEF before

LEMMA PromptsAre == \A p \in Prompts : p \in Seq(Tags)
<1>1. \A t \in Tags : <<t>> \in Seq(Tags)
  OBVIOUS
<1>2. \A s, t \in Tags : <<s, t>> \in Seq(Tags)
  OBVIOUS
<1>3. <<>> \in Seq(Tags)
  OBVIOUS
<1> SUFFICES ASSUME NEW p \in Prompts PROVE p \in Seq(Tags)
  OBVIOUS
<1>4. p = <<>> \/ (\E t \in Tags : p = <<t>>) \/ (\E s, t \in Tags : p = <<s, t>>)
  BY DEF Prompts
<1> QED
  BY <1>1, <1>2, <1>3, <1>4

LEMMA LineageInitial == InputsInit => LineageInv
<1> SUFFICES ASSUME InputsInit PROVE LineageInv
  OBVIOUS
<1> DEFINE prompt == IF version.own = <<>> THEN version.jobPrompt ELSE version.own
<1>2. /\ version = [own |-> version.own, job |-> version.job, jobPrompt |-> version.jobPrompt]
      /\ version.own \in Seq(Tags) /\ version.jobPrompt \in Seq(Tags)
      /\ version.job \/ (version.own = <<>> /\ version.jobPrompt = <<>>)
  <2>1. CASE version = [own |-> <<>>, job |-> FALSE, jobPrompt |-> <<>>]
    BY <2>1
  <2>2. CASE version \in {[own |-> p, job |-> TRUE, jobPrompt |-> <<t>>] :
                            p \in {<<>>, <<CHOOSE t \in Tags : TRUE>>}, t \in Tags}
    <3>1. PICK p \in {<<>>, <<CHOOSE t \in Tags : TRUE>>}, t \in Tags :
             version = [own |-> p, job |-> TRUE, jobPrompt |-> <<t>>]
      BY <2>2
    <3>2. (CHOOSE u \in Tags : TRUE) \in Tags
      OBVIOUS
    <3>3. <<t>> \in Seq(Tags) /\ <<CHOOSE u \in Tags : TRUE>> \in Seq(Tags)
      BY <3>2
    <3>4. p = <<>> \/ p = <<CHOOSE u \in Tags : TRUE>>
      BY <3>1
    <3>5. <<>> \in Seq(Tags)
      OBVIOUS
    <3>6. p \in Seq(Tags)
      BY ONLY <3>3, <3>4, <3>5
    <3> QED
      BY <3>1, <3>3, <3>6
  <2> QED
    BY <2>1, <2>2 DEF InputsInit, FirstVersions
<1>3. EffectivePrompt(version) = prompt /\ prompt \in Seq(Tags)
  BY <1>2 DEF EffectivePrompt
<1>4. said = SaidWith(Nothing, prompt) /\ verbatim
  BY DEF InputsInit
<1> HIDE DEF prompt
<1>5. said = [k \in TagKeys |-> FirstOf(prompt, k)]
  BY <1>3, <1>4, SaidFirst
<1> QED
  BY <1>2, <1>3, <1>4, <1>5 DEF LineageInv

LEMMA LineageStep == ASSUME LineageInv, [InputsNext]_inputs PROVE LineageInv'
<1>1. ASSUME NEW request \in RefineRequests, Refine(request), Renders(request) PROVE LineageInv'
  <2> DEFINE prompt == EffectivePrompt(version)
             told == request.instruction
             next == ComposePrompt(prompt, told, request.mode)
             anew == request.mode = "replace" \/ said = Nothing
  <2>1. told \in Seq(Tags) /\ request.mode \in {"append", "replace"}
    BY PromptsAre DEF RefineRequests
  <2>2. version' = [own |-> next, job |-> TRUE, jobPrompt |-> next]
    BY <1>1 DEF Refine, Refined
  <2>3. EffectivePrompt(version)' = next
    BY <2>2 DEF EffectivePrompt
  <2>4. /\ said' = SaidWith(IF anew THEN Nothing ELSE said, told)
        /\ verbatim' = (anew \/ (verbatim /\ told = <<>>))
    BY <1>1 DEF Refine
  <2>5. prompt \in Seq(Tags) /\ said = [k \in TagKeys |-> FirstOf(prompt, k)]
    BY DEF LineageInv
  <2>6. said = Nothing <=> prompt = <<>>
    <3>1. CASE prompt = <<>>
      BY <2>5, <3>1 DEF Nothing, FirstOf
    <3>2. CASE prompt # <<>>
      <4>1. 1 \in DOMAIN prompt /\ prompt[1] \in Tags
        BY <2>5, <3>2
      <4>2. prompt[1].key \in TagKeys /\ prompt[1].key \in Keys(prompt)
        BY <4>1 DEF TagKeys, Keys
      <4>3. said[prompt[1].key] # {} /\ Nothing[prompt[1].key] = {}
        BY <2>5, <4>2, FirstsOf DEF Nothing
      <4> QED
        BY <3>2, <4>3
    <3> QED
      BY <3>1, <3>2
  <2> HIDE DEF prompt, told, anew
  <2>7. CASE anew
    <3>1. request.mode = "replace" \/ prompt = <<>>
      BY <2>6, <2>7 DEF anew
    <3>2. next = told
      BY <3>1 DEF ComposePrompt
    <3>3. said' = [k \in TagKeys |-> FirstOf(told, k)] /\ verbatim'
      BY <2>1, <2>4, <2>7, SaidFirst
    <3> HIDE DEF next
    <3> QED
      BY <2>1, <2>2, <2>3, <3>2, <3>3 DEF LineageInv
  <2>8. CASE ~anew
    <3>1. request.mode # "replace" /\ prompt # <<>>
      BY <2>6, <2>8 DEF anew
    <3>2. said' = [k \in TagKeys |-> FirstOf(prompt \o told, k)]
      BY <2>1, <2>4, <2>5, <2>8, SaidMore
    <3>3. CASE told = <<>>
      <4>1. next = prompt /\ prompt \o told = prompt
        BY <2>5, <3>1, <3>3 DEF ComposePrompt
      <4>2. ~verbatim' => KeysDiffer(prompt)
        BY <2>4, <2>8, <3>3 DEF LineageInv, prompt
      <4> HIDE DEF next
      <4> QED
        BY <2>2, <2>3, <2>5, <3>2, <4>1, <4>2 DEF LineageInv
    <3>4. CASE told # <<>>
      <4>1. next = DedupeCommaTags(prompt \o told)
        BY <3>1, <3>4 DEF ComposePrompt
      <4>2. prompt \o told \in Seq(Tags)
        BY <2>1, <2>5
      <4> HIDE DEF next
      <4>3. /\ next \in Seq(Tags) /\ KeysDiffer(next)
            /\ \A k : FirstOf(next, k) = FirstOf(prompt \o told, k)
        BY <4>1, <4>2, DedupeIs
      <4>4. said' = [k \in TagKeys |-> FirstOf(next, k)]
        BY <3>2, <4>3
      <4> QED
        BY <2>2, <2>3, <4>3, <4>4 DEF LineageInv
    <3> QED
      BY <3>3, <3>4
  <2> QED
    BY <2>7, <2>8
<1>2. ASSUME NEW request, Refine(request), ~Renders(request) PROVE LineageInv'
  BY <1>2 DEF Refine, Refined, LineageInv, TagKeys, EffectivePrompt
<1>3. ASSUME UNCHANGED lineage PROVE LineageInv'
  BY <1>3 DEF lineage, LineageInv, TagKeys, EffectivePrompt
<1>4. (\E request \in RefineRequests : Refine(request)) \/ UNCHANGED lineage
  BY DEF InputsNext, AddLine, AddRegion, AddSubtract, AddReference, AddResult, AddAnswer, inputs
<1> QED
  BY <1>1, <1>2, <1>3, <1>4

(***************************************************************************)
(* compose_prompt(), _resolve_effective_prompt(): however many tags there  *)
(* are and however many rounds refine a version, its prompt has every tag  *)
(* said since the last replacement, in the form it was said in first, and  *)
(* no other (refine.py:202-245, service.py:229-335).                       *)
(***************************************************************************)
THEOREM LineageKept == InputsSpec => []LineageKeepsTags
<1>1. LineageInv => LineageKeepsTags
  <2> SUFFICES ASSUME LineageInv PROVE LineageKeepsTags
    OBVIOUS
  <2> DEFINE prompt == EffectivePrompt(version)
             first == UNION {said[k] : k \in TagKeys}
  <2>1. /\ prompt \in Seq(Tags) /\ said = [k \in TagKeys |-> FirstOf(prompt, k)]
        /\ ~verbatim => KeysDiffer(prompt)
    BY DEF LineageInv
  <2> HIDE DEF prompt
  <2>2. first = UNION {FirstOf(prompt, k) : k \in TagKeys}
    BY <2>1
  <2> HIDE DEF first
  <2>3. Keys(prompt) \subseteq TagKeys /\ \A t \in Range(prompt) : t.key \in Keys(prompt)
    BY <2>1 DEF Keys, TagKeys, Range
  <2>4. first \subseteq Range(prompt)
    BY <2>1, <2>2, FirstsOf
  <2>5. Keys(prompt) = {tag.key : tag \in first}
    <3>1. ASSUME NEW k \in Keys(prompt) PROVE k \in {tag.key : tag \in first}
      <4>1. PICK t \in FirstOf(prompt, k) : t.key = k
        BY <2>1, FirstsOf
      <4>2. t \in first
        BY <2>2, <2>3, <4>1
      <4> QED
        BY <4>1, <4>2
    <3>2. ASSUME NEW t \in first PROVE t.key \in Keys(prompt)
      BY <2>3, <2>4
    <3> QED
      BY <3>1, <3>2
  <2>6. ASSUME ~verbatim PROVE Range(prompt) = first /\ Len(prompt) = Cardinality(first)
    <3>1. \A t \in Range(prompt) : t \in FirstOf(prompt, t.key) /\ t.key \in TagKeys
      BY <2>1, <2>3, <2>6, FirstsOf
    <3>2. Range(prompt) = first
      BY <2>2, <2>4, <3>1
    <3> QED
      BY <2>1, <2>6, <3>2, TagsCounted
  <2> QED
    BY <2>4, <2>5, <2>6 DEF LineageKeepsTags, prompt, first
<1> QED
  BY <1>1, LineageInitial, LineageStep, PTL DEF InputsSpec

-----------------------------------------------------------------------------
(***************************************************************************)
(* The checks of a character's files.                                      *)
(***************************************************************************)
GoodLines(lines) == lines \in Seq(Lines)

\* The next heading, if any, comes first of all the headings.
LEMMA SectionLinesAre ==
  ASSUME section \in Seq(Lines)
  PROVE  GoodLines(SectionLines(section))
<1> DEFINE headings == {i \in DOMAIN section : section[i].kind = "heading"}
           first == CHOOSE i \in headings : \A j \in headings : i <= j
<1>1. CASE headings = {}
  BY <1>1 DEF SectionLines, GoodLines
<1>2. CASE headings # {}
  <2>1. headings \subseteq Nat /\ headings \subseteq 1..Len(section)
    OBVIOUS
  <2>2. \E i \in headings : \A j \in headings : i <= j
    <3> HIDE DEF headings
    <3> QED
      BY <1>2, <2>1, LeastNumber
  <2>3. first \in headings
    BY <2>2
  <2>4. first - 1 \in 0..Len(section)
    <3> HIDE DEF first, headings
    <3> QED
      BY <2>1, <2>3
  <2>5. SectionLines(section) = SubSeq(section, 1, first - 1)
    BY <1>2 DEF SectionLines
  <2> HIDE DEF first
  <2>6. SubSeq(section, 1, first - 1) \in Seq(Lines)
    BY <2>4, SubSeqProperties
  <2> QED
    BY <2>5, <2>6 DEF GoodLines
<1> QED
  BY <1>1, <1>2

\* Every line of a block belongs to one bullet, and no bullet to a block.
LEMMA BlocksApart ==
  ASSUME NEW lines, GoodLines(lines), NEW b \in Bullets(lines), NEW d \in Bullets(lines)
  PROVE  /\ b \in Nat \ {0} /\ b \notin Block(lines, d)
         /\ Block(lines, b) \subseteq DOMAIN lines
         /\ b # d => Block(lines, b) \cap Block(lines, d) = {}
<1>1. DOMAIN lines = 1..Len(lines) /\ Len(lines) \in Nat
  BY DEF GoodLines
<1>2. \A x \in Bullets(lines) : x \in 1..Len(lines) /\ lines[x].kind = "bullet"
  BY <1>1 DEF Bullets
<1>3. ASSUME NEW x \in Bullets(lines), NEW y \in Bullets(lines), x < y,
             NEW i \in Block(lines, x) \cap Block(lines, y)
      PROVE  FALSE
  <2>1. y \in x + 1..i
    BY <1>1, <1>2, <1>3 DEF Block
  <2> QED
    BY <1>2, <1>3, <2>1 DEF Block, DeeperLines, StateLines
<1>4. b # d => Block(lines, b) \cap Block(lines, d) = {}
  <2> SUFFICES ASSUME b # d, NEW i \in Block(lines, b) \cap Block(lines, d) PROVE FALSE
    OBVIOUS
  <2>1. b < d \/ d < b
    BY <1>2
  <2> QED
    BY <1>3, <2>1
<1> QED
  BY <1>1, <1>2, <1>4 DEF Block, DeeperLines, StateLines

\* Without blank lines in between, a block is what is told of the bullet.
LEMMA BlockIsTold ==
  ASSUME NEW lines, NEW b, ~GoesOn(lines, b)
  PROVE  Told(lines, b) = Block(lines, b)
<1>1. DeeperLines \subseteq DeeperLines \cup {"blank"} /\ "blank" \notin DeeperLines
  BY DEF DeeperLines, StateLines
<1>2. ASSUME NEW i \in Told(lines, b) PROVE i \in Block(lines, b)
  <2>1. /\ i \in b + 1..Len(lines) /\ \A j \in b + 1..i : lines[j].kind \in DeeperLines
    BY DEF Told
  <2>2. i \in b + 1..i
    BY <2>1
  <2> QED
    BY <1>1, <2>1, <2>2 DEF Block
<1>3. ASSUME NEW i \in Block(lines, b) PROVE i \in Told(lines, b)
  <2>1. /\ i \in b + 1..Len(lines)
        /\ \A j \in b + 1..i : lines[j].kind \in DeeperLines \cup {"blank"}
    BY DEF Block
  <2>2. \A j \in b + 1..i : lines[j].kind # "blank"
    BY <1>3 DEF GoesOn
  <2> QED
    BY <2>1, <2>2 DEF Told
<1> QED
  BY <1>2, <1>3

\* What the checks of a bullet are about.
LEMMA ChecksOfBullet ==
  ASSUME NEW lines, GoodLines(lines), NEW b \in Bullets(lines), NEW c \in BuildChecks(lines, b)
  PROVE  LET block == Block(lines, b) IN
         /\ c.id[1] = b /\ c.quotes \subseteq {b} \cup block
         /\ ~Splits(lines, b) =>
              /\ c.quotes = {b} \cup block /\ c.overrides = {}
              /\ c.id = <<b, "default">> /\ c.mode = DetectMode(lines, c.quotes)
              /\ c.visual = Visual(lines, c.quotes)
         /\ Splits(lines, b) =>
              \/ /\ c.id = <<b, "default">> /\ c.mode = "default" /\ c.overrides = {}
                 /\ c.quotes = {b} \cup {i \in block : lines[i].mark = "none"}
              \/ /\ c.mode \in Marks \ {"none"} /\ c.id = <<b, c.mode>>
                 /\ c.overrides = {<<b, "default">>}
                 /\ c.quotes = {b} \cup {i \in block : lines[i].mark = c.mode}
<1> DEFINE block == Block(lines, b)
           Of(mark) == {i \in block : lines[i].mark = mark}
           marks == {lines[i].mark : i \in block} \ {"none"}
<1>1. block \subseteq DOMAIN lines
  BY BlocksApart
<1>2. marks \subseteq Marks \ {"none"}
  <2> SUFFICES ASSUME NEW i \in block PROVE lines[i].mark \in Marks
    OBVIOUS
  <2>1. lines[i] \in Lines
    BY <1>1 DEF GoodLines
  <2> QED
    BY <2>1, LinesAssumption
<1> HIDE DEF block
<1>3. CASE ~Splits(lines, b)
  <2>1. c = MakeCheck(lines, b, "default", DetectMode(lines, {b} \cup block), block, {})
    BY <1>3 DEF BuildChecks, block
  <2>2. /\ c.id = <<b, "default">> /\ c.quotes = {b} \cup block /\ c.overrides = {}
        /\ c.mode = DetectMode(lines, {b} \cup block)
        /\ c.visual = Visual(lines, {b} \cup block)
    BY <2>1, Zenon DEF MakeCheck, Check
  <2>3. c.id[1] = b
    BY <2>2
  <2> QED
    BY <1>3, <2>2, <2>3 DEF block
<1>4. CASE Splits(lines, b)
  <2>1. \/ c = MakeCheck(lines, b, "default", "default", Of("none"), {})
        \/ \E m \in marks : c = MakeCheck(lines, b, m, m, Of(m), {<<b, "default">>})
    BY <1>4 DEF BuildChecks, block
  <2>2. CASE c = MakeCheck(lines, b, "default", "default", Of("none"), {})
    <3>1. /\ c.id = <<b, "default">> /\ c.mode = "default" /\ c.overrides = {}
          /\ c.quotes = {b} \cup Of("none")
      BY <2>2 DEF MakeCheck, Check
    <3> QED
      BY <1>4, <3>1 DEF block
  <2>3. ASSUME NEW m \in marks, c = MakeCheck(lines, b, m, m, Of(m), {<<b, "default">>})
        PROVE  /\ c.mode = m /\ c.id = <<b, m>> /\ c.overrides = {<<b, "default">>}
               /\ c.quotes = {b} \cup Of(m)
    BY <2>3 DEF MakeCheck, Check
  <2>4. CASE \E m \in marks : c = MakeCheck(lines, b, m, m, Of(m), {<<b, "default">>})
    <3>1. PICK m \in marks : c = MakeCheck(lines, b, m, m, Of(m), {<<b, "default">>})
      BY <2>4
    <3>2. /\ c.mode = m /\ c.id = <<b, m>> /\ c.overrides = {<<b, "default">>}
          /\ c.quotes = {b} \cup Of(m)
      BY <2>3, <3>1
    <3>3. m \in Marks \ {"none"}
      BY <1>2
    <3>4. c.id[1] = b
      BY <3>2
    <3> HIDE DEF marks
    <3> QED
      BY <1>4, <3>2, <3>3, <3>4 DEF block
  <2> QED
    BY <2>1, <2>2, <2>4
<1> QED
  BY <1>3, <1>4

LEMMA ChecksOfWeapons ==
  ASSUME NEW c \in ParseWeapons(weapons), weapons \in SUBSET Weapons
  PROVE  /\ c.id[1] = 0 /\ c.quotes = {} /\ c.mode \in {"default", "combat"}
         /\ c.overrides = IF c.mode = "combat" THEN {<<0, "hidden">>} ELSE {}
         /\ c.id = <<0, "hidden">> => c.mode = "default"
<1>1. \/ c = Check(<<0, "hidden">>, "default", {}, TRUE, {})
      \/ \E w \in weapons : c = Check(<<0, w>>, "combat", {}, TRUE, {<<0, "hidden">>})
  BY DEF ParseWeapons
<1>2. CASE c = Check(<<0, "hidden">>, "default", {}, TRUE, {})
  BY <1>2 DEF Check
<1>3. ASSUME NEW w \in weapons, c = Check(<<0, w>>, "combat", {}, TRUE, {<<0, "hidden">>})
      PROVE  /\ c.id = <<0, w>> /\ c.quotes = {} /\ c.mode = "combat"
             /\ c.overrides = {<<0, "hidden">>}
  BY <1>3 DEF Check
<1>4. ASSUME NEW w \in weapons, c.id = <<0, w>>, c.id = <<0, "hidden">> PROVE FALSE
  <2>1. <<0, w>>[2] = w /\ <<0, "hidden">>[2] = "hidden"
    OBVIOUS
  <2> QED
    BY <1>4, <2>1, LinesAssumption
<1>5. CASE \E w \in weapons : c = Check(<<0, w>>, "combat", {}, TRUE, {<<0, "hidden">>})
  <2>1. PICK w \in weapons : c = Check(<<0, w>>, "combat", {}, TRUE, {<<0, "hidden">>})
    BY <1>5
  <2>2. /\ c.id = <<0, w>> /\ c.quotes = {} /\ c.mode = "combat"
        /\ c.overrides = {<<0, "hidden">>}
    BY <1>3, <2>1
  <2>3. c.id[1] = 0 /\ c.id # <<0, "hidden">>
    BY <1>4, <2>2
  <2> QED
    BY <2>2, <2>3
<1> QED
  BY <1>1, <1>2, <1>5

\* The checks of all bullets, and what each of them overrides in a mode.
Parsed(lines) == ParseWeapons(weapons) \cup UNION {BuildChecks(lines, b) : b \in Bullets(lines)}

LEMMA ParsedAre ==
  ASSUME NEW lines, NEW c
  PROVE  c \in Parsed(lines) <=>
           c \in ParseWeapons(weapons) \/ \E b \in Bullets(lines) : c \in BuildChecks(lines, b)
  BY DEF Parsed

Counts(c, mode) ==
  /\ c.visual /\ c.mode \in {mode, "default"}
  /\ c.mode # "default" \/ c.id \notin Overridden({d \in Parsed(SectionLines(section)) :
                                                      d.mode \in {mode, "default"}}, mode)

LEMMA ChecklistIs ==
  ASSUME NEW mode
  PROVE  ParseChecklist(section, weapons, mode) =
           {c \in Parsed(SectionLines(section)) : Counts(c, mode)}
<1> DEFINE all == ParseSection(section) \cup ParseWeapons(weapons)
           kept == {c \in all : c.mode \in {mode, "default"}}
<1>1. all = Parsed(SectionLines(section))
  BY DEF ParseSection, Parsed
<1> HIDE DEF all
<1>2. ParseChecklist(section, weapons, mode) =
        {c \in {c \in kept : c.mode # "default" \/ c.id \notin Overridden(kept, mode)} : c.visual}
  BY Zenon DEF ParseChecklist, all
<1>3. ASSUME NEW c
      PROVE  Counts(c, mode) <=> /\ c.visual /\ c.mode \in {mode, "default"}
                                 /\ c.mode # "default" \/ c.id \notin Overridden(kept, mode)
  BY <1>1, Zenon DEF Counts
<1> HIDE DEF Counts
<1> QED
  BY <1>1, <1>2, <1>3

\* A check of a bullet is overridden only by a check of the same bullet.
LEMMA OverriddenIs ==
  ASSUME NEW mode \in Modes, weapons \in SUBSET Weapons, section \in Seq(Lines),
         NEW b \in Bullets(SectionLines(section)), NEW c, c.id = <<b, "default">>,
         c.mode = "default", c.mode \in {mode, "default"}, c.visual
  PROVE  Counts(c, mode) <=>
           ~ \E d \in BuildChecks(SectionLines(section), b) :
               /\ mode # "default" /\ d.mode = mode
               /\ Splits(SectionLines(section), b)
<1> DEFINE lines == SectionLines(section)
           kept == {d \in Parsed(lines) : d.mode \in {mode, "default"}}
<1>1. GoodLines(lines)
  BY SectionLinesAre
<1>2. b # 0 /\ b \in Nat
  BY <1>1, BlocksApart
<1>3. \A x, y : <<x, y>>[1] = x /\ <<x, y>>[2] = y
  OBVIOUS
<1>4. Counts(c, mode) <=> c.id \notin Overridden(kept, mode)
  BY DEF Counts
<1>5. ASSUME NEW d \in BuildChecks(lines, b), mode # "default", d.mode = mode, Splits(lines, b)
      PROVE  c.id \in Overridden(kept, mode)
  <2>1. d.overrides = {<<b, "default">>}
    BY <1>1, <1>5, ChecksOfBullet
  <2>2. d \in kept
    BY <1>5 DEF Parsed
  <2> HIDE DEF kept
  <2> QED
    BY <1>5, <2>1, <2>2 DEF Overridden
<1>6. ASSUME c.id \in Overridden(kept, mode)
      PROVE  mode # "default" /\ \E d \in BuildChecks(lines, b) : d.mode = mode /\ Splits(lines, b)
  <2>1. PICK d \in kept : d.mode = mode /\ <<b, "default">> \in d.overrides /\ mode # "default"
    BY <1>6 DEF Overridden
  <2>2. d \notin ParseWeapons(weapons)
    <3> SUFFICES ASSUME d \in ParseWeapons(weapons) PROVE FALSE
      OBVIOUS
    <3>1. <<b, "default">> = <<0, "hidden">>
      BY <2>1, ChecksOfWeapons
    <3> QED
      BY <1>2, <1>3, <3>1
  <2>3. PICK e \in Bullets(lines) : d \in BuildChecks(lines, e)
    <3>1. d \in Parsed(lines)
      BY <2>1
    <3> HIDE DEF lines
    <3> QED
      BY <2>2, <3>1, ParsedAre
  <2>4. Splits(lines, e) /\ <<b, "default">> = <<e, "default">>
    BY <1>1, <2>1, <2>3, ChecksOfBullet
  <2>5. e = b
    BY <1>3, <2>4
  <2> QED
    BY <2>1, <2>3, <2>4, <2>5
<1> QED
  BY <1>4, <1>5, <1>6

\* The lines that the checks of a mode quote.
Quotes(mode) == Quoted(section, weapons, mode)

\* A line around a bullet is quoted by the checks of that bullet only.
LEMMA QuotedAround ==
  ASSUME NEW mode \in Modes, weapons \in SUBSET Weapons, section \in Seq(Lines),
         NEW b \in Bullets(SectionLines(section)),
         NEW x \in {b} \cup Block(SectionLines(section), b)
  PROVE  x \in Quotes(mode) <=>
           \E c \in BuildChecks(SectionLines(section), b) : Counts(c, mode) /\ x \in c.quotes
<1> DEFINE lines == SectionLines(section)
<1>1. GoodLines(lines)
  BY SectionLinesAre
<1>2. x \in Quotes(mode) <=> \E c \in Parsed(lines) : Counts(c, mode) /\ x \in c.quotes
  BY ChecklistIs DEF Quotes, Quoted
<1>3. b \in Bullets(lines) /\ x \in {b} \cup Block(lines, b)
  OBVIOUS
<1>4. ASSUME NEW c \in Parsed(lines), x \in c.quotes PROVE c \in BuildChecks(lines, b)
  <2>1. c \notin ParseWeapons(weapons)
    BY <1>4, ChecksOfWeapons
  <2>2. PICK e \in Bullets(lines) : c \in BuildChecks(lines, e)
    BY <1>4, <2>1, ParsedAre
  <2>3. x \in {e} \cup Block(lines, e)
    BY <1>1, <1>4, <2>2, ChecksOfBullet
  <2> HIDE DEF lines
  <2>4. e = b
    BY <1>1, <1>3, <2>3, BlocksApart
  <2> QED
    BY <2>2, <2>4
<1>5. \A c \in BuildChecks(lines, b) : c \in Parsed(lines)
  BY <1>3, ParsedAre
<1> QED
  BY <1>2, <1>4, <1>5

\* A bullet that does not tell its states apart is quoted as a whole or not at all.
LEMMA WholeBullets ==
  ASSUME NEW mode \in Modes, weapons \in SUBSET Weapons, section \in Seq(Lines),
         NEW b \in Bullets(SectionLines(section)), ~Splits(SectionLines(section), b)
  PROVE  LET lines == SectionLines(section)
             around == {b} \cup Block(lines, b) IN
         Quotes(mode) \cap around \in {{}, around}
<1> DEFINE lines == SectionLines(section)
           around == {b} \cup Block(lines, b)
<1>1. GoodLines(lines)
  BY SectionLinesAre
<1>2. \A c \in BuildChecks(lines, b) : c.quotes = around
  BY <1>1, ChecksOfBullet
<1>3. \A x \in around : x \in Quotes(mode) <=>
        \E c \in BuildChecks(lines, b) : Counts(c, mode) /\ x \in c.quotes
  BY QuotedAround
<1> HIDE DEF around
<1>4. CASE \E c \in BuildChecks(lines, b) : Counts(c, mode)
  <2>1. Quotes(mode) \cap around = around
    BY <1>2, <1>3, <1>4
  <2> QED
    BY <2>1 DEF around
<1>5. CASE ~ \E c \in BuildChecks(lines, b) : Counts(c, mode)
  <2>1. Quotes(mode) \cap around = {}
    BY <1>3, <1>5
  <2> QED
    BY <2>1 DEF around
<1> QED
  BY <1>4, <1>5

\* A bullet that tells its states apart asks in a mode for the lines of that mode.
LEMMA StatesAsked ==
  ASSUME NEW mode \in Modes, weapons \in SUBSET Weapons, section \in Seq(Lines),
         NEW b \in Bullets(SectionLines(section)), ~GoesOn(SectionLines(section), b),
         TellsStates(SectionLines(section), b)
  PROVE  LET lines == SectionLines(section) IN
         Quotes(mode) \cap Block(lines, b) = Asked(lines, b, mode)
<1> DEFINE lines == SectionLines(section)
           block == Block(lines, b)
           Of(mark) == {i \in block : lines[i].mark = mark}
           whole == MakeCheck(lines, b, "default", DetectMode(lines, {b} \cup block), block, {})
           plain == MakeCheck(lines, b, "default", "default", Of("none"), {})
           marked(m) == MakeCheck(lines, b, m, m, Of(m), {<<b, "default">>})
<1>1. GoodLines(lines) /\ b \in Bullets(lines)
  BY SectionLinesAre
<1>0. Told(lines, b) = block
  BY BlockIsTold
<1>2. /\ ~lines[b].rest /\ lines[b].mark = "none"
      /\ \A i \in {b} \cup block : lines[i].content = "visible"
      /\ \A i \in block : lines[i].kind = "state"
      /\ Of("none") # {}
  BY <1>0 DEF TellsStates
<1>3. b \notin block /\ block \subseteq DOMAIN lines
  BY <1>1, BlocksApart
<1>4. Splits(lines, b) <=> \E i \in block : lines[i].mark # "none"
  BY <1>2 DEF Splits, StateLines
<1>5. \A x \in block : x \in Quotes(mode) <=>
        \E c \in BuildChecks(lines, b) : Counts(c, mode) /\ x \in c.quotes
  BY QuotedAround
<1>6. /\ ~Splits(lines, b) => BuildChecks(lines, b) = {whole}
      /\ Splits(lines, b) =>
           BuildChecks(lines, b) =
             {plain} \cup {marked(m) : m \in {lines[i].mark : i \in block} \ {"none"}}
  BY DEF BuildChecks
<1>7. \A of \in SUBSET block : Visual(lines, {b} \cup of)
  <2> SUFFICES ASSUME NEW of \in SUBSET block PROVE Visual(lines, {b} \cup of)
    OBVIOUS
  <2>1. {lines[i].content : i \in {b} \cup of} = {"visible"}
    BY <1>2
  <2> QED
    BY <2>1 DEF Visual
<1>8. Asked(lines, b, mode) = IF Of(mode) # {} THEN Of(mode) ELSE Of("none")
  BY <1>0 DEF Asked
<1> HIDE DEF block, lines
<1>9. CASE ~Splits(lines, b)
  <2>1. Of("none") = block /\ Of(mode) = {}
    BY <1>4, <1>9 DEF Modes
  <2>2. DetectMode(lines, {b} \cup block) = "default"
    <3>1. {i \in {b} \cup block : lines[i].mark # "none"} = {}
      BY <1>2, <1>4, <1>9
    <3> QED
      BY <3>1 DEF DetectMode
  <2>3. /\ whole.id = <<b, "default">> /\ whole.mode = "default" /\ whole.visual
        /\ whole.quotes = {b} \cup block
    <3>1. Visual(lines, {b} \cup block)
      BY <1>7
    <3> QED
      BY <2>2, <3>1 DEF MakeCheck, Check
  <2> HIDE DEF whole
  <2>4. Counts(whole, mode)
    BY <1>9, <2>3, OverriddenIs DEF lines
  <2>5. \A x \in block : x \in Quotes(mode)
    BY <1>5, <1>6, <1>9, <2>3, <2>4
  <2>6. Quotes(mode) \cap block = Asked(lines, b, mode)
    BY <1>8, <2>1, <2>5
  <2> QED
    BY <2>6 DEF lines, block
<1>10. CASE Splits(lines, b)
  <2>1. /\ plain.id = <<b, "default">> /\ plain.mode = "default" /\ plain.visual
        /\ plain.quotes = {b} \cup Of("none")
    <3>1. Visual(lines, {b} \cup Of("none"))
      BY <1>7
    <3> QED
      BY <3>1 DEF MakeCheck, Check
  <2>2. \A m : /\ marked(m).mode = m /\ marked(m).visual
               /\ marked(m).quotes = {b} \cup Of(m)
    <3> SUFFICES ASSUME NEW m
                 PROVE  /\ marked(m).mode = m /\ marked(m).visual
                        /\ marked(m).quotes = {b} \cup Of(m)
      OBVIOUS
    <3>1. Visual(lines, {b} \cup Of(m))
      BY <1>7
    <3> QED
      BY <3>1 DEF MakeCheck, Check
  <2>3. \A m : m \in {lines[i].mark : i \in block} <=> Of(m) # {}
    OBVIOUS
  <2>4. Of("default") = {}
    <3> SUFFICES ASSUME NEW i \in block, lines[i].mark = "default" PROVE FALSE
      OBVIOUS
    <3>1. lines[i] \in Lines
      BY <1>1, <1>3 DEF GoodLines
    <3> QED
      BY <3>1, LinesAssumption DEF Marks
  <2> HIDE DEF plain, marked, Of
  <2>5. Counts(plain, mode) <=>
          ~ \E d \in BuildChecks(lines, b) : mode # "default" /\ d.mode = mode
    BY <1>10, <2>1, OverriddenIs DEF lines
  <2>6. (\E d \in BuildChecks(lines, b) : mode # "default" /\ d.mode = mode) <=> Of(mode) # {}
    <3>1. \A d \in BuildChecks(lines, b) : d = plain \/ \E m : Of(m) # {} /\ d = marked(m)
      BY <1>6, <1>10, <2>3
    <3>2. \A m : Of(m) # {} /\ m # "none" => marked(m) \in BuildChecks(lines, b)
      BY <1>6, <1>10, <2>3
    <3>3. mode # "none"
      BY DEF Modes
    <3> QED
      BY <2>1, <2>2, <2>4, <3>1, <3>2, <3>3
  <2>7. CASE Of(mode) # {}
    <3>1. mode # "default" /\ mode # "none"
      BY <2>4, <2>7 DEF Modes
    <3>2. ~Counts(plain, mode)
      BY <2>5, <2>6, <2>7
    <3>3. marked(mode) \in BuildChecks(lines, b)
      BY <1>6, <1>10, <2>3, <2>7, <3>1
    <3>4. Counts(marked(mode), mode)
      BY <2>2, <3>1 DEF Counts
    <3>5. \A c \in BuildChecks(lines, b) : Counts(c, mode) => c = marked(mode)
      <4> SUFFICES ASSUME NEW c \in BuildChecks(lines, b), Counts(c, mode) PROVE c = marked(mode)
        OBVIOUS
      <4>1. PICK m : Of(m) # {} /\ c = marked(m)
        BY <1>6, <1>10, <2>3, <3>2
      <4>2. m \in {mode, "default"}
        BY <2>2, <4>1 DEF Counts
      <4> QED
        BY <2>4, <4>1, <4>2
    <3>6. \A x \in block : x \in Quotes(mode) <=> x \in Of(mode)
      BY <1>3, <1>5, <2>2, <3>3, <3>4, <3>5
    <3>7. Of(mode) \subseteq block
      BY DEF Of
    <3>8. Quotes(mode) \cap block = Asked(lines, b, mode)
      BY <1>8, <2>7, <3>6, <3>7
    <3> QED
      BY <3>8 DEF lines, block
  <2>8. CASE Of(mode) = {}
    <3>1. Counts(plain, mode) /\ plain \in BuildChecks(lines, b)
      BY <1>6, <1>10, <2>5, <2>6, <2>8
    <3>2. \A c \in BuildChecks(lines, b) : Counts(c, mode) => c = plain
      <4> SUFFICES ASSUME NEW c \in BuildChecks(lines, b), Counts(c, mode), c # plain PROVE FALSE
        OBVIOUS
      <4>1. PICK m : Of(m) # {} /\ c = marked(m)
        BY <1>6, <1>10, <2>3
      <4>2. m \in {mode, "default"}
        BY <2>2, <4>1 DEF Counts
      <4> QED
        BY <2>4, <2>8, <4>1, <4>2
    <3>3. \A x \in block : x \in Quotes(mode) <=> x \in Of("none")
      BY <1>3, <1>5, <2>1, <3>1, <3>2
    <3>4. Of("none") \subseteq block
      BY DEF Of
    <3>5. Quotes(mode) \cap block = Asked(lines, b, mode)
      BY <1>8, <2>8, <3>3, <3>4
    <3> QED
      BY <3>5 DEF lines, block
  <2> QED
    BY <2>7, <2>8
<1> QED
  BY <1>9, <1>10

\* No check of a mode overrides another check of that mode.
LEMMA NoneOverridden ==
  ASSUME NEW mode \in Modes, weapons \in SUBSET Weapons, section \in Seq(Lines),
         NEW c \in ParseChecklist(section, weapons, mode),
         NEW d \in ParseChecklist(section, weapons, mode)
  PROVE  c.id \notin d.overrides
<1> DEFINE lines == SectionLines(section)
           kept == {e \in Parsed(lines) : e.mode \in {mode, "default"}}
<1> SUFFICES ASSUME c.id \in d.overrides PROVE FALSE
  OBVIOUS
<1>1. GoodLines(lines)
  BY SectionLinesAre
<1>2. c \in Parsed(lines) /\ Counts(c, mode) /\ d \in Parsed(lines) /\ Counts(d, mode)
  BY ChecklistIs
<1>3. \A x, y : <<x, y>>[1] = x /\ <<x, y>>[2] = y
  OBVIOUS
<1>4. d.mode # "default" /\ c.mode = "default"
  <2>1. CASE d \in ParseWeapons(weapons)
    <3>1. d.mode = "combat" /\ c.id = <<0, "hidden">>
      BY <2>1, ChecksOfWeapons
    <3>2. c.id[1] = 0
      BY <1>3, <3>1
    <3>3. c \in ParseWeapons(weapons)
      <4> SUFFICES ASSUME c \notin ParseWeapons(weapons) PROVE FALSE
        OBVIOUS
      <4>1. PICK e \in Bullets(lines) : c \in BuildChecks(lines, e)
        BY <1>2, ParsedAre
      <4>2. c.id[1] = e /\ e # 0
        BY <1>1, <4>1, ChecksOfBullet, BlocksApart
      <4> QED
        BY <3>2, <4>2
    <3> QED
      BY <3>1, <3>3, ChecksOfWeapons
  <2>2. CASE d \notin ParseWeapons(weapons)
    <3>1. PICK b \in Bullets(lines) : d \in BuildChecks(lines, b)
      BY <1>2, <2>2, ParsedAre
    <3>2. Splits(lines, b) /\ d.mode \in Marks \ {"none"} /\ c.id = <<b, "default">>
      BY <1>1, <3>1, ChecksOfBullet
    <3>3. c.id[1] = b /\ c.id[2] = "default" /\ b # 0
      BY <1>1, <1>3, <3>2, BlocksApart
    <3>4. c \notin ParseWeapons(weapons)
      BY <3>3, ChecksOfWeapons
    <3>5. PICK e \in Bullets(lines) : c \in BuildChecks(lines, e)
      BY <1>2, <3>4, ParsedAre
    <3>6. c.id[1] = e
      BY <1>1, <3>5, ChecksOfBullet
    <3>7. c \in BuildChecks(lines, b)
      BY <3>3, <3>5, <3>6
    <3>8. c.mode = "default" \/ (c.mode \in Marks \ {"none"} /\ c.id = <<b, c.mode>>)
      BY <1>1, <3>2, <3>7, ChecksOfBullet
    <3>9. c.mode = "default"
      BY <1>3, <3>3, <3>8
    <3> QED
      BY <3>2, <3>9 DEF Marks
  <2> QED
    BY <2>1, <2>2
<1>5. d.mode = mode /\ mode # "default" /\ d \in kept
  BY <1>2, <1>4 DEF Counts
<1>6. c.id \in Overridden(kept, mode)
  <2> HIDE DEF kept
  <2> QED
    BY <1>5 DEF Overridden
<1> QED
  BY <1>2, <1>4, <1>6 DEF Counts

(***************************************************************************)
(* parse_character_checklist(): whatever lines the two files tell a        *)
(* character in, and whatever it carries, each render mode checks of every *)
(* bullet that tells its states apart the lines of that mode, of a bullet  *)
(* with prose all lines or none, and nothing that another of its checks    *)
(* overrides; bullets that go on behind a blank line or have bold          *)
(* sub-bullets are left out, as there the parser does not do what its      *)
(* docstrings say (fidelity.py).                                           *)
(***************************************************************************)
THEOREM ChecklistExact == InputsSpec => []ChecklistIsExact
<1>1. Grown => ChecklistIsExact
  <2> SUFFICES ASSUME Grown, NEW mode \in Modes
               PROVE  LET lines == SectionLines(section)
                          checks == ParseChecklist(section, weapons, mode)
                          quoted == Quoted(section, weapons, mode) IN
                      /\ \A b \in Bullets(lines) :
                           LET told == Told(lines, b) IN
                           ~GoesOn(lines, b) =>
                             /\ TellsStates(lines, b) => quoted \cap told = Asked(lines, b, mode)
                             /\ (\E i \in told : lines[i].kind = "prose") => Whole(lines, b, quoted)
                      /\ \A c, d \in checks : c.id \notin d.overrides
    BY DEF ChecklistIsExact, StatesAreExact
  <2> DEFINE lines == SectionLines(section)
  <2>1. section \in Seq(Lines) /\ weapons \in SUBSET Weapons
    BY DEF Grown
  <2>2. ASSUME NEW b \in Bullets(lines), ~GoesOn(lines, b), TellsStates(lines, b)
        PROVE  Quotes(mode) \cap Told(lines, b) = Asked(lines, b, mode)
    <3>1. Quotes(mode) \cap Block(lines, b) = Asked(lines, b, mode)
      BY <2>1, <2>2, StatesAsked
    <3> QED
      BY <2>2, <3>1, BlockIsTold
  <2>3. ASSUME NEW b \in Bullets(lines), ~GoesOn(lines, b),
               \E i \in Told(lines, b) : lines[i].kind = "prose"
        PROVE  Whole(lines, b, Quotes(mode))
    <3>1. Told(lines, b) = Block(lines, b)
      BY <2>3, BlockIsTold
    <3>2. ~Splits(lines, b)
      BY <2>3, <3>1 DEF Splits, StateLines
    <3>3. Quotes(mode) \cap ({b} \cup Block(lines, b)) \in {{}, {b} \cup Block(lines, b)}
      BY <2>1, <3>2, WholeBullets
    <3> QED
      BY <3>1, <3>3, Zenon DEF Whole
  <2>4. \A c, d \in ParseChecklist(section, weapons, mode) : c.id \notin d.overrides
    BY <2>1, NoneOverridden
  <2> QED
    BY <2>2, <2>3, <2>4, Zenon DEF Quotes
<1> QED
  BY <1>1, InputsAreGrown, PTL

-----------------------------------------------------------------------------
(***************************************************************************)
(* The walk along the references: detect_cycles().                         *)
(***************************************************************************)
Named == Projects \cup {Gone}
Graphs == [Projects -> SUBSET Named]

AnyCall == [project : Named, visited : SUBSET Named, path : Seq(Named)]

\* The call for q that the call c makes, and all calls that c makes.
CallFor(g, c, q) ==
  [project |-> q, visited |-> VisitedFrom(g, c.visited, c.project), path |-> Append(c.path, q)]
CallsOf(g, c) == {CallFor(g, c, q) : q \in Followed(g, c.project) \ c.visited}

FirstCall(p) == [project |-> p, visited |-> {}, path |-> <<p>>]

LEMMA FollowedAre ==
  ASSUME NEW g \in Graphs, NEW p
  PROVE  /\ Followed(g, p) \subseteq Named /\ p \notin Followed(g, p)
         /\ Followed(g, p) # {} => p \in Projects
  BY DEF Followed, Graphs

\* Each level of nested calls are the calls that the level before it makes.
LEMMA CallsUnroll ==
  ASSUME NEW g \in Graphs, NEW p \in Projects
  PROVE  /\ Calls(g, p)[0] = {FirstCall(p)}
         /\ \A n \in Nat : Calls(g, p)[n + 1] = UNION {CallsOf(g, c) : c \in Calls(g, p)[n]}
         /\ \A n \in Nat : Calls(g, p)[n] \subseteq AnyCall
<1> DEFINE NextCalls(calls) == UNION {CallsOf(g, c) : c \in calls}
           F(f) == [n \in Nat |-> IF n = 0 THEN {FirstCall(p)} ELSE NextCalls(f[n - 1])]
           level == CHOOSE f : f = F(f)
           step == [x \in Nat \X SUBSET AnyCall |-> NextCalls(x[2])]
<1>1. Calls(g, p) = level
  BY DEF Calls, CallsOf, CallFor, FirstCall
<1>2. FirstCall(p) \in AnyCall
  BY DEF FirstCall, AnyCall, Named
<1>3. \A c \in AnyCall : CallsOf(g, c) \subseteq AnyCall
  <2> SUFFICES ASSUME NEW c \in AnyCall, NEW q \in Followed(g, c.project)
               PROVE  CallFor(g, c, q) \in AnyCall
    BY DEF CallsOf
  <2>1. q \in Named /\ c.project \in Named /\ c.visited \in SUBSET Named /\ c.path \in Seq(Named)
    BY FollowedAre DEF AnyCall
  <2>2. Append(c.path, q) \in Seq(Named)
    BY <2>1
  <2> QED
    BY <2>1, <2>2 DEF CallFor, VisitedFrom, AnyCall
<1>4. \A calls \in SUBSET AnyCall : NextCalls(calls) \in SUBSET AnyCall
  BY <1>3
<1> HIDE DEF Next
<1>5. step \in [Nat \X SUBSET AnyCall -> SUBSET AnyCall]
  BY <1>4
<1>6. \A n \in Nat, calls \in SUBSET AnyCall : step[<<n, calls>>] = NextCalls(calls)
  OBVIOUS
<1>7. {FirstCall(p)} \in SUBSET AnyCall
  BY <1>2
<1> HIDE DEF step
<1>8. PICK f \in [Nat -> SUBSET AnyCall] : Unrolls(f, {FirstCall(p)}, step)
  BY <1>5, <1>7, RecursionOnNat
<1>9. f = F(f)
  <2>1. \A n \in Nat : f[n] = IF n = 0 THEN {FirstCall(p)} ELSE NextCalls(f[n - 1])
    <3> SUFFICES ASSUME NEW n \in Nat, n # 0 PROVE f[n] = NextCalls(f[n - 1])
      BY <1>8 DEF Unrolls
    <3>1. n - 1 \in Nat /\ (n - 1) + 1 = n
      OBVIOUS
    <3>2. f[n] = step[<<n - 1, f[n - 1]>>] /\ f[n - 1] \in SUBSET AnyCall
      BY <1>8, <3>1 DEF Unrolls
    <3> QED
      BY <1>6, <3>1, <3>2
  <2> QED
    BY <1>8, <2>1
<1>10. level = F(level)
  <2> HIDE DEF F
  <2> QED
    BY <1>9
<1> HIDE DEF level
<1>11. \A n \in Nat : level[n] = IF n = 0 THEN {FirstCall(p)} ELSE NextCalls(level[n - 1])
  BY <1>10, Zenon
<1>12. level[0] = {FirstCall(p)}
  BY <1>11
<1>13. ASSUME NEW n \in Nat PROVE level[n + 1] = NextCalls(level[n])
  <2>1. n + 1 \in Nat /\ n + 1 # 0 /\ (n + 1) - 1 = n
    OBVIOUS
  <2> QED
    BY <1>11, <2>1
<1> DEFINE S == {n \in Nat : level[n] \in SUBSET AnyCall}
<1>14. Nat \subseteq S
  <2>1. 0 \in S
    BY <1>7, <1>12
  <2>2. \A n \in Nat : n \in S => n + 1 \in S
    BY <1>4, <1>13
  <2> HIDE DEF S
  <2> QED
    BY <2>1, <2>2, InductionOnNat
<1> QED
  BY <1>1, <1>12, <1>13, <1>14 DEF Next

\* A call is nested as deep as its path is long, and visits no project twice.
CallIs(g, p, n, c) ==
  /\ c.path \in Seq(Named) /\ Len(c.path) = n + 1
  /\ c.path[1] = p /\ c.path[n + 1] = c.project /\ c.project \in Named
  /\ c.visited = {c.path[i] : i \in 1..n} /\ c.visited \subseteq Projects
  /\ IsWalk(g, c.path)
  /\ c.project \notin c.visited
  /\ \A i, j \in 1..n : c.path[i] = c.path[j] => i = j

LEMMA NextCallIs ==
  ASSUME NEW g \in Graphs, NEW p \in Projects, NEW n \in Nat, NEW c, CallIs(g, p, n, c),
         NEW q \in Followed(g, c.project), q \notin c.visited
  PROVE  CallIs(g, p, n + 1, CallFor(g, c, q))
<1> DEFINE s == c.path
           t == Append(c.path, q)
           d == CallFor(g, c, q)
<1>1. d.project = q /\ d.visited = c.visited \cup {c.project} /\ d.path = t
  BY DEF CallFor, VisitedFrom
<1>2. /\ s \in Seq(Named) /\ Len(s) = n + 1 /\ s[1] = p /\ s[n + 1] = c.project
      /\ c.visited = {s[i] : i \in 1..n} /\ c.visited \subseteq Projects
      /\ \A i \in 1..n : s[i + 1] \in Followed(g, s[i])
      /\ c.project \notin c.visited
      /\ \A i, j \in 1..n : s[i] = s[j] => i = j
  <2>1. (n + 1) - 1 = n
    OBVIOUS
  <2> QED
    BY <2>1 DEF CallIs, IsWalk
<1>3. q \in Named /\ q # c.project /\ c.project \in Projects
  BY FollowedAre
<1>4. /\ t \in Seq(Named) /\ Len(t) = n + 2
      /\ \A i \in 1..n + 1 : t[i] = s[i]
      /\ t[n + 2] = q
  BY <1>2, <1>3
<1> HIDE DEF d, s, t
<1>5. t[1] = p /\ (n + 1) + 1 = n + 2 /\ (n + 2) - 1 = n + 1 /\ 1 \in 1..n + 1 /\ n + 1 \in 1..n + 1
  BY <1>2, <1>4
<1>6. \A i \in 1..n + 1 : i = n + 1 \/ (i \in 1..n /\ i + 1 \in 1..n + 1)
  OBVIOUS
<1>7. c.visited \cup {c.project} = {t[i] : i \in 1..n + 1}
  <2>1. \A i \in 1..n : i \in 1..n + 1
    OBVIOUS
  <2> QED
    BY <1>2, <1>4, <1>5, <1>6, <2>1
<1>8. IsWalk(g, t)
  <2> SUFFICES ASSUME NEW i \in 1..n + 1 PROVE t[i + 1] \in Followed(g, t[i])
    BY <1>4, <1>5 DEF IsWalk
  <2>1. CASE i = n + 1
    BY <1>2, <1>4, <1>5, <2>1
  <2>2. CASE i # n + 1
    BY <1>2, <1>4, <1>6, <2>2
  <2> QED
    BY <2>1, <2>2
<1>9. q \notin c.visited \cup {c.project}
  BY <1>3
<1>10. \A i, j \in 1..n + 1 : t[i] = t[j] => i = j
  <2> SUFFICES ASSUME NEW i \in 1..n + 1, NEW j \in 1..n + 1, s[i] = s[j], i # j PROVE FALSE
    BY <1>4
  <2>1. \A k \in 1..n : s[k] # c.project
    BY <1>2
  <2> QED
    BY <1>2, <1>6, <2>1
<1>11. Len(t) = (n + 1) + 1 /\ t[(n + 1) + 1] = q
  BY <1>4, <1>5
<1>12. c.visited \cup {c.project} \subseteq Projects
  BY <1>2, <1>3
<1>13. CallIs(g, p, n + 1, d)
  <2> DEFINE visited == c.visited \cup {c.project}
  <2>1. d.project = q /\ d.visited = visited /\ d.path = t
    BY <1>1
  <2>2. /\ visited = {t[i] : i \in 1..n + 1} /\ visited \subseteq Projects /\ q \notin visited
    BY <1>7, <1>9, <1>12
  <2> HIDE DEF visited
  <2> QED
    BY ONLY <2>1, <2>2, <1>3, <1>4, <1>5, <1>8, <1>10, <1>11 DEF CallIs
<1> QED
  BY <1>13 DEF d

LEMMA CallsAre ==
  ASSUME NEW g \in Graphs, NEW p \in Projects
  PROVE  \A n \in Nat : \A c \in Calls(g, p)[n] : CallIs(g, p, n, c)
<1> DEFINE level == Calls(g, p)
           S == {n \in Nat : \A c \in level[n] : CallIs(g, p, n, c)}
<1> HIDE DEF level
<1>1. 0 \in S
  <2>1. CallIs(g, p, 0, FirstCall(p))
    BY DEF CallIs, FirstCall, IsWalk, Named
  <2> QED
    BY <2>1, CallsUnroll DEF level
<1>2. ASSUME NEW n \in Nat, n \in S PROVE n + 1 \in S
  <2> SUFFICES ASSUME NEW d \in level[n + 1] PROVE CallIs(g, p, n + 1, d)
    OBVIOUS
  <2>1. PICK c \in level[n] : d \in CallsOf(g, c)
    <3>1. level[n + 1] = UNION {CallsOf(g, c) : c \in level[n]}
      BY CallsUnroll DEF level
    <3> QED
      BY <3>1
  <2>2. PICK q \in Followed(g, c.project) \ c.visited : d = CallFor(g, c, q)
    BY <2>1 DEF CallsOf
  <2>3. CallIs(g, p, n, c)
    BY <1>2
  <2> QED
    BY <2>2, <2>3, NextCallIs
<1> HIDE DEF S
<1>3. Nat \subseteq S
  BY <1>1, <1>2, InductionOnNat
<1> QED
  BY <1>3 DEF S, level

\* The calls end: a path has no more projects than there are.
LEMMA CallsEnd ==
  ASSUME NEW g \in Graphs, NEW p \in Projects, NEW n \in Nat, n > Cardinality(Projects)
  PROVE  Calls(g, p)[n] = {}
<1> SUFFICES ASSUME NEW c \in Calls(g, p)[n] PROVE FALSE
  OBVIOUS
<1>1. CallIs(g, p, n, c)
  BY CallsAre
<1> DEFINE f == [i \in 1..n |-> c.path[i]]
<1>2. /\ \A i \in 1..n : c.path[i] \in Projects
      /\ \A i, j \in 1..n : c.path[i] = c.path[j] => i = j
  BY <1>1 DEF CallIs
<1>3. f \in [1..n -> Projects]
  BY <1>2
<1>4. IsFiniteSet(1..n) /\ Cardinality(1..n) = n /\ IsFiniteSet(Projects)
  <2>1. IsFiniteSet(1..n) /\ Cardinality(1..n) = IF 1 > n THEN 0 ELSE n - 1 + 1
    <3>1. 1 \in Int /\ n \in Int
      OBVIOUS
    <3> QED
      BY ONLY <3>1, FS_Interval
  <2>2. (IF 1 > n THEN 0 ELSE n - 1 + 1) = n
    OBVIOUS
  <2> QED
    BY <2>1, <2>2, ProjectsAssumption
<1> HIDE DEF f
<1>5. PICK i \in 1..n, j \in 1..n : i # j /\ f[i] = f[j]
  BY <1>3, <1>4, FS_PigeonHole
<1>6. f[i] = c.path[i] /\ f[j] = c.path[j]
  BY DEF f
<1> QED
  BY <1>2, <1>5, <1>6

\* The calls around a call: one for each project of its path.
LEMMA CallsAround ==
  ASSUME NEW g \in Graphs, NEW p \in Projects
  PROVE  \A n \in Nat : \A c \in Calls(g, p)[n], i \in 0..n :
           \E d \in Calls(g, p)[i] : d.project = c.path[i + 1]
<1> DEFINE level == Calls(g, p)
           S == {n \in Nat : \A c \in level[n], i \in 0..n :
                               \E d \in level[i] : d.project = c.path[i + 1]}
<1> HIDE DEF level
<1>1. 0 \in S
  <2> SUFFICES ASSUME NEW c \in level[0], NEW i \in 0..0 PROVE c.project = c.path[i + 1] /\ i = 0
    OBVIOUS
  <2>1. CallIs(g, p, 0, c)
    BY CallsAre DEF level
  <2> QED
    BY <2>1 DEF CallIs
<1>2. ASSUME NEW n \in Nat, n \in S PROVE n + 1 \in S
  <2> SUFFICES ASSUME NEW c \in level[n + 1], NEW i \in 0..n + 1
               PROVE  \E d \in level[i] : d.project = c.path[i + 1]
    OBVIOUS
  <2>1. CASE i = n + 1
    <3>1. CallIs(g, p, n + 1, c)
      BY CallsAre DEF level
    <3> QED
      BY <2>1, <3>1 DEF CallIs
  <2>2. CASE i # n + 1
    <3>1. PICK b \in level[n] : c \in CallsOf(g, b)
      <4>1. level[n + 1] = UNION {CallsOf(g, b) : b \in level[n]}
        BY CallsUnroll DEF level
      <4> QED
        BY <4>1
    <3>2. PICK q : c = CallFor(g, b, q)
      BY <3>1 DEF CallsOf
    <3>3. CallIs(g, p, n, b)
      BY CallsAre DEF level
    <3>4. i \in 0..n /\ i + 1 \in 1..n + 1
      BY <2>2
    <3>5. c.path[i + 1] = b.path[i + 1]
      BY <3>2, <3>3, <3>4 DEF CallFor, CallIs
    <3> QED
      BY <1>2, <3>1, <3>4, <3>5
  <2> QED
    BY <2>1, <2>2
<1> HIDE DEF S
<1>3. Nat \subseteq S
  BY <1>1, <1>2, InductionOnNat
<1> QED
  BY <1>3 DEF S, level

\* All calls from p, and what they report.
AllCalls(g, p) == UNION {Calls(g, p)[n] : n \in 0..Cardinality(Projects)}

LEMMA CyclesAre ==
  ASSUME NEW g \in Graphs, NEW p
  PROVE  \A path : path \in Cycles(g, p) <=>
           \E c \in AllCalls(g, p) : \E q \in Followed(g, c.project) \cap c.visited :
             path = Append(c.path, q)
<1>1. DOMAIN g = Projects
  BY DEF Graphs
<1>2. Cycles(g, p) =
        UNION {{Append(c.path, q) : q \in Followed(g, c.project) \cap c.visited} : c \in AllCalls(g, p)}
  BY <1>1, Zenon DEF Cycles, AllCalls
<1> DEFINE Reports(c) == {Append(c.path, q) : q \in Followed(g, c.project) \cap c.visited}
<1>3. \A c, path : path \in Reports(c) <=>
        \E q \in Followed(g, c.project) \cap c.visited : path = Append(c.path, q)
  OBVIOUS
<1>4. Cycles(g, p) = UNION {Reports(c) : c \in AllCalls(g, p)}
  BY <1>2
<1> HIDE DEF Reports
<1>5. \A path : path \in Cycles(g, p) <=> \E c \in AllCalls(g, p) : path \in Reports(c)
  BY <1>4
<1> QED
  BY <1>3, <1>5

LEMMA CallsClosed ==
  ASSUME NEW g \in Graphs, NEW p \in Projects
  PROVE  /\ FirstCall(p) \in AllCalls(g, p)
         /\ \A c \in AllCalls(g, p) :
              /\ \E n \in Nat : n <= Cardinality(Projects) /\ c \in Calls(g, p)[n] /\ CallIs(g, p, n, c)
              /\ \A q \in Followed(g, c.project) \ c.visited : CallFor(g, c, q) \in AllCalls(g, p)
              /\ \A q \in c.visited : \E d \in AllCalls(g, p) : d.project = q
<1> DEFINE N == Cardinality(Projects)
           level == Calls(g, p)
<1>1. N \in Nat
  BY FS_CardinalityType, ProjectsAssumption
<1> HIDE DEF N, level
<1>2. \A n \in Nat : \A c \in level[n] : n \in 0..N /\ c \in AllCalls(g, p)
  <2> SUFFICES ASSUME NEW n \in Nat, NEW c \in level[n] PROVE n \in 0..N /\ c \in AllCalls(g, p)
    OBVIOUS
  <2>1. ~(n > N)
    BY CallsEnd DEF N, level
  <2>2. n \in 0..N
    BY <1>1, <2>1
  <2> QED
    BY <2>2 DEF AllCalls, N, level
<1>3. FirstCall(p) \in AllCalls(g, p)
  BY <1>2, CallsUnroll DEF level
<1>4. ASSUME NEW c \in AllCalls(g, p)
      PROVE  /\ \E n \in Nat : n <= N /\ c \in level[n] /\ CallIs(g, p, n, c)
             /\ \A q \in Followed(g, c.project) \ c.visited : CallFor(g, c, q) \in AllCalls(g, p)
             /\ \A q \in c.visited : \E d \in AllCalls(g, p) : d.project = q
  <2>1. PICK n \in 0..N : c \in level[n]
    BY DEF AllCalls, N, level
  <2>2. n \in Nat /\ n <= N /\ CallIs(g, p, n, c)
    BY <1>1, <2>1, CallsAre DEF level
  <2>3. ASSUME NEW q \in Followed(g, c.project) \ c.visited PROVE CallFor(g, c, q) \in AllCalls(g, p)
    <3>1. CallFor(g, c, q) \in CallsOf(g, c)
      BY DEF CallsOf
    <3>2. CallFor(g, c, q) \in level[n + 1] /\ n + 1 \in Nat
      BY <2>1, <2>2, <3>1, CallsUnroll DEF level
    <3> QED
      BY <1>2, <3>2
  <2>4. ASSUME NEW q \in c.visited PROVE \E d \in AllCalls(g, p) : d.project = q
    <3>1. PICK i \in 1..n : q = c.path[i]
      BY <2>2 DEF CallIs
    <3>2. i - 1 \in 0..n /\ i - 1 \in Nat /\ (i - 1) + 1 = i
      BY <2>2
    <3>3. PICK d \in level[i - 1] : d.project = c.path[(i - 1) + 1]
      BY <2>1, <2>2, <3>2, CallsAround DEF level
    <3> QED
      BY <1>2, <3>1, <3>2, <3>3
  <2> QED
    BY <2>1, <2>2, <2>3, <2>4
<1> QED
  BY <1>3, <1>4 DEF N, level

\* What is reachable is followed from a set that holds what it leads to.
LEMMA ReachedFrom ==
  ASSUME NEW g \in Graphs, NEW s, NEW D, s \in D,
         \A d \in D : Followed(g, d) \subseteq D,
         NEW q \in ReachableFrom(g, s)
  PROVE  \E d \in D : q \in Followed(g, d)
<1> DEFINE NextCalls(near) == near \cup UNION {Followed(g, r) : r \in near}
           F(f) == [n \in Nat |-> IF n = 0 THEN Followed(g, s) ELSE NextCalls(f[n - 1])]
           grow == CHOOSE f : f = F(f)
           step == [x \in Nat \X SUBSET Named |-> NextCalls(x[2])]
<1>1. ReachableFrom(g, s) = grow[Cardinality(Projects)] /\ Cardinality(Projects) \in Nat
  <2>1. DOMAIN g = Projects
    BY DEF Graphs
  <2> QED
    BY <2>1, FS_CardinalityType, ProjectsAssumption DEF ReachableFrom
<1>2. \A near \in SUBSET Named : NextCalls(near) \in SUBSET Named
  BY FollowedAre
<1>3. Followed(g, s) \in SUBSET Named
  BY FollowedAre
<1> HIDE DEF Next
<1>4. step \in [Nat \X SUBSET Named -> SUBSET Named]
  BY <1>2
<1>5. \A n \in Nat, near \in SUBSET Named : step[<<n, near>>] = NextCalls(near)
  OBVIOUS
<1> HIDE DEF step
<1>6. PICK f \in [Nat -> SUBSET Named] : Unrolls(f, Followed(g, s), step)
  BY <1>3, <1>4, RecursionOnNat
<1>7. f = F(f)
  <2>1. \A n \in Nat : f[n] = IF n = 0 THEN Followed(g, s) ELSE NextCalls(f[n - 1])
    <3> SUFFICES ASSUME NEW n \in Nat, n # 0 PROVE f[n] = NextCalls(f[n - 1])
      BY <1>6 DEF Unrolls
    <3>1. n - 1 \in Nat /\ (n - 1) + 1 = n
      OBVIOUS
    <3>2. f[n] = step[<<n - 1, f[n - 1]>>] /\ f[n - 1] \in SUBSET Named
      BY <1>6, <3>1 DEF Unrolls
    <3> QED
      BY <1>5, <3>1, <3>2
  <2> QED
    BY <1>6, <2>1
<1>8. grow = F(grow)
  <2> HIDE DEF F
  <2> QED
    BY <1>7
<1> HIDE DEF grow
<1>9. \A n \in Nat : grow[n] = IF n = 0 THEN Followed(g, s) ELSE NextCalls(grow[n - 1])
  BY <1>8, Zenon
<1>10. ASSUME NEW n \in Nat PROVE grow[n + 1] = NextCalls(grow[n])
  <2>1. n + 1 \in Nat /\ n + 1 # 0 /\ (n + 1) - 1 = n
    OBVIOUS
  <2> QED
    BY <1>9, <2>1
<1> DEFINE From == UNION {Followed(g, d) : d \in D}
           S == {n \in Nat : grow[n] \subseteq From}
<1>11. Nat \subseteq S
  <2>1. 0 \in S
    BY <1>9
  <2>2. ASSUME NEW n \in Nat, n \in S PROVE n + 1 \in S
    <3>1. NextCalls(grow[n]) \subseteq From
      BY <2>2 DEF Next
    <3> QED
      BY <1>10, <3>1
  <2> HIDE DEF S
  <2> QED
    BY <2>1, <2>2, InductionOnNat
<1> QED
  BY <1>1, <1>11

\* There is a call for every project that the references of p lead to.
LEMMA CallsReach ==
  ASSUME NEW g \in Graphs, NEW p \in Projects, NEW q \in ReachableFrom(g, p)
  PROVE  \E c \in AllCalls(g, p) : q \in Followed(g, c.project)
<1> DEFINE D == {c.project : c \in AllCalls(g, p)}
<1>1. p \in D
  <2>1. FirstCall(p).project = p
    BY DEF FirstCall
  <2> QED
    BY <2>1, CallsClosed
<1>2. ASSUME NEW d \in D, NEW r \in Followed(g, d) PROVE r \in D
  <2>1. PICK c \in AllCalls(g, p) : d = c.project
    OBVIOUS
  <2>2. CASE r \in c.visited
    BY <2>2, CallsClosed
  <2>3. CASE r \notin c.visited
    <3>1. CallFor(g, c, r) \in AllCalls(g, p)
      BY <1>2, <2>1, <2>3, CallsClosed
    <3>2. CallFor(g, c, r).project = r
      BY DEF CallFor
    <3> QED
      BY <3>1, <3>2
  <2> QED
    BY <2>2, <2>3
<1> HIDE DEF D
<1>3. \E d \in D : q \in Followed(g, d)
  BY <1>1, <1>2, ReachedFrom
<1> QED
  BY <1>3 DEF D

\* What the calls report comes back to where it was.
LEMMA ReportsAreLoops ==
  ASSUME NEW g \in Graphs, NEW p \in Projects, NEW path \in Cycles(g, p)
  PROVE  /\ path[1] = p /\ IsWalk(g, path)
         /\ \E i \in 1..Len(path) - 1 : path[i] = path[Len(path)]
<1>0. PICK c \in AllCalls(g, p) :
         \E q \in Followed(g, c.project) \cap c.visited : path = Append(c.path, q)
  BY CyclesAre
<1>1. PICK q \in Followed(g, c.project) \cap c.visited : path = Append(c.path, q)
  BY <1>0
<1>2. PICK n \in Nat : CallIs(g, p, n, c)
  BY CallsClosed
<1> DEFINE s == c.path
<1>3. /\ s \in Seq(Named) /\ Len(s) = n + 1 /\ s[1] = p /\ s[n + 1] = c.project
      /\ \E i \in 1..n : s[i] = q
  BY <1>1, <1>2 DEF CallIs
<1>4. \A i \in 1..n : s[i + 1] \in Followed(g, s[i])
  <2>1. (n + 1) - 1 = n
    OBVIOUS
  <2> QED
    BY <1>2, <1>3, <2>1 DEF CallIs, IsWalk
<1>5. path = Append(s, q) /\ q \in Named
  BY <1>1, FollowedAre
<1> HIDE DEF s
<1>6. /\ Len(path) = n + 2 /\ path[n + 2] = q
      /\ \A i \in 1..n + 1 : path[i] = s[i]
  BY <1>3, <1>5
<1>7. (n + 2) - 1 = n + 1 /\ 1 \in 1..n + 1 /\ \A i \in 1..n : i \in 1..n + 1 /\ i + 1 \in 1..n + 1
  OBVIOUS
<1>8. IsWalk(g, path)
  <2> SUFFICES ASSUME NEW i \in 1..n + 1 PROVE path[i + 1] \in Followed(g, path[i])
    BY <1>6, <1>7 DEF IsWalk
  <2>1. CASE i = n + 1
    <3>1. path[i + 1] = q /\ path[i] = c.project
      BY <1>3, <1>6, <2>1
    <3> QED
      BY <1>1, <3>1
  <2>2. CASE i # n + 1
    <3>1. i \in 1..n
      BY <2>2
    <3> QED
      BY <1>4, <1>6, <1>7, <3>1
  <2> QED
    BY <2>1, <2>2
<1> QED
  BY <1>3, <1>6, <1>7, <1>8

\* A project that leads back to itself is where a reported path ends.
LEMMA OwnLoopReported ==
  ASSUME NEW g \in Graphs, NEW p \in Projects, p \in ReachableFrom(g, p)
  PROVE  \E path \in Cycles(g, p) : path[Len(path)] = p
<1>1. PICK c \in AllCalls(g, p) : p \in Followed(g, c.project)
  BY CallsReach
<1>2. PICK n \in Nat : CallIs(g, p, n, c)
  BY CallsClosed
<1>3. c.project # p
  BY <1>1, FollowedAre
<1>4. n # 0
  BY <1>2, <1>3 DEF CallIs
<1>5. p \in c.visited
  BY <1>2, <1>4 DEF CallIs
<1>6. Append(c.path, p) \in Cycles(g, p)
  BY <1>1, <1>5, CyclesAre
<1>7. c.path \in Seq(Named) /\ p \in Named
  BY <1>2 DEF CallIs, Named
<1>8. Append(c.path, p)[Len(Append(c.path, p))] = p
  BY <1>7
<1> QED
  BY <1>6, <1>8

\* A project on a loop is on a reported path.
LEMMA LoopsReported ==
  ASSUME NEW g \in Graphs, NEW p \in Projects, NEW q \in ReachableFrom(g, p),
         q \in Projects, q \in ReachableFrom(g, q)
  PROVE  \E path \in Cycles(g, p) : q \in Range(path)
<1> DEFINE Through == {c \in AllCalls(g, p) : q \in Range(c.path)}
           D == {c.project : c \in Through}
<1>1. ASSUME NEW c \in AllCalls(g, p)
      PROVE  /\ c.path \in Seq(Named) /\ c.project \in Range(c.path)
             /\ q \in Range(c.path) => q = c.project \/ q \in c.visited
             /\ \A r \in Named : Range(Append(c.path, r)) = Range(c.path) \cup {r}
  <2>1. PICK n \in Nat : CallIs(g, p, n, c)
    BY CallsClosed
  <2>2. c.path \in Seq(Named) /\ DOMAIN c.path = 1..n + 1 /\ Len(c.path) = n + 1
    BY <2>1 DEF CallIs
  <2>3. \A i \in 1..n + 1 : i = n + 1 \/ i \in 1..n
    BY <2>1
  <2>4. q \in Range(c.path) => q = c.project \/ q \in c.visited
    BY <2>1, <2>2, <2>3 DEF CallIs, Range
  <2>5. c.project \in Range(c.path)
    <3>1. n + 1 \in 1..n + 1
      BY <2>1
    <3> QED
      BY <2>1, <2>2, <3>1 DEF CallIs, Range
  <2>6. ASSUME NEW r \in Named PROVE Range(Append(c.path, r)) = Range(c.path) \cup {r}
    <3> DEFINE t == Append(c.path, r)
    <3>1. /\ DOMAIN t = 1..n + 2 /\ t[n + 2] = r
          /\ \A i \in 1..n + 1 : t[i] = c.path[i]
      BY <2>2
    <3>2. \A i \in 1..n + 2 : i = n + 2 \/ i \in 1..n + 1
      BY <2>1
    <3>3. n + 2 \in 1..n + 2 /\ \A i \in 1..n + 1 : i \in 1..n + 2
      BY <2>1
    <3> HIDE DEF t
    <3>4. Range(t) = Range(c.path) \cup {r}
      BY <2>2, <3>1, <3>2, <3>3 DEF Range
    <3> QED
      BY <3>4 DEF t
  <2> QED
    BY <2>2, <2>4, <2>5, <2>6
<1>2. ASSUME NEW c \in Through, NEW r \in Followed(g, c.project) \cap c.visited
      PROVE  \E path \in Cycles(g, p) : q \in Range(path)
  <2>1. Append(c.path, r) \in Cycles(g, p)
    BY CyclesAre
  <2>2. r \in Named
    BY FollowedAre
  <2>3. q \in Range(Append(c.path, r))
    BY <1>1, <2>2
  <2> QED
    BY <2>1, <2>3
<1>3. q \in D
  <2>1. PICK b \in AllCalls(g, p) : q \in Followed(g, b.project)
    BY CallsReach
  <2>2. \E c \in AllCalls(g, p) : c.project = q
    <3>1. CASE q \in b.visited
      BY <3>1, CallsClosed
    <3>2. CASE q \notin b.visited
      <4>1. CallFor(g, b, q) \in AllCalls(g, p)
        BY <2>1, <3>2, CallsClosed
      <4>2. CallFor(g, b, q).project = q
        BY DEF CallFor
      <4> QED
        BY <4>1, <4>2
    <3> QED
      BY <3>1, <3>2
  <2> QED
    BY <1>1, <2>2
<1> SUFFICES ASSUME \A c \in Through : Followed(g, c.project) \cap c.visited = {} PROVE FALSE
  BY <1>2
<1>4. ASSUME NEW d \in D, NEW r \in Followed(g, d) PROVE r \in D
  <2>1. PICK c \in Through : d = c.project
    OBVIOUS
  <2>2. r \notin c.visited
    BY <1>4, <2>1
  <2>3. CallFor(g, c, r) \in AllCalls(g, p)
    BY <1>4, <2>1, <2>2, CallsClosed
  <2>4. CallFor(g, c, r).project = r /\ CallFor(g, c, r).path = Append(c.path, r)
    BY DEF CallFor
  <2>5. r \in Named
    BY <1>4, FollowedAre
  <2>6. CallFor(g, c, r) \in Through
    <3>1. q \in Range(c.path) /\ c \in AllCalls(g, p)
      OBVIOUS
    <3>2. Range(Append(c.path, r)) = Range(c.path) \cup {r}
      BY <1>1, <2>5, <3>1
    <3>3. q \in Range(CallFor(g, c, r).path)
      BY <2>4, <3>1, <3>2
    <3> QED
      BY <2>3, <3>3
  <2> QED
    BY <2>4, <2>6
<1>5. PICK d \in D : q \in Followed(g, d)
  <2> HIDE DEF D
  <2> QED
    BY <1>3, <1>4, ReachedFrom
<1>6. PICK c \in Through : d = c.project
  BY <1>5
<1>7. q # d
  BY <1>5, FollowedAre
<1>8. q \in c.visited
  BY <1>1, <1>6, <1>7
<1> QED
  BY <1>5, <1>6, <1>8

(***************************************************************************)
(* detect_cycles() (cross_project.py), for any finite references between   *)
(* any projects: it ends, reports no path that does not come back to where *)
(* it was, and has every project on a loop that the references of the      *)
(* project lead to on a path it reports.                                   *)
(***************************************************************************)
THEOREM CyclesExact == \A g \in Graphs, p \in Projects : CyclesAreExact(g, p)
<1> SUFFICES ASSUME NEW g \in Graphs, NEW p \in Projects PROVE CyclesAreExact(g, p)
  OBVIOUS
<1>1. DOMAIN g = Projects
  BY DEF Graphs
<1>2. Calls(g, p)[Cardinality(Projects) + 1] = {}
  <2>1. Cardinality(Projects) \in Nat
    BY FS_CardinalityType, ProjectsAssumption
  <2>2. Cardinality(Projects) + 1 \in Nat /\ Cardinality(Projects) + 1 > Cardinality(Projects)
    BY <2>1
  <2> QED
    BY <2>2, CallsEnd
<1>3. \A path \in Cycles(g, p) :
        /\ path[1] = p /\ IsWalk(g, path)
        /\ \E i \in 1..Len(path) - 1 : path[i] = path[Len(path)]
  BY ReportsAreLoops
<1>4. p \in ReachableFrom(g, p) => \E path \in Cycles(g, p) : path[Len(path)] = p
  BY OwnLoopReported
<1>5. \A q \in ReachableFrom(g, p) \cap Projects :
        q \in ReachableFrom(g, q) => \E path \in Cycles(g, p) : q \in Range(path)
  BY LoopsReported
<1> QED
  BY <1>1, <1>2, <1>3, <1>4, <1>5 DEF CyclesAreExact

-----------------------------------------------------------------------------
(***************************************************************************)
(* The chains of parents: build_version_tree().                            *)
(***************************************************************************)
Up(parent, v) == IF v \in DOMAIN parent THEN parent[v] ELSE NoParent

LEMMA ChainIs ==
  ASSUME NEW parent, NEW s
  PROVE  /\ Chain(parent, s)[0] = s
         /\ \A n \in Nat : Chain(parent, s)[n + 1] = Up(parent, Chain(parent, s)[n])
<1> DEFINE F(f) == [n \in Nat |-> IF n = 0 THEN s ELSE Up(parent, f[n - 1])]
           at == CHOOSE f : f = F(f)
           A == {s, NoParent} \cup {parent[v] : v \in DOMAIN parent}
           step == [x \in Nat \X A |-> Up(parent, x[2])]
<1>1. Chain(parent, s) = at
  BY DEF Chain, Up
<1>2. \A v : Up(parent, v) \in A
  BY DEF Up
<1> HIDE DEF A
<1>3. step \in [Nat \X A -> A]
  BY <1>2
<1>4. \A n \in Nat, v \in A : step[<<n, v>>] = Up(parent, v)
  OBVIOUS
<1>5. s \in A
  BY DEF A
<1> HIDE DEF step
<1>6. PICK f \in [Nat -> A] : Unrolls(f, s, step)
  BY <1>3, <1>5, RecursionOnNat
<1>7. f = F(f)
  <2>1. \A n \in Nat : f[n] = IF n = 0 THEN s ELSE Up(parent, f[n - 1])
    <3> SUFFICES ASSUME NEW n \in Nat, n # 0 PROVE f[n] = Up(parent, f[n - 1])
      BY <1>6 DEF Unrolls
    <3>1. n - 1 \in Nat /\ (n - 1) + 1 = n
      OBVIOUS
    <3>2. f[n] = step[<<n - 1, f[n - 1]>>] /\ f[n - 1] \in A
      BY <1>6, <3>1 DEF Unrolls
    <3> QED
      BY <1>4, <3>1, <3>2
  <2> QED
    BY <1>6, <2>1
<1>8. at = F(at)
  <2> HIDE DEF F
  <2> QED
    BY <1>7
<1> HIDE DEF at
<1>9. \A n \in Nat : at[n] = IF n = 0 THEN s ELSE Up(parent, at[n - 1])
  BY <1>8, Zenon
<1>10. ASSUME NEW n \in Nat PROVE at[n + 1] = Up(parent, at[n])
  <2>1. n + 1 \in Nat /\ n + 1 # 0 /\ (n + 1) - 1 = n
    OBVIOUS
  <2> QED
    BY <1>9, <2>1
<1>11. at[0] = s
  BY <1>9
<1> QED
  BY <1>1, <1>10, <1>11

\* The chain of a version on the chain is the rest of it.
LEMMA ChainOn ==
  ASSUME NEW parent, NEW s, NEW i \in Nat
  PROVE  \A k \in Nat : Chain(parent, Chain(parent, s)[i])[k] = Chain(parent, s)[i + k]
<1> DEFINE at == Chain(parent, s)
           on == Chain(parent, at[i])
           S == {k \in Nat : on[k] = at[i + k]}
<1>1. on[0] = at[i] /\ \A n \in Nat : on[n + 1] = Up(parent, on[n])
  BY ChainIs
<1>2. \A n \in Nat : at[n + 1] = Up(parent, at[n])
  BY ChainIs
<1> HIDE DEF on, at
<1>3. 0 \in S
  BY <1>1
<1>4. ASSUME NEW k \in Nat, k \in S PROVE k + 1 \in S
  <2>1. i + k \in Nat /\ i + (k + 1) = (i + k) + 1
    OBVIOUS
  <2> QED
    BY <1>1, <1>2, <1>4, <2>1
<1> HIDE DEF S
<1>5. Nat \subseteq S
  BY <1>3, <1>4, InductionOnNat
<1> QED
  BY <1>5 DEF S, on, at

\* Equal versions have equal chains of parents.
LEMMA ChainRepeats ==
  ASSUME NEW parent, NEW s, NEW i \in Nat, NEW j \in Nat,
         Chain(parent, s)[i] = Chain(parent, s)[j]
  PROVE  \A k \in Nat : Chain(parent, s)[i + k] = Chain(parent, s)[j + k]
<1>1. \A m, k \in Nat : Chain(parent, Chain(parent, s)[m])[k] = Chain(parent, s)[m + k]
  BY ONLY ChainOn
<1> DEFINE at == Chain(parent, s)
<1> HIDE DEF at
<1>2. \A m, k \in Nat : Chain(parent, at[m])[k] = at[m + k]
  BY <1>1 DEF at
<1>3. at[i] = at[j]
  BY DEF at
<1>4. \A k \in Nat : at[i + k] = at[j + k]
  BY ONLY <1>2, <1>3, i \in Nat, j \in Nat
<1> QED
  BY <1>4 DEF at

\* A chain that has left the records does not come back to them ...
LEMMA ChainLeaves ==
  ASSUME NEW parent, NoParent \notin DOMAIN parent, NEW s, NEW i \in Nat,
         Chain(parent, s)[i] \notin DOMAIN parent, NEW n \in Nat, i < n
  PROVE  Chain(parent, s)[n] = NoParent
<1> DEFINE at == Chain(parent, s)
           S == {k \in Nat : at[i + (k + 1)] = NoParent}
<1>1. \A k \in Nat : at[k + 1] = Up(parent, at[k])
  BY ChainIs
<1> HIDE DEF at
<1>2. 0 \in S
  BY <1>1 DEF Up, at
<1>3. ASSUME NEW k \in Nat, k \in S PROVE k + 1 \in S
  <2>1. i + (k + 1) \in Nat /\ i + ((k + 1) + 1) = (i + (k + 1)) + 1
    OBVIOUS
  <2> QED
    BY <1>1, <1>3, <2>1 DEF Up
<1> HIDE DEF S
<1>4. Nat \subseteq S
  BY <1>2, <1>3, InductionOnNat
<1>5. n - i - 1 \in Nat /\ i + ((n - i - 1) + 1) = n
  OBVIOUS
<1> QED
  BY <1>4, <1>5 DEF S, at

\* ... and one that comes to a version for the second time does not leave them.
LEMMA ChainStays ==
  ASSUME NEW parent, NoParent \notin DOMAIN parent, NEW s, NEW i \in Nat, NEW j \in Nat, i < j,
         Chain(parent, s)[i] = Chain(parent, s)[j], Chain(parent, s)[i] \in DOMAIN parent
  PROVE  \A n \in Nat : Chain(parent, s)[n] \in DOMAIN parent
<1> DEFINE at == Chain(parent, s)
           T == {n \in Nat : at[n] \notin DOMAIN parent}
<1> SUFFICES ASSUME T # {} PROVE FALSE
  OBVIOUS
<1>1. PICK n \in T : \A m \in T : n <= m
  <2>1. T \subseteq Nat
    OBVIOUS
  <2> HIDE DEF T
  <2> QED
    BY <2>1, LeastNumber
<1>2. n \in Nat /\ ~(n < j) /\ n # j
  <2>1. ASSUME n < j PROVE FALSE
    <3>1. at[j] = NoParent
      BY <1>1, <2>1, ChainLeaves
    <3> QED
      BY <3>1
  <2> QED
    BY <1>1, <2>1
<1>3. n - j \in Nat /\ j + (n - j) = n /\ i + (n - j) \in Nat /\ i + (n - j) < n
  BY <1>2
<1>4. at[i + (n - j)] = at[j + (n - j)]
  BY <1>3, ChainRepeats
<1>5. i + (n - j) \in T
  BY <1>1, <1>3, <1>4
<1> QED
  BY <1>1, <1>3, <1>5

\* _has_cycle() tells the chains that never leave the records.
LEMMA HasCycleIs ==
  ASSUME NEW parent, NoParent \notin DOMAIN parent, IsFiniteSet(DOMAIN parent), NEW s
  PROVE  HasCycle(parent, s) <=> \A n \in Nat : Chain(parent, s)[n] \in DOMAIN parent
<1> DEFINE at == Chain(parent, s)
           D == DOMAIN parent
           N == Cardinality(D)
<1>1. N \in Nat
  BY FS_CardinalityType
<1>2. ASSUME HasCycle(parent, s) PROVE \A n \in Nat : at[n] \in D
  <2>1. PICK i, j \in 0..N : i < j /\ at[i] = at[j] /\ at[i] \in D
    BY <1>2 DEF HasCycle
  <2>2. i \in Nat /\ j \in Nat
    BY <1>1
  <2> QED
    BY <2>1, <2>2, ChainStays
<1>3. ASSUME \A n \in Nat : at[n] \in D PROVE HasCycle(parent, s)
  <2> DEFINE f == [n \in 0..N |-> at[n]]
  <2> HIDE DEF N, at, D
  <2>1. f \in [0..N -> D]
    BY <1>1, <1>3
  <2>2. IsFiniteSet(0..N) /\ Cardinality(0..N) = N + 1
    <3>1. 0 \in Int /\ N \in Int /\ 0 <= N /\ N - 0 + 1 = N + 1
      BY <1>1
    <3> QED
      BY <3>1, FS_Interval
  <2>3. Cardinality(0..N) > Cardinality(D) /\ IsFiniteSet(D)
    BY <1>1, <2>2 DEF N, D
  <2> HIDE DEF f
  <2>4. PICK i, j \in 0..N : i # j /\ f[i] = f[j]
    BY <2>1, <2>2, <2>3, FS_PigeonHole
  <2>5. at[i] = at[j] /\ at[i] \in D /\ at[j] \in D
    BY <1>1, <1>3, <2>4 DEF f
  <2>6. i < j \/ j < i
    BY <1>1, <2>4
  <2> QED
    BY <2>5, <2>6 DEF HasCycle, N, at, D
<1> QED
  BY <1>2, <1>3

LEMMA OnLoopIs ==
  ASSUME NEW parent, NEW a
  PROVE  OnLoop(parent, a) <=>
           /\ a # NoParent
           /\ \E n \in 1..Cardinality(DOMAIN parent) + 1 : Chain(parent, a)[n] = a
  BY DEF OnLoop, Ancestors

\* What the tree says of a version that is shown.
LEMMA CutOffIs ==
  ASSUME NEW parent, NoParent \notin DOMAIN parent, IsFiniteSet(DOMAIN parent),
         NEW a \in DOMAIN parent
  PROVE  /\ OnLoop(parent, a) => CutOff(parent, a)
         /\ CutOff(parent, a) =>
              \E b \in Ancestors(parent, a) : b \in DOMAIN parent /\ OnLoop(parent, b)
<1> DEFINE at == Chain(parent, a)
           on == Chain(parent, parent[a])
           D == DOMAIN parent
           N == Cardinality(D)
<1>1. N \in Nat
  BY FS_CardinalityType
<1>2. at[0] = a /\ at[1] = parent[a]
  <2>1. at[0] = a /\ at[0 + 1] = Up(parent, at[0])
    BY ChainIs
  <2> QED
    BY <2>1 DEF Up
<1>3. \A k \in Nat : on[k] = at[1 + k]
  <2>1. \A k \in Nat : Chain(parent, at[1])[k] = at[1 + k]
    BY ChainOn
  <2> QED
    BY <1>2, <2>1
<1>4. ASSUME OnLoop(parent, a) PROVE CutOff(parent, a)
  <2>1. PICK n \in 1..N + 1 : at[n] = a
    BY <1>4, OnLoopIs
  <2>2. n \in Nat /\ 0 < n
    BY <1>1
  <2>3. \A k \in Nat : at[k] \in D
    BY <1>2, <2>1, <2>2, ChainStays
  <2>4. \A k \in Nat : on[k] \in D
    BY <1>3, <2>3
  <2>5. HasCycle(parent, parent[a])
    BY <2>4, HasCycleIs
  <2>6. parent[a] # NoParent
    BY <1>2, <2>3
  <2> QED
    BY <2>5, <2>6 DEF CutOff
<1>5. ASSUME CutOff(parent, a)
      PROVE  \E b \in Ancestors(parent, a) : b \in D /\ OnLoop(parent, b)
  <2>1. PICK i, j \in 0..N : i < j /\ on[i] = on[j] /\ on[i] \in D
    BY <1>5 DEF CutOff, HasCycle
  <2>2. /\ i \in Nat /\ j \in Nat /\ 1 + i \in 1..N + 1
        /\ j - i \in 1..N + 1 /\ j - i \in Nat /\ i + (j - i) = j
    BY <1>1, <2>1
  <2>3. on[i] # NoParent
    BY <2>1
  <2>4. on[i] \in Ancestors(parent, a)
    BY <1>3, <2>2, <2>3 DEF Ancestors
  <2>5. Chain(parent, on[i])[j - i] = on[i]
    <3>1. Chain(parent, Chain(parent, parent[a])[i])[j - i] = Chain(parent, parent[a])[i + (j - i)]
      BY ONLY <2>2, ChainOn
    <3> HIDE DEF on
    <3>2. Chain(parent, on[i])[j - i] = on[i + (j - i)]
      BY <3>1 DEF on
    <3> QED
      BY <2>1, <2>2, <3>2
  <2>6. OnLoop(parent, on[i])
    <3> HIDE DEF on, at
    <3> QED
      BY <2>2, <2>3, <2>5, OnLoopIs
  <2> QED
    BY <2>1, <2>4, <2>6
<1> QED
  BY <1>4, <1>5

\* The index lists each version once.
LEMMA Listed ==
  /\ SetToSeq(Projects) \in Seq(Projects)
  /\ Len(SetToSeq(Projects)) = Cardinality(Projects)
  /\ Range(SetToSeq(Projects)) = Projects
<1> DEFINE N == Cardinality(Projects)
           s == SetToSeq(Projects)
<1>1. N \in Nat /\ IsFiniteSet(Projects) /\ ExistsBijection(1..N, Projects)
  BY FS_CardinalityType, ProjectsAssumption
<1> HIDE DEF N
<1>2. \E f \in [1..N -> Projects] : IsInjective(f)
  <2>1. PICK f : f \in Bijection(1..N, Projects)
    BY <1>1 DEF ExistsBijection
  <2>2. f \in [1..N -> Projects] /\ IsInjective(f)
    BY <2>1 DEF Bijection, Injection, IsInjective
  <2> QED
    BY <2>2
<1>3. s \in [1..N -> Projects] /\ IsInjective(s)
  BY <1>2 DEF SetToSeq, N
<1> HIDE DEF s
<1>4. s \in Injection(1..N, Projects)
  BY <1>3 DEF Injection
<1>5. IsFiniteSet(1..N) /\ Cardinality(1..N) = N
  BY <1>1, FS_Interval
<1>6. s \in Surjection(1..N, Projects)
  BY <1>1, <1>4, <1>5, FS_Injection DEF N
<1>7. Range(s) = Projects
  BY <1>3, <1>6 DEF Surjection, Range
<1>8. s \in Seq(Projects) /\ Len(s) = N
  BY <1>1, <1>3
<1> QED
  BY <1>7, <1>8 DEF s, N

\* What is shown of the versions is a forest.
LEMMA NoLoopShown ==
  ASSUME NEW D, NEW parent, DOMAIN parent = D, NoParent \notin D, IsFiniteSet(D),
         NEW shown \in SUBSET D, NEW shownParent,
         shownParent = [a \in shown |-> IF CutOff(parent, a) THEN NoParent ELSE parent[a]],
         NEW a \in shown
  PROVE  ~OnLoop(shownParent, a)
<1> SUFFICES ASSUME OnLoop(shownParent, a) PROVE FALSE
  OBVIOUS
<1> DEFINE at == Chain(shownParent, a)
           M == Cardinality(shown)
<1>1. DOMAIN shownParent = shown /\ NoParent \notin shown
  OBVIOUS
<1>2. IsFiniteSet(shown) /\ M \in Nat
  BY FS_Subset, FS_CardinalityType
<1>3. PICK n \in 1..M + 1 : at[n] = a
  BY <1>1, OnLoopIs
<1>4. n \in Nat /\ 0 < n
  BY <1>2, <1>3
<1>5. at[0] = a
  BY ChainIs
<1>6. \A k \in Nat : at[k] \in shown
  BY <1>1, <1>3, <1>4, <1>5, ChainStays
<1>7. \A k \in Nat : at[k + 1] = shownParent[at[k]]
  BY <1>1, <1>6, ChainIs DEF Up
<1>8. \A k \in Nat : at[k + 1] = parent[at[k]] /\ ~CutOff(parent, at[k])
  <2> SUFFICES ASSUME NEW k \in Nat PROVE at[k + 1] = parent[at[k]] /\ ~CutOff(parent, at[k])
    OBVIOUS
  <2> DEFINE v == at[k]
             w == at[k + 1]
  <2>1. v \in shown /\ w \in shown /\ w = shownParent[v]
    <3>1. k + 1 \in Nat
      OBVIOUS
    <3> QED
      BY <1>6, <1>7, <3>1
  <2> HIDE DEF v, w
  <2>2. w # NoParent
    BY <1>1, <2>1
  <2>3. w = parent[v] /\ ~CutOff(parent, v)
    BY <2>1, <2>2
  <2> QED
    BY <2>3 DEF v, w
<1> DEFINE all == Chain(parent, a)
           S == {k \in Nat : all[k] = at[k]}
<1>9. all[0] = a /\ \A k \in Nat : all[k + 1] = Up(parent, all[k])
  BY ChainIs
<1> HIDE DEF at, all
<1>10. Nat \subseteq S
  <2>1. 0 \in S
    BY <1>5, <1>9
  <2>2. ASSUME NEW k \in Nat, k \in S PROVE k + 1 \in S
    <3>1. at[k] \in D
      BY <1>6
    <3>2. all[k + 1] = parent[at[k]]
      BY <1>9, <2>2, <3>1 DEF Up
    <3> QED
      BY <1>8, <3>2
  <2> HIDE DEF S
  <2> QED
    BY <2>1, <2>2, InductionOnNat
<1>11. \A k \in Nat : all[k] \in D
  BY <1>6, <1>10
<1> DEFINE on == Chain(parent, parent[a])
<1>12. all[1] = parent[a]
  <2>1. all[0 + 1] = Up(parent, all[0])
    BY <1>9
  <2> QED
    BY <1>9, <2>1 DEF Up
<1>13. \A k \in Nat : on[k] \in D
  <2>1. \A k \in Nat : Chain(parent, all[1])[k] = all[1 + k]
    BY ChainOn DEF all
  <2> QED
    BY <1>11, <1>12, <2>1
<1>14. HasCycle(parent, parent[a])
  BY <1>13, HasCycleIs
<1>15. parent[a] # NoParent
  BY <1>11, <1>12
<1>16. CutOff(parent, a)
  BY <1>14, <1>15 DEF CutOff
<1>17. ~CutOff(parent, at[0])
  BY <1>8
<1> QED
  BY <1>5, <1>16, <1>17

\* A version whose parent has no record any more has no other ancestor.
LEMMA OrphanIs ==
  ASSUME NEW parent, NoParent \notin DOMAIN parent, IsFiniteSet(DOMAIN parent),
         NEW a \in DOMAIN parent, parent[a] # NoParent, parent[a] \notin DOMAIN parent
  PROVE  Ancestors(parent, a) = {parent[a]} /\ ~CutOff(parent, a)
<1> DEFINE at == Chain(parent, a)
           N == Cardinality(DOMAIN parent)
<1>1. N \in Nat
  BY FS_CardinalityType
<1>2. at[1] = parent[a]
  <2>1. at[0] = a /\ at[0 + 1] = Up(parent, at[0])
    BY ChainIs
  <2> QED
    BY <2>1 DEF Up
<1>3. \A n \in Nat : 1 < n => at[n] = NoParent
  BY <1>2, ChainLeaves
<1>4. Ancestors(parent, a) = {parent[a]}
  <2>1. Ancestors(parent, a) = {at[n] : n \in 1..N + 1} \ {NoParent}
    BY DEF Ancestors
  <2>2. 1 \in 1..N + 1 /\ \A n \in 1..N + 1 : n \in Nat /\ (n = 1 \/ 1 < n)
    BY <1>1
  <2> HIDE DEF at, N
  <2>3. \A n \in 1..N + 1 : at[n] = parent[a] \/ at[n] = NoParent
    BY <1>2, <1>3, <2>2
  <2> QED
    BY <1>2, <2>1, <2>2, <2>3
<1>5. ~CutOff(parent, a)
  <2>1. Chain(parent, parent[a])[0] = parent[a]
    BY ChainIs
  <2>2. ~HasCycle(parent, parent[a])
    BY <2>1, HasCycleIs
  <2> QED
    BY <2>2 DEF CutOff
<1> QED
  BY <1>4, <1>5

(***************************************************************************)
(* build_version_tree() (service.py), for any versions, whatever parents   *)
(* their records name and however many of them are shown: what is shown is *)
(* a forest, no more is cut off than what leads into a loop, and a version *)
(* is an orphan exactly of the parent it names.                            *)
(***************************************************************************)
THEOREM TreeExact ==
  ASSUME NEW D, NEW parent, DOMAIN parent = D, NoParent \notin D, IsFiniteSet(D),
         NEW assets \in Seq(D), Range(assets) = D, NEW cap \in Nat
  PROVE  TreeIsExact(assets, parent, cap)
<1> DEFINE last == IF cap < Len(assets) THEN cap ELSE Len(assets)
           shown == Range(SubSeq(assets, 1, last))
           tree == BuildVersionTree(assets, parent, cap)
           shownParent == [a \in DOMAIN tree.nodes |-> tree.nodes[a].parent]
<1>1. last \in 0..Len(assets) /\ Len(assets) \in Nat
  OBVIOUS
<1>2. shown \in SUBSET D
  <2>1. SubSeq(assets, 1, last) \in Seq(D)
    BY <1>1, SubSeqProperties
  <2> HIDE DEF last
  <2> QED
    BY <2>1 DEF Range
<1>3. cap >= Len(assets) => shown = D
  <2> SUFFICES ASSUME cap >= Len(assets) PROVE shown = D
    OBVIOUS
  <2>1. last = Len(assets)
    OBVIOUS
  <2>2. SubSeq(assets, 1, Len(assets)) = assets
    OBVIOUS
  <2> QED
    BY <2>1, <2>2
<1>4. /\ tree.nodes = [a \in shown |->
           [parent |-> IF CutOff(parent, a) THEN NoParent ELSE parent[a],
            orphaned |-> parent[a] # NoParent /\ parent[a] \notin D]]
      /\ tree.cycleDetected = (\E a \in shown : CutOff(parent, a))
      /\ tree.capped = (Len(assets) > cap)
  BY DEF BuildVersionTree
<1> HIDE DEF tree, shown, last
<1>5. /\ DOMAIN tree.nodes = shown
      /\ \A a \in shown :
           /\ tree.nodes[a].parent = IF CutOff(parent, a) THEN NoParent ELSE parent[a]
           /\ tree.nodes[a].orphaned = (parent[a] # NoParent /\ parent[a] \notin D)
  BY <1>4
<1>6. shownParent = [a \in shown |-> IF CutOff(parent, a) THEN NoParent ELSE parent[a]]
  BY <1>5
<1> HIDE DEF shownParent
<1>7. DOMAIN shownParent = shown
  BY <1>6
<1>8. ASSUME NEW a \in shown PROVE ~OnLoop(shownParent, a)
  BY <1>2, <1>6, NoLoopShown
<1>9. ASSUME NEW a \in shown, tree.nodes[a].parent # parent[a]
      PROVE  \E b \in Ancestors(parent, a) : OnLoop(parent, b)
  <2>1. CutOff(parent, a) /\ a \in D
    BY <1>2, <1>5, <1>9
  <2> QED
    BY <2>1, CutOffIs
<1>10. ASSUME NEW a \in shown, tree.nodes[a].orphaned
       PROVE  Ancestors(parent, a) = {parent[a]} /\ tree.nodes[a].parent = parent[a]
  <2>1. a \in D /\ parent[a] # NoParent /\ parent[a] \notin D
    BY <1>2, <1>5, <1>10
  <2>2. Ancestors(parent, a) = {parent[a]} /\ ~CutOff(parent, a)
    BY <2>1, OrphanIs
  <2> QED
    BY <1>5, <2>2
<1>11. ASSUME ~tree.capped
       PROVE  shown = D /\ (tree.cycleDetected <=> \E a \in D : OnLoop(parent, a))
  <2>1. shown = D
    <3>1. ~(Len(assets) > cap)
      BY <1>4, <1>11, Zenon
    <3>2. cap >= Len(assets)
      BY <1>1, <3>1
    <3> QED
      BY <1>3, <3>2
  <2>2. ASSUME NEW a \in D, CutOff(parent, a) PROVE \E b \in D : OnLoop(parent, b)
    BY <2>2, CutOffIs
  <2>3. ASSUME NEW a \in D, OnLoop(parent, a) PROVE CutOff(parent, a)
    BY <2>3, CutOffIs
  <2> QED
    BY <1>4, <2>1, <2>2, <2>3
<1> QED
  BY <1>5, <1>7, <1>8, <1>9, <1>10, <1>11, Zenon DEF TreeIsExact, tree, shownParent

(***************************************************************************)
(* detect_cycles() and build_version_tree(), over any references between   *)
(* any projects.                                                           *)
(***************************************************************************)
THEOREM WalksExact == InputsSpec => []WalksAreExact
<1>1. Grown => WalksAreExact
  <2> SUFFICES ASSUME Grown
               PROVE  /\ \A p \in Projects : CyclesAreExact(graph, p)
                      /\ LET parent == [p \in Projects |-> IF graph[p] = {} THEN NoParent
                                                           ELSE CHOOSE q \in graph[p] : TRUE] IN
                         \A cap \in 1..Cardinality(Projects) :
                           TreeIsExact(SetToSeq(Projects), parent, cap)
    BY DEF WalksAreExact
  <2>1. \A p \in Projects : CyclesAreExact(graph, p)
    BY CyclesExact DEF Grown, Graphs, Named
  <2> DEFINE parent == [p \in Projects |-> IF graph[p] = {} THEN NoParent
                                           ELSE CHOOSE q \in graph[p] : TRUE]
  <2>2. DOMAIN parent = Projects
    OBVIOUS
  <2> HIDE DEF parent
  <2>3. ASSUME NEW cap \in 1..Cardinality(Projects)
        PROVE  TreeIsExact(SetToSeq(Projects), parent, cap)
    <3>1. cap \in Nat
      OBVIOUS
    <3> QED
      BY <2>2, <3>1, Listed, TreeExact, ProjectsAssumption
  <2> QED
    BY <2>1, <2>3 DEF parent
<1> QED
  BY <1>1, InputsAreGrown, PTL

-----------------------------------------------------------------------------
(***************************************************************************)
(* The plan of a round: what the results of the critic are.                *)
(***************************************************************************)
\* A confidence is a number of tenths.
CriticResults ==
  [id : Nat, verdict : {"fail", "pass", "unverified"}, confidence : 0..10, box : Boxes]

GoodResults(rs) ==
  rs \in Seq(CriticResults) /\ \A i \in 1..Len(rs) : rs[i].id = i /\ i <= MaxResults

LEMMA ResultsInitial == InputsInit => GoodResults(results)
  BY DEF InputsInit, GoodResults

LEMMA ResultsStep == ASSUME GoodResults(results), [InputsNext]_inputs PROVE GoodResults(results)'
<1>1. ASSUME NEW verdict \in {"fail", "pass", "unverified"}, NEW confidence \in 0..10,
             NEW box \in Boxes, AddResult(verdict, confidence, box)
      PROVE  GoodResults(results)'
  <2> DEFINE n == Len(results)
             r == [id |-> n + 1, verdict |-> verdict, confidence |-> confidence, box |-> box]
  <2>1. n \in Nat /\ results \in Seq(CriticResults)
    BY DEF GoodResults
  <2>2. results' = Append(results, r) /\ n < MaxResults
    BY <1>1 DEF AddResult
  <2>3. r \in CriticResults /\ r.id = n + 1
    BY <2>1 DEF CriticResults
  <2> HIDE DEF r
  <2>4. /\ results' \in Seq(CriticResults) /\ Len(results') = n + 1
        /\ \A i \in 1..n : results'[i] = results[i]
        /\ results'[n + 1] = r
    BY <2>1, <2>2, <2>3
  <2>5. \A i \in 1..n + 1 : i = n + 1 \/ i \in 1..n
    BY <2>1
  <2>6. ASSUME NEW i \in 1..n + 1 PROVE results'[i].id = i /\ i <= MaxResults
    <3>1. CASE i = n + 1
      BY <2>1, <2>2, <2>3, <2>4, <3>1, BoxesAssumption
    <3>2. CASE i # n + 1
      BY <2>4, <2>5, <3>2 DEF GoodResults
    <3> QED
      BY <3>1, <3>2
  <2> QED
    BY <2>4, <2>6 DEF GoodResults
<1>2. CASE UNCHANGED results
  BY <1>2 DEF GoodResults
<1>3. \/ \E verdict \in {"fail", "pass", "unverified"}, confidence \in 0..10, box \in Boxes :
           AddResult(verdict, confidence, box)
      \/ UNCHANGED results
  <2>1. CASE \E confidence \in 1..2, box \in Boxes : AddResult("fail", confidence, box)
    BY <2>1
  <2>2. CASE \E verdict \in {"pass", "unverified"}, box \in Boxes : AddResult(verdict, 1, box)
    BY <2>2
  <2>3. CASE ~ \/ \E confidence \in 1..2, box \in Boxes : AddResult("fail", confidence, box)
               \/ \E verdict \in {"pass", "unverified"}, box \in Boxes : AddResult(verdict, 1, box)
    BY <2>3 DEF InputsNext, AddLine, AddRegion, AddSubtract, AddReference, Refine, AddAnswer, inputs
  <2> QED
    BY <2>1, <2>2, <2>3
<1> QED
  BY <1>1, <1>2, <1>3

(***************************************************************************)
(* The results of a critic that plan_round() gets (fidelity_loop.py): each *)
(* check once, in the order of the checklist, with a box that meets the    *)
(* image or none.                                                          *)
(***************************************************************************)
THEOREM ResultsAreGood == InputsSpec => []GoodResults(results)
  BY ResultsInitial, ResultsStep, PTL DEF InputsSpec

\* The values of a function on the numbers up to a bound, one after the other.
LEMMA ValuesStayIn ==
  ASSUME NEW N \in Nat, NEW A, NEW d, d[0] \in A,
         \A n \in 1..N : d[n - 1] \in A => d[n] \in A
  PROVE  \A n \in 0..N : d[n] \in A
<1> DEFINE S == {n \in 0..N : d[n] \in A}
<1>1. 0 \in S
  OBVIOUS
<1>2. ASSUME NEW n \in 0..N - 1, n \in S PROVE n + 1 \in S
  <2>1. n + 1 \in 1..N /\ (n + 1) - 1 = n /\ n + 1 \in 0..N
    OBVIOUS
  <2> QED
    BY <1>2, <2>1
<1> HIDE DEF S
<1>3. 0..N \subseteq S
  BY <1>1, <1>2, InductionUpTo
<1> QED
  BY <1>3 DEF S

-----------------------------------------------------------------------------
(***************************************************************************)
(* The checks that a round repairs: select_top_k_failed().                 *)
(***************************************************************************)
LEMMA FirstIsMost ==
  ASSUME NEW T \in SUBSET CriticResults, T # {}
  PROVE  First(T) \in T /\ \A s \in T : First(T).confidence >= s.confidence
<1> DEFINE lacks == {10 - r.confidence : r \in T}
<1>1. \A r \in T : r.confidence \in 0..10 /\ r.id \in Nat
  BY DEF CriticResults
<1>2. lacks \subseteq Nat /\ lacks # {}
  BY <1>1
<1>3. PICK m \in lacks : \A k \in lacks : m <= k
  <2> HIDE DEF lacks
  <2> QED
    BY <1>2, LeastNumber
<1> DEFINE most == {r \in T : 10 - r.confidence = m}
           ids == {r.id : r \in most}
<1>4. ids \subseteq Nat /\ ids # {}
  BY <1>1, <1>3
<1>5. PICK i \in ids : \A k \in ids : i <= k
  <2> HIDE DEF ids
  <2> QED
    BY <1>4, LeastNumber
<1>6. PICK r \in most : r.id = i
  BY <1>5
<1>7. ASSUME NEW s \in T
      PROVE  r.confidence > s.confidence \/ (r.confidence = s.confidence /\ r.id <= s.id)
  <2>1. m <= 10 - s.confidence /\ 10 - r.confidence = m
    BY <1>3, <1>6
  <2>2. s.confidence \in 0..10 /\ r.confidence \in 0..10 /\ r \in T
    BY <1>1, <1>6
  <2>3. CASE s.confidence = r.confidence
    <3>1. s \in most
      BY <1>6, <2>3
    <3> QED
      BY <1>5, <1>6, <2>3, <3>1
  <2>4. CASE s.confidence # r.confidence
    BY <2>1, <2>2, <2>4
  <2> QED
    BY <2>3, <2>4
<1>8. \E x \in T : \A s \in T :
        x.confidence > s.confidence \/ (x.confidence = s.confidence /\ x.id <= s.id)
  BY <1>6, <1>7
<1>9. /\ First(T) \in T
      /\ \A s \in T : \/ First(T).confidence > s.confidence
                      \/ First(T).confidence = s.confidence /\ First(T).id <= s.id
  BY <1>8 DEF First
<1> HIDE DEF most, ids, lacks
<1> QED
  BY <1>1, <1>9

\* The failed checks that can be chosen next, and the choice of the first of them.
Eligible(rs, chosen) ==
  {r \in Range(rs) : /\ r.verdict = "fail" /\ r \notin Range(chosen)
                     /\ \A c \in Range(chosen) : ~Overlaps(r.box, c.box)}

Chosen(rs, before) ==
  IF Eligible(rs, before) = {} THEN before ELSE Append(before, First(Eligible(rs, before)))

Chooses(rs, chosen) ==
  /\ chosen[0] = <<>>
  /\ \A n \in 0..TopK : chosen[n] \in Seq(CriticResults)
  /\ \A n \in 1..TopK : chosen[n] = Chosen(rs, chosen[n - 1])
  /\ SelectTopKFailed(rs) = chosen[TopK]

LEMMA ChosenIn ==
  ASSUME NEW rs, GoodResults(rs), NEW before \in Seq(CriticResults)
  PROVE  /\ Eligible(rs, before) \in SUBSET CriticResults
         /\ Chosen(rs, before) \in Seq(CriticResults)
<1>1. Range(rs) \subseteq CriticResults
  BY DEF GoodResults, Range
<1>2. Eligible(rs, before) \in SUBSET CriticResults
  BY <1>1 DEF Eligible
<1>3. Eligible(rs, before) # {} => First(Eligible(rs, before)) \in CriticResults
  BY <1>2, FirstIsMost
<1> QED
  BY <1>2, <1>3 DEF Chosen

LEMMA Chosing ==
  ASSUME NEW rs, GoodResults(rs)
  PROVE  \E chosen : Chooses(rs, chosen)
<1> DEFINE N == TopK
           A == Seq(CriticResults)
           F(g) == [n \in 0..N |-> IF n = 0 THEN <<>> ELSE Chosen(rs, g[n - 1])]
           d == CHOOSE g : g = F(g)
           step == [x \in (1..N) \X A |-> Chosen(rs, x[2])]
<1>1. SelectTopKFailed(rs) = d[N]
  BY Zenon DEF SelectTopKFailed, Chosen, Eligible
<1>2. N \in Nat /\ <<>> \in A
  BY PlanAssumption
<1>3. \A s \in A : Chosen(rs, s) \in A
  BY ChosenIn
<1> HIDE DEF A, N
<1>4. step \in [(1..N) \X A -> A]
  BY <1>3
<1>5. \A n \in 1..N, s \in A : step[<<n, s>>] = Chosen(rs, s)
  OBVIOUS
<1> HIDE DEF step
<1>6. PICK f \in [0..N -> A] : UnrollsUpTo(N, f, <<>>, step)
  BY <1>2, <1>4, RecursionUpTo
<1>7. f = F(f)
  <2>1. f = [n \in 0..N |-> IF n = 0 THEN <<>> ELSE step[<<n, f[n - 1]>>]]
    BY <1>6 DEF UnrollsUpTo
  <2>2. ASSUME NEW n \in 0..N, n # 0 PROVE step[<<n, f[n - 1]>>] = Chosen(rs, f[n - 1])
    <3>1. n \in 1..N /\ n - 1 \in 0..N
      BY <1>2, <2>2
    <3> QED
      BY <1>5, <3>1
  <2> QED
    BY <2>1, <2>2
<1>8. d = F(d)
  <2> HIDE DEF F
  <2> QED
    BY <1>7
<1> HIDE DEF d
<1>9. \A n \in 0..N : d[n] = IF n = 0 THEN <<>> ELSE Chosen(rs, d[n - 1])
  BY <1>8, Zenon
<1>10. d[0] = <<>>
  BY <1>2, <1>9
<1>11. \A n \in 1..N : d[n] = Chosen(rs, d[n - 1])
  BY <1>2, <1>9
<1>12. \A n \in 0..N : d[n] \in A
  BY <1>2, <1>3, <1>10, <1>11, ValuesStayIn
<1>13. Chooses(rs, d)
  BY <1>1, <1>10, <1>11, <1>12 DEF Chooses, N, A
<1> QED
  BY <1>13

\* What two boxes have in common.
LEMMA CommonIs ==
  ASSUME NEW a \in MaskRegions, NEW b \in MaskRegions
  PROVE  LET c == Common(a, b) IN
         /\ c \in MaskRegions /\ c.dilate = 0 /\ c.feather = 0
         /\ c.x0 = IF a.x0 >= b.x0 THEN a.x0 ELSE b.x0
         /\ c.x1 = IF a.x1 <= b.x1 THEN a.x1 ELSE b.x1
         /\ c.y0 = IF a.y0 >= b.y0 THEN a.y0 ELSE b.y0
         /\ c.y1 = IF a.y1 <= b.y1 THEN a.y1 ELSE b.y1
<1>1. /\ a.x0 \in Int /\ a.x1 \in Int /\ a.y0 \in Int /\ a.y1 \in Int
      /\ b.x0 \in Int /\ b.x1 \in Int /\ b.y0 \in Int /\ b.y1 \in Int
  BY DEF MaskRegions
<1> DEFINE west == IF a.x0 >= b.x0 THEN a.x0 ELSE b.x0
           east == IF a.x1 <= b.x1 THEN a.x1 ELSE b.x1
           north == IF a.y0 >= b.y0 THEN a.y0 ELSE b.y0
           south == IF a.y1 <= b.y1 THEN a.y1 ELSE b.y1
<1>2. /\ Max({a.x0, b.x0}) = west /\ Min({a.x1, b.x1}) = east
      /\ Max({a.y0, b.y0}) = north /\ Min({a.y1, b.y1}) = south
  BY <1>1, MaxOfTwo, MinOfTwo
<1>3. west \in Int /\ east \in Int /\ north \in Int /\ south \in Int
  BY <1>1
<1>4. Common(a, b) = [x0 |-> west, x1 |-> east, y0 |-> north, y1 |-> south,
                      dilate |-> 0, feather |-> 0]
  BY <1>2, Zenon DEF Common, Box
<1> HIDE DEF west, east, north, south
<1>5. Common(a, b) \in MaskRegions
  BY <1>3, <1>4 DEF MaskRegions
<1>6. /\ Common(a, b).x0 = west /\ Common(a, b).x1 = east
      /\ Common(a, b).y0 = north /\ Common(a, b).y1 = south
      /\ Common(a, b).dilate = 0 /\ Common(a, b).feather = 0
  BY <1>4
<1> QED
  BY <1>5, <1>6 DEF west, east, north, south

\* Two boxes overlap if they have a pixel in common, and then the other way round too.
LEMMA OverlapsIs ==
  ASSUME NEW a \in MaskRegions, NEW b \in MaskRegions, a # NoBox, b # NoBox
  PROVE  /\ Overlaps(a, b) <=> Overlaps(b, a)
         /\ Overlaps(a, b) <=> /\ a.x0 < b.x1 /\ b.x0 < a.x1 /\ a.y0 < b.y1 /\ b.y0 < a.y1
                               /\ WellFormed(a) /\ WellFormed(b)
<1>1. /\ a.x0 \in Int /\ a.x1 \in Int /\ a.y0 \in Int /\ a.y1 \in Int
      /\ b.x0 \in Int /\ b.x1 \in Int /\ b.y0 \in Int /\ b.y1 \in Int
  BY DEF MaskRegions
<1>2. ASSUME NEW c, NEW d, c \in {a, b}, d \in {a, b}, c # d
      PROVE  Overlaps(c, d) <=> /\ a.x0 < b.x1 /\ b.x0 < a.x1 /\ a.y0 < b.y1 /\ b.y0 < a.y1
                                /\ WellFormed(a) /\ WellFormed(b)
  <2> DEFINE k == Common(c, d)
  <2>1. /\ c \in MaskRegions /\ d \in MaskRegions /\ c # NoBox /\ d # NoBox
        /\ c.x0 \in Int /\ c.x1 \in Int /\ c.y0 \in Int /\ c.y1 \in Int
        /\ d.x0 \in Int /\ d.x1 \in Int /\ d.y0 \in Int /\ d.y1 \in Int
    BY <1>1, <1>2
  <2>2. /\ k.x0 = (IF c.x0 >= d.x0 THEN c.x0 ELSE d.x0)
        /\ k.x1 = (IF c.x1 <= d.x1 THEN c.x1 ELSE d.x1)
        /\ k.y0 = (IF c.y0 >= d.y0 THEN c.y0 ELSE d.y0)
        /\ k.y1 = (IF c.y1 <= d.y1 THEN c.y1 ELSE d.y1)
    BY <2>1, CommonIs
  <2> HIDE DEF k
  <2>3. WellFormed(k) <=> /\ c.x0 < d.x1 /\ d.x0 < c.x1 /\ c.y0 < d.y1 /\ d.y0 < c.y1
                          /\ c.x0 < c.x1 /\ c.y0 < c.y1 /\ d.x0 < d.x1 /\ d.y0 < d.y1
    BY <2>1, <2>2 DEF WellFormed
  <2>4. Overlaps(c, d) <=> WellFormed(k)
    BY <2>1 DEF Overlaps, k
  <2>5. (c = a /\ d = b) \/ (c = b /\ d = a)
    BY <1>2
  <2> QED
    BY <2>3, <2>4, <2>5 DEF WellFormed
<1>3. CASE a = b
  <2> DEFINE k == Common(a, a)
  <2>1. k.x0 = a.x0 /\ k.x1 = a.x1 /\ k.y0 = a.y0 /\ k.y1 = a.y1
    BY <1>1, CommonIs
  <2> HIDE DEF k
  <2>2. Overlaps(a, a) <=> WellFormed(k)
    BY DEF Overlaps, k
  <2> QED
    BY <1>1, <1>3, <2>1, <2>2 DEF WellFormed
<1>4. CASE a # b
  BY <1>2, <1>4
<1> QED
  BY <1>3, <1>4

LEMMA BoxesAre ==
  \A b \in Boxes : b = NoBox \/ (/\ b \in MaskRegions /\ WellFormed(b) /\ Inside(b)
                                 /\ b.dilate = 0 /\ b.feather = 0)
<1> SUFFICES ASSUME NEW b \in Boxes, b # NoBox
             PROVE  /\ b \in MaskRegions /\ WellFormed(b) /\ Inside(b)
                    /\ b.dilate = 0 /\ b.feather = 0
  OBVIOUS
<1>1. /\ b \in [x0 : Nat, x1 : 1..Width, y0 : Nat, y1 : 1..Height, dilate : {0}, feather : {0}]
      /\ WellFormed(b)
  BY BoxesAssumption
<1>2. Width \in Nat /\ Height \in Nat
  BY MaskAssumption
<1>3. b \in MaskRegions
  BY <1>1, <1>2 DEF MaskRegions
<1>4. Inside(b)
  BY <1>1, <1>2 DEF Inside
<1> QED
  BY <1>1, <1>3, <1>4

LEMMA BoxesOverlap ==
  ASSUME NEW a \in Boxes, NEW b \in Boxes
  PROVE  Overlaps(a, b) <=> Overlaps(b, a)
<1>1. CASE a = NoBox \/ b = NoBox
  BY <1>1 DEF Overlaps
<1>2. CASE a # NoBox /\ b # NoBox
  BY <1>2, BoxesAre, OverlapsIs
<1> QED
  BY <1>1, <1>2

LEMMA RangeOfAppend ==
  ASSUME NEW T, NEW s \in Seq(T), NEW x
  PROVE  /\ Range(Append(s, x)) = Range(s) \cup {x} /\ Len(Append(s, x)) = Len(s) + 1
         /\ Append(s, x)[Len(s) + 1] = x /\ \A i \in 1..Len(s) : Append(s, x)[i] = s[i]
         /\ Range(s) \subseteq T
<1> DEFINE n == Len(s)
           t == Append(s, x)
<1>1. /\ n \in Nat /\ DOMAIN s = 1..n /\ DOMAIN t = 1..n + 1 /\ Len(t) = n + 1
      /\ t[n + 1] = x /\ \A i \in 1..n : t[i] = s[i] /\ s[i] \in T
  OBVIOUS
<1> HIDE DEF t, n
<1>2. n + 1 \in 1..n + 1 /\ (\A i \in 1..n : i \in 1..n + 1) /\ \A i \in 1..n + 1 : i = n + 1 \/ i \in 1..n
  BY <1>1
<1>3. Range(t) = Range(s) \cup {x}
  BY <1>1, <1>2 DEF Range
<1>4. Range(s) \subseteq T
  BY <1>1 DEF Range
<1> QED
  BY <1>1, <1>3, <1>4 DEF t, n

\* After so many choices: what was chosen apart, and the others passed over for them.
ChoiceInv(rs, s, n) ==
  /\ s \in Seq(CriticResults) /\ Len(s) <= n
  /\ \A i, j \in 1..Len(s) : s[i] = s[j] => i = j
  /\ \A c \in Range(s) : c \in Range(rs) /\ c.verdict = "fail"
  /\ \A c, d \in Range(s) : c # d => ~Overlaps(c.box, d.box)
  /\ \A r \in Range(rs) : r.verdict = "fail" /\ r \notin Range(s) =>
       \/ \E c \in Range(s) : c.confidence >= r.confidence /\ Overlaps(r.box, c.box)
       \/ \A c \in Range(s) : c.confidence >= r.confidence
  /\ Len(s) = n \/ Eligible(rs, s) = {}

LEMMA ChoiceStep ==
  ASSUME NEW rs, GoodResults(rs), NEW n \in Nat, NEW s, ChoiceInv(rs, s, n)
  PROVE  ChoiceInv(rs, Chosen(rs, s), n + 1)
<1>1. s \in Seq(CriticResults) /\ Len(s) \in Nat
  BY DEF ChoiceInv
<1>2. CASE Eligible(rs, s) = {}
  BY <1>1, <1>2 DEF ChoiceInv, Chosen
<1>3. CASE Eligible(rs, s) # {}
  <2> DEFINE E == Eligible(rs, s)
             f == First(E)
             t == Append(s, f)
  <2>1. E \in SUBSET CriticResults
    BY <1>1, ChosenIn
  <2>2. f \in E /\ \A r \in E : f.confidence >= r.confidence
    BY <1>3, <2>1, FirstIsMost
  <2>3. Chosen(rs, s) = t
    BY <1>3 DEF Chosen
  <2> HIDE DEF E, f
  <2>4. /\ f \in CriticResults /\ f \in Range(rs) /\ f.verdict = "fail" /\ f \notin Range(s)
        /\ \A c \in Range(s) : ~Overlaps(f.box, c.box)
    BY <2>1, <2>2 DEF E, Eligible
  <2>5. /\ t \in Seq(CriticResults) /\ Len(t) = Len(s) + 1 /\ Range(t) = Range(s) \cup {f}
        /\ t[Len(s) + 1] = f /\ \A i \in 1..Len(s) : t[i] = s[i]
    BY <1>1, <2>4, RangeOfAppend
  <2>6. Range(s) \subseteq CriticResults
    BY <1>1, RangeOfAppend
  <2> HIDE DEF t
  <2>7. Len(s) = n /\ Len(t) = n + 1
    BY <1>3, <2>5 DEF ChoiceInv
  <2>8. \A i, j \in 1..Len(t) : t[i] = t[j] => i = j
    <3> SUFFICES ASSUME NEW i \in 1..Len(t), NEW j \in 1..Len(t), t[i] = t[j], i # j PROVE FALSE
      OBVIOUS
    <3>1. \A k \in 1..Len(t) : k = Len(s) + 1 \/ k \in 1..Len(s)
      BY <1>1, <2>5
    <3>2. \A k \in 1..Len(s) : s[k] # f
      <4>1. DOMAIN s = 1..Len(s)
        BY <1>1
      <4> QED
        BY <2>4, <4>1 DEF Range
    <3>3. \A k, l \in 1..Len(s) : s[k] = s[l] => k = l
      BY DEF ChoiceInv
    <3>4. CASE i \in 1..Len(s) /\ j \in 1..Len(s)
      BY <2>5, <3>3, <3>4
    <3>5. CASE i = Len(s) + 1 /\ j \in 1..Len(s)
      BY <2>5, <3>2, <3>5
    <3>6. CASE i \in 1..Len(s) /\ j = Len(s) + 1
      BY <2>5, <3>2, <3>6
    <3> QED
      BY <3>1, <3>4, <3>5, <3>6
  <2>9. \A c \in Range(t) : c \in Range(rs) /\ c.verdict = "fail"
    BY <2>4, <2>5 DEF ChoiceInv
  <2>10. \A c, d \in Range(t) : c # d => ~Overlaps(c.box, d.box)
    <3> SUFFICES ASSUME NEW c \in Range(t), NEW d \in Range(t), c # d PROVE ~Overlaps(c.box, d.box)
      OBVIOUS
    <3>1. c.box \in Boxes /\ d.box \in Boxes
      BY <2>4, <2>5, <2>6 DEF CriticResults
    <3>2. Overlaps(c.box, d.box) <=> Overlaps(d.box, c.box)
      BY <3>1, BoxesOverlap
    <3>3. CASE c \in Range(s) /\ d \in Range(s)
      BY <3>3 DEF ChoiceInv
    <3>4. CASE c = f /\ d \in Range(s)
      BY <2>4, <3>4
    <3>5. CASE c \in Range(s) /\ d = f
      BY <2>4, <3>2, <3>5
    <3> QED
      BY <2>5, <3>3, <3>4, <3>5
  <2>11. ASSUME NEW r \in Range(rs), r.verdict = "fail", r \notin Range(t)
         PROVE  \/ \E c \in Range(t) : c.confidence >= r.confidence /\ Overlaps(r.box, c.box)
                \/ \A c \in Range(t) : c.confidence >= r.confidence
    <3>1. r \notin Range(s)
      BY <2>5, <2>11
    <3>2. CASE \E c \in Range(s) : c.confidence >= r.confidence /\ Overlaps(r.box, c.box)
      BY <2>5, <3>2
    <3>3. CASE (\A c \in Range(s) : c.confidence >= r.confidence)
               /\ \E c \in Range(s) : Overlaps(r.box, c.box)
      BY <2>5, <3>3
    <3>4. CASE (\A c \in Range(s) : c.confidence >= r.confidence)
               /\ ~ \E c \in Range(s) : Overlaps(r.box, c.box)
      <4>1. r \in E
        BY <2>11, <3>1, <3>4 DEF E, Eligible
      <4> QED
        BY <2>2, <2>5, <3>4, <4>1
    <3> QED
      BY <2>11, <3>1, <3>2, <3>3, <3>4 DEF ChoiceInv
  <2>12. ChoiceInv(rs, t, n + 1)
    BY <2>5, <2>7, <2>8, <2>9, <2>10, <2>11 DEF ChoiceInv
  <2> QED
    BY <2>3, <2>12
<1> QED
  BY <1>2, <1>3

LEMMA ChoiceHolds ==
  ASSUME NEW rs, GoodResults(rs)
  PROVE  ChoiceInv(rs, SelectTopKFailed(rs), TopK)
<1>1. PICK chosen : Chooses(rs, chosen)
  BY Chosing
<1>2. TopK \in Nat
  BY PlanAssumption
<1> DEFINE S == {n \in 0..TopK : ChoiceInv(rs, chosen[n], n)}
<1>3. 0 \in S
  <2>1. Range(<<>>) = {} /\ <<>> \in Seq(CriticResults) /\ Len(<<>>) = 0
    BY DEF Range
  <2>2. ChoiceInv(rs, <<>>, 0)
    BY <2>1 DEF ChoiceInv
  <2>3. chosen[0] = <<>> /\ 0 \in 0..TopK
    BY <1>1, <1>2 DEF Chooses
  <2> QED
    BY <2>2, <2>3
<1>4. ASSUME NEW n \in 0..TopK - 1, n \in S PROVE n + 1 \in S
  <2>1. n \in Nat /\ n + 1 \in 1..TopK /\ n + 1 \in 0..TopK /\ (n + 1) - 1 = n
    BY <1>2
  <2>2. chosen[n + 1] = Chosen(rs, chosen[n])
    BY <1>1, <2>1 DEF Chooses
  <2>3. ChoiceInv(rs, Chosen(rs, chosen[n]), n + 1)
    BY <1>4, <2>1, ChoiceStep
  <2> QED
    BY <2>1, <2>2, <2>3
<1> HIDE DEF S
<1>5. 0..TopK \subseteq S
  BY <1>2, <1>3, <1>4, InductionUpTo
<1>6. TopK \in 0..TopK
  BY <1>2
<1> QED
  BY <1>1, <1>5, <1>6 DEF S, Chooses

(***************************************************************************)
(* select_top_k_failed(): whatever the results, the round takes no more    *)
(* than its number, none that overlap, and passes a failed check over only *)
(* for checks that were given with at least its confidence and that        *)
(* overlap it or fill the round (fidelity_loop.py).                        *)
(***************************************************************************)
THEOREM ChoiceGreedy == ASSUME NEW rs, GoodResults(rs) PROVE ChoiceIsGreedy(rs)
<1> DEFINE s == SelectTopKFailed(rs)
           chosen == Range(s)
           before(r) == {c \in chosen : c.confidence >= r.confidence}
<1>1. ChoiceInv(rs, s, TopK)
  BY ChoiceHolds
<1>2. TopK \in Nat /\ s \in Seq(CriticResults) /\ Len(s) <= TopK /\ Len(s) \in Nat
  BY <1>1, PlanAssumption DEF ChoiceInv
<1> HIDE DEF s
<1>3. Cardinality(chosen) = Len(s)
  <2> DEFINE n == Len(s)
  <2>1. n \in Nat /\ s = [i \in 1..n |-> s[i]] /\ DOMAIN s = 1..n
    BY <1>2
  <2>2. \A i, j \in 1..n : s[i] = s[j] => i = j
    BY <1>1 DEF ChoiceInv
  <2> HIDE DEF n
  <2>3. s \in Bijection(1..n, chosen)
    BY <2>1, <2>2 DEF Bijection, Injection, Surjection, IsInjective, Range
  <2>4. ExistsBijection(1..n, chosen)
    BY <2>3 DEF ExistsBijection
  <2> HIDE DEF chosen
  <2>5. Cardinality(chosen) = n
    BY <2>1, <2>4, FS_CountingElements
  <2> QED
    BY <2>5 DEF n
<1>4. \A c, d \in chosen : c # d => ~Overlaps(c.box, d.box)
  BY <1>1 DEF ChoiceInv
<1>5. ASSUME NEW r \in Range(rs), r \notin chosen, r.verdict = "fail",
             ~ \E c \in before(r) : Overlaps(r.box, c.box)
      PROVE  Cardinality(before(r)) = TopK
  <2>1. \A c \in chosen : c.confidence >= r.confidence
    BY <1>1, <1>5 DEF ChoiceInv
  <2>2. before(r) = chosen
    BY <2>1
  <2>3. Eligible(rs, s) # {}
    BY <1>5, <2>2 DEF Eligible
  <2>4. Len(s) = TopK
    BY <1>1, <2>3 DEF ChoiceInv
  <2> QED
    BY <1>3, <2>2, <2>4
<1>6. Cardinality(chosen) <= TopK
  BY <1>2, <1>3
<1> HIDE DEF chosen
<1>7. \A r \in Range(rs) \ chosen :
        r.verdict = "fail" =>
          Cardinality(before(r)) = TopK \/ \E c \in before(r) : Overlaps(r.box, c.box)
  BY <1>5
<1> QED
  BY <1>4, <1>6, <1>7, Zenon DEF ChoiceIsGreedy, chosen, s

-----------------------------------------------------------------------------
(***************************************************************************)
(* What the mask leaves out: _clip_rect_excluding(), build_mask_regions(). *)
(***************************************************************************)
Pieces == {g \in MaskRegions : WellFormed(g) /\ Inside(g) /\ g.dilate = 0 /\ g.feather = 0}

\* A box within the image is not cut off.
LEMMA InsideStays ==
  ASSUME NEW g \in MaskRegions, WellFormed(g), Inside(g)
  PROVE  Clamped(g) = g
<1>1. /\ g.x0 \in Int /\ g.x1 \in Int /\ g.y0 \in Int /\ g.y1 \in Int
      /\ g = [x0 |-> g.x0, x1 |-> g.x1, y0 |-> g.y0, y1 |-> g.y1,
              dilate |-> g.dilate, feather |-> g.feather]
  BY DEF MaskRegions
<1>2. Width \in Nat /\ Height \in Nat
  BY MaskAssumption
<1>3. /\ 0 <= g.x0 /\ g.x0 < g.x1 /\ g.x1 <= Width
      /\ 0 <= g.y0 /\ g.y0 < g.y1 /\ g.y1 <= Height
  BY DEF WellFormed, Inside
<1>4. Within(g.x0, 0, Width) = g.x0 /\ Within(g.y0, 0, Height) = g.y0
  BY <1>1, <1>2, <1>3 DEF Within
<1>5. Min({g.x1, Width}) = g.x1 /\ Min({g.y1, Height}) = g.y1
  BY <1>1, <1>2, <1>3, MinOfTwo
<1>6. Max({g.x0, g.x1}) = g.x1 /\ Max({g.y0, g.y1}) = g.y1
  BY <1>1, <1>3, MaxOfTwo
<1>7. Clamped(g) = [g EXCEPT !.x0 = g.x0, !.y0 = g.y0, !.x1 = g.x1, !.y1 = g.y1]
  BY <1>4, <1>5, <1>6 DEF Clamped
<1> QED
  BY <1>1, <1>7

LEMMA CoversIs ==
  ASSUME NEW g \in MaskRegions, NEW p \in Pixels
  PROVE  Covers(g, p) <=> g.x0 <= p[1] /\ p[1] < g.x1 /\ g.y0 <= p[2] /\ p[2] < g.y1
<1>1. /\ p[1] \in Int /\ p[2] \in Int
      /\ g.x0 \in Int /\ g.x1 \in Int /\ g.y0 \in Int /\ g.y1 \in Int
  BY DEF Pixels, MaskRegions
<1> QED
  BY <1>1 DEF Covers

\* What is left of a box are boxes with exactly the pixels outside the other one.
LEMMA ClipIs ==
  ASSUME NEW b \in Pieces, NEW e \in MaskRegions
  PROVE  /\ Clip(b, e) \in SUBSET Pieces
         /\ \A p \in Pixels : (\E s \in Clip(b, e) : Covers(s, p)) <=> Covers(b, p) /\ ~Covers(e, p)
<1> DEFINE c == Common(b, e)
           above == Box(b.x0, b.x1, b.y0, c.y0)
           below == Box(b.x0, b.x1, c.y1, b.y1)
           left == Box(b.x0, c.x0, c.y0, c.y1)
           right == Box(c.x1, b.x1, c.y0, c.y1)
<1>1. /\ b \in MaskRegions /\ WellFormed(b) /\ Inside(b)
      /\ b.x0 \in Int /\ b.x1 \in Int /\ b.y0 \in Int /\ b.y1 \in Int
      /\ e.x0 \in Int /\ e.x1 \in Int /\ e.y0 \in Int /\ e.y1 \in Int
  BY DEF Pieces, MaskRegions
<1>2. /\ c.x0 = (IF b.x0 >= e.x0 THEN b.x0 ELSE e.x0)
      /\ c.x1 = (IF b.x1 <= e.x1 THEN b.x1 ELSE e.x1)
      /\ c.y0 = (IF b.y0 >= e.y0 THEN b.y0 ELSE e.y0)
      /\ c.y1 = (IF b.y1 <= e.y1 THEN b.y1 ELSE e.y1)
  BY <1>1, CommonIs
<1>3. c.x0 \in Int /\ c.x1 \in Int /\ c.y0 \in Int /\ c.y1 \in Int
  BY <1>1, <1>2
<1>4. \A p \in Pixels :
        /\ p[1] \in Int /\ p[2] \in Int
        /\ Covers(b, p) <=> b.x0 <= p[1] /\ p[1] < b.x1 /\ b.y0 <= p[2] /\ p[2] < b.y1
        /\ Covers(e, p) <=> e.x0 <= p[1] /\ p[1] < e.x1 /\ e.y0 <= p[2] /\ p[2] < e.y1
  BY <1>1, CoversIs DEF Pixels
<1>5. CASE ~WellFormed(c)
  <2>1. Clip(b, e) = {b}
    BY <1>5 DEF Clip
  <2>2. ASSUME NEW p \in Pixels PROVE ~(Covers(b, p) /\ Covers(e, p))
    BY <1>1, <1>2, <1>4, <1>5 DEF WellFormed
  <2> QED
    BY <2>1, <2>2
<1>6. CASE WellFormed(c)
  <2>1. Clip(b, e) = {s \in {above, below, left, right} : WellFormed(s)}
    BY <1>6 DEF Clip
  <2> HIDE DEF c
  <2>2. /\ above \in MaskRegions /\ above.dilate = 0 /\ above.feather = 0
        /\ above.x0 = b.x0 /\ above.x1 = b.x1 /\ above.y0 = b.y0 /\ above.y1 = c.y0
    BY <1>1, <1>3 DEF Box, MaskRegions
  <2>3. /\ below \in MaskRegions /\ below.dilate = 0 /\ below.feather = 0
        /\ below.x0 = b.x0 /\ below.x1 = b.x1 /\ below.y0 = c.y1 /\ below.y1 = b.y1
    BY <1>1, <1>3 DEF Box, MaskRegions
  <2>4. /\ left \in MaskRegions /\ left.dilate = 0 /\ left.feather = 0
        /\ left.x0 = b.x0 /\ left.x1 = c.x0 /\ left.y0 = c.y0 /\ left.y1 = c.y1
    BY <1>1, <1>3 DEF Box, MaskRegions
  <2>5. /\ right \in MaskRegions /\ right.dilate = 0 /\ right.feather = 0
        /\ right.x0 = c.x1 /\ right.x1 = b.x1 /\ right.y0 = c.y0 /\ right.y1 = c.y1
    BY <1>1, <1>3 DEF Box, MaskRegions
  <2> HIDE DEF above, below, left, right
  <2>6. /\ b.x0 <= c.x0 /\ c.x0 < c.x1 /\ c.x1 <= b.x1
        /\ b.y0 <= c.y0 /\ c.y0 < c.y1 /\ c.y1 <= b.y1
        /\ 0 <= b.x0 /\ b.x1 <= Width /\ 0 <= b.y0 /\ b.y1 <= Height
    BY <1>1, <1>2, <1>6 DEF WellFormed, Inside
  <2>7. Width \in Nat /\ Height \in Nat
    BY MaskAssumption
  <2>8. Inside(above) /\ Inside(below) /\ Inside(left) /\ Inside(right)
    BY <1>1, <1>3, <2>2, <2>3, <2>4, <2>5, <2>6, <2>7 DEF Inside
  <2>9. Clip(b, e) \in SUBSET Pieces
    BY <2>1, <2>2, <2>3, <2>4, <2>5, <2>8 DEF Pieces
  <2>10. ASSUME NEW p \in Pixels
         PROVE  (\E s \in Clip(b, e) : Covers(s, p)) <=> Covers(b, p) /\ ~Covers(e, p)
    <3>1. \A s \in {above, below, left, right} : Covers(s, p) => WellFormed(s)
      <4> SUFFICES ASSUME NEW s \in MaskRegions, Covers(s, p) PROVE WellFormed(s)
        BY <2>2, <2>3, <2>4, <2>5
      <4>1. s.x0 <= p[1] /\ p[1] < s.x1 /\ s.y0 <= p[2] /\ p[2] < s.y1
        BY CoversIs
      <4>2. s.x0 \in Int /\ s.x1 \in Int /\ s.y0 \in Int /\ s.y1 \in Int
        BY DEF MaskRegions
      <4> QED
        BY <1>4, <4>1, <4>2 DEF WellFormed
    <3>2. (\E s \in Clip(b, e) : Covers(s, p)) <=>
            Covers(above, p) \/ Covers(below, p) \/ Covers(left, p) \/ Covers(right, p)
      BY <2>1, <3>1
    <3> DEFINE x == p[1]
               y == p[2]
    <3>3. x \in Int /\ y \in Int
      BY <1>4
    <3>4. Covers(above, p) <=> b.x0 <= x /\ x < b.x1 /\ b.y0 <= y /\ y < c.y0
      BY <2>2, CoversIs
    <3>5. Covers(below, p) <=> b.x0 <= x /\ x < b.x1 /\ c.y1 <= y /\ y < b.y1
      BY <2>3, CoversIs
    <3>6. Covers(left, p) <=> b.x0 <= x /\ x < c.x0 /\ c.y0 <= y /\ y < c.y1
      BY <2>4, CoversIs
    <3>7. Covers(right, p) <=> c.x1 <= x /\ x < b.x1 /\ c.y0 <= y /\ y < c.y1
      BY <2>5, CoversIs
    <3>8. /\ Covers(b, p) <=> b.x0 <= x /\ x < b.x1 /\ b.y0 <= y /\ y < b.y1
          /\ Covers(e, p) <=> e.x0 <= x /\ x < e.x1 /\ e.y0 <= y /\ y < e.y1
      BY <1>4
    <3> HIDE DEF x, y
    <3>9. Covers(b, p) /\ Covers(e, p) <=>
            c.x0 <= x /\ x < c.x1 /\ c.y0 <= y /\ y < c.y1
      BY <1>1, <1>2, <3>3, <3>8
    <3>10. (c.x0 <= x /\ x < c.x1 /\ c.y0 <= y /\ y < c.y1) \/ ~Covers(b, p)
           <=> ~(Covers(above, p) \/ Covers(below, p) \/ Covers(left, p) \/ Covers(right, p))
      BY <1>1, <1>3, <2>6, <3>3, <3>4, <3>5, <3>6, <3>7, <3>8
    <3> QED
      BY <3>2, <3>9, <3>10
  <2> QED
    BY <2>9, <2>10
<1> QED
  BY <1>5, <1>6

\* What is left of several boxes, of all pixels that one of them has.
LEMMA ClipAll ==
  ASSUME NEW before \in SUBSET Pieces, NEW e \in MaskRegions
  PROVE  LET after == UNION {Clip(b, e) : b \in before} IN
         /\ after \in SUBSET Pieces
         /\ \A p \in Pixels : (\E s \in after : Covers(s, p)) <=>
                                (\E b \in before : Covers(b, p)) /\ ~Covers(e, p)
<1> DEFINE after == UNION {Clip(b, e) : b \in before}
<1>1. \A s : s \in after <=> \E b \in before : s \in Clip(b, e)
  OBVIOUS
<1>2. \A b \in before : b \in Pieces
  OBVIOUS
<1> HIDE DEF after
<1>3. after \in SUBSET Pieces
  BY <1>1, <1>2, ClipIs
<1>4. ASSUME NEW p \in Pixels
      PROVE  (\E s \in after : Covers(s, p)) <=> (\E b \in before : Covers(b, p)) /\ ~Covers(e, p)
  <2>1. ASSUME NEW s \in after, Covers(s, p)
        PROVE  (\E b \in before : Covers(b, p)) /\ ~Covers(e, p)
    <3>1. PICK b \in before : s \in Clip(b, e)
      BY <1>1
    <3> QED
      BY <1>2, <2>1, <3>1, ClipIs
  <2>2. ASSUME NEW b \in before, Covers(b, p), ~Covers(e, p) PROVE \E s \in after : Covers(s, p)
    <3>1. PICK s \in Clip(b, e) : Covers(s, p)
      BY <1>2, <2>2, ClipIs
    <3> QED
      BY <1>1, <3>1
  <2> QED
    BY <2>1, <2>2
<1> QED
  BY <1>3, <1>4 DEF after

-----------------------------------------------------------------------------
(***************************************************************************)
(* The passed checks that are kept, and what is kept of them.              *)
(***************************************************************************)

\* One chosen check more is cut out of what is left of a passed one.
Cut(chosen, r, n, before) ==
  IF chosen[n] \in Bordered(chosen, r) THEN UNION {Clip(b, chosen[n].box) : b \in before} ELSE before

\* The boxes have the pixels of the passed one and of no near one among the first.
LeftIs(chosen, r, n, boxes) ==
  /\ boxes \in SUBSET Pieces
  /\ \A p \in Pixels :
       (\E s \in boxes : Covers(s, p)) <=>
         /\ Covers(r.box, p)
         /\ \A i \in 1..n : chosen[i] \in Bordered(chosen, r) => ~Covers(chosen[i].box, p)

LEMMA NearAre ==
  ASSUME NEW chosen \in Seq(CriticResults), NEW r
  PROVE  /\ Range(chosen) \subseteq CriticResults
         /\ Bordered(chosen, r) \subseteq Localized(chosen)
         /\ \A c \in Localized(chosen) :
              /\ c \in Range(chosen) /\ c \in CriticResults /\ c.box # NoBox
              /\ c.box \in MaskRegions /\ WellFormed(c.box) /\ Inside(c.box)
              /\ c.box.dilate = 0 /\ c.box.feather = 0
<1>1. Range(chosen) \subseteq CriticResults
  BY DEF Range
<1>2. \A c \in Localized(chosen) : c \in Range(chosen) /\ c.box # NoBox /\ c.box \in Boxes
  BY <1>1 DEF Localized, CriticResults
<1>3. Bordered(chosen, r) \subseteq Localized(chosen)
  BY DEF Bordered
<1> QED
  BY <1>1, <1>2, <1>3, BoxesAre

LEMMA CutStep ==
  ASSUME NEW chosen \in Seq(CriticResults), NEW r, NEW n \in 1..Len(chosen),
         NEW boxes, LeftIs(chosen, r, n - 1, boxes)
  PROVE  LeftIs(chosen, r, n, Cut(chosen, r, n, boxes))
<1>1. \A i \in 1..n : i = n \/ i \in 1..n - 1
  OBVIOUS
<1>2. n \in 1..n /\ \A i \in 1..n - 1 : i \in 1..n
  OBVIOUS
<1>3. CASE chosen[n] \in Bordered(chosen, r)
  <2> DEFINE e == chosen[n].box
             after == UNION {Clip(b, e) : b \in boxes}
  <2>1. e \in MaskRegions
    BY <1>3, NearAre
  <2>2. Cut(chosen, r, n, boxes) = after
    BY <1>3 DEF Cut
  <2> HIDE DEF e
  <2>3. boxes \in SUBSET Pieces
    BY DEF LeftIs
  <2>4. /\ after \in SUBSET Pieces
        /\ \A p \in Pixels : (\E s \in after : Covers(s, p)) <=>
                               (\E b \in boxes : Covers(b, p)) /\ ~Covers(e, p)
    BY <2>1, <2>3, ClipAll
  <2> HIDE DEF after
  <2>5. ASSUME NEW p \in Pixels
        PROVE  (\E s \in after : Covers(s, p)) <=>
                 /\ Covers(r.box, p)
                 /\ \A i \in 1..n : chosen[i] \in Bordered(chosen, r) => ~Covers(chosen[i].box, p)
    <3>1. (\E s \in boxes : Covers(s, p)) <=>
            /\ Covers(r.box, p)
            /\ \A i \in 1..n - 1 : chosen[i] \in Bordered(chosen, r) => ~Covers(chosen[i].box, p)
      BY DEF LeftIs
    <3>2. (\A i \in 1..n : chosen[i] \in Bordered(chosen, r) => ~Covers(chosen[i].box, p)) <=>
            /\ \A i \in 1..n - 1 : chosen[i] \in Bordered(chosen, r) => ~Covers(chosen[i].box, p)
            /\ ~Covers(e, p)
      BY <1>1, <1>2, <1>3, Zenon DEF e
    <3> QED
      BY <2>4, <3>1, <3>2
  <2> QED
    BY <2>2, <2>4, <2>5 DEF LeftIs
<1>4. CASE chosen[n] \notin Bordered(chosen, r)
  <2>1. Cut(chosen, r, n, boxes) = boxes
    BY <1>4 DEF Cut
  <2>2. ASSUME NEW p \in Pixels
        PROVE  (\A i \in 1..n : chosen[i] \in Bordered(chosen, r) => ~Covers(chosen[i].box, p)) <=>
               \A i \in 1..n - 1 : chosen[i] \in Bordered(chosen, r) => ~Covers(chosen[i].box, p)
    BY <1>1, <1>2, <1>4, Zenon
  <2> QED
    BY <2>1, <2>2 DEF LeftIs
<1> QED
  BY <1>3, <1>4

Cuts(chosen, r, left) ==
  /\ left[0] = {r.box}
  /\ \A n \in 1..Len(chosen) : left[n] = Cut(chosen, r, n, left[n - 1])
  /\ Kept(chosen, r) = IF \E c \in Bordered(chosen, r) : SameRegion(r.box, c.box) THEN {}
                       ELSE left[Len(chosen)]

LEMMA Cutting ==
  ASSUME NEW chosen \in Seq(CriticResults), NEW r \in CriticResults, r.box # NoBox
  PROVE  \E left : Cuts(chosen, r, left)
<1> DEFINE N == Len(chosen)
           A == SUBSET Pieces
           F(g) == [n \in 0..N |-> IF n = 0 THEN {r.box} ELSE Cut(chosen, r, n, g[n - 1])]
           d == CHOOSE g : g = F(g)
           step == [x \in (1..N) \X A |-> Cut(chosen, r, x[1], x[2])]
<1>1. Kept(chosen, r) = IF \E c \in Bordered(chosen, r) : SameRegion(r.box, c.box) THEN {} ELSE d[N]
  BY Zenon DEF Kept, Cut
<1>2. N \in Nat
  OBVIOUS
<1>3. {r.box} \in A
  <2>1. r.box \in Boxes
    BY DEF CriticResults
  <2> QED
    BY <2>1, BoxesAre DEF Pieces
<1>4. \A n \in 1..N, s \in A : Cut(chosen, r, n, s) \in A
  <2> SUFFICES ASSUME NEW n \in 1..N, NEW s \in SUBSET Pieces PROVE Cut(chosen, r, n, s) \in SUBSET Pieces
    OBVIOUS
  <2>1. CASE chosen[n] \in Bordered(chosen, r)
    <3>1. chosen[n].box \in MaskRegions
      BY <2>1, NearAre
    <3> DEFINE e == chosen[n].box
    <3> HIDE DEF e
    <3>2. UNION {Clip(b, e) : b \in s} \in SUBSET Pieces
      BY <3>1, ClipAll DEF e
    <3> QED
      BY <2>1, <3>2 DEF Cut, e
  <2>2. CASE chosen[n] \notin Bordered(chosen, r)
    BY <2>2 DEF Cut
  <2> QED
    BY <2>1, <2>2
<1> HIDE DEF A, N
<1>5. step \in [(1..N) \X A -> A]
  BY <1>4
<1>6. \A n \in 1..N, s \in A : step[<<n, s>>] = Cut(chosen, r, n, s)
  OBVIOUS
<1> HIDE DEF step
<1>7. PICK f \in [0..N -> A] : UnrollsUpTo(N, f, {r.box}, step)
  BY <1>2, <1>3, <1>5, RecursionUpTo
<1>8. f = F(f)
  <2>1. f = [n \in 0..N |-> IF n = 0 THEN {r.box} ELSE step[<<n, f[n - 1]>>]]
    BY <1>7 DEF UnrollsUpTo
  <2>2. ASSUME NEW n \in 0..N, n # 0 PROVE step[<<n, f[n - 1]>>] = Cut(chosen, r, n, f[n - 1])
    <3>1. n \in 1..N /\ n - 1 \in 0..N
      BY <1>2, <2>2
    <3> QED
      BY <1>6, <3>1
  <2> QED
    BY <2>1, <2>2
<1>9. d = F(d)
  <2> HIDE DEF F
  <2> QED
    BY <1>8
<1> HIDE DEF d
<1>10. \A n \in 0..N : d[n] = IF n = 0 THEN {r.box} ELSE Cut(chosen, r, n, d[n - 1])
  BY <1>9, Zenon
<1>11. d[0] = {r.box}
  BY <1>2, <1>10
<1>12. \A n \in 1..N : d[n] = Cut(chosen, r, n, d[n - 1])
  BY <1>2, <1>10
<1>13. Cuts(chosen, r, d)
  BY <1>1, <1>11, <1>12 DEF Cuts, N
<1> QED
  BY <1>13

\* Of a passed box are kept the pixels that no chosen one near it has.
LEMMA KeptIs ==
  ASSUME NEW chosen \in Seq(CriticResults), NEW r \in CriticResults, r.box # NoBox
  PROVE  /\ Kept(chosen, r) \in SUBSET Pieces
         /\ \A p \in Pixels :
              (\E s \in Kept(chosen, r) : Covers(s, p)) <=>
                /\ Covers(r.box, p)
                /\ \A c \in Bordered(chosen, r) : ~SameRegion(r.box, c.box) /\ ~Covers(c.box, p)
<1> DEFINE N == Len(chosen)
<1>1. PICK left : Cuts(chosen, r, left)
  BY Cutting
<1>2. N \in Nat /\ DOMAIN chosen = 1..N
  OBVIOUS
<1> HIDE DEF N
<1> DEFINE S == {n \in 0..N : LeftIs(chosen, r, n, left[n])}
<1>3. 0 \in S
  <2>1. r.box \in Boxes
    BY DEF CriticResults
  <2>2. r.box \in Pieces
    BY <2>1, BoxesAre DEF Pieces
  <2>3. left[0] = {r.box} /\ 0 \in 0..N
    BY <1>1, <1>2 DEF Cuts
  <2>4. 1..0 = {}
    OBVIOUS
  <2>5. LeftIs(chosen, r, 0, {r.box})
    BY <2>2, <2>4 DEF LeftIs
  <2> QED
    BY <2>3, <2>5
<1>4. ASSUME NEW n \in 0..N - 1, n \in S PROVE n + 1 \in S
  <2>1. n + 1 \in 1..N /\ n + 1 \in 0..N /\ (n + 1) - 1 = n
    BY <1>2
  <2>2. left[n + 1] = Cut(chosen, r, n + 1, left[n])
    BY <1>1, <2>1 DEF Cuts, N
  <2>3. LeftIs(chosen, r, n, left[n])
    BY <1>4
  <2>4. LeftIs(chosen, r, n + 1, Cut(chosen, r, n + 1, left[n]))
    BY <2>1, <2>3, CutStep DEF N
  <2> QED
    BY <2>1, <2>2, <2>4
<1> HIDE DEF S
<1>5. 0..N \subseteq S
  BY <1>2, <1>3, <1>4, InductionUpTo
<1>6. N \in S
  BY <1>2, <1>5
<1>7. LeftIs(chosen, r, N, left[N])
  BY <1>6 DEF S
<1>8. ASSUME NEW p \in Pixels
      PROVE  (\A i \in 1..N : chosen[i] \in Bordered(chosen, r) => ~Covers(chosen[i].box, p))
             <=> \A c \in Bordered(chosen, r) : ~Covers(c.box, p)
  <2>1. \A c \in Bordered(chosen, r) : \E i \in 1..N : chosen[i] = c
    BY <1>2, NearAre DEF Range
  <2> QED
    BY <2>1
<1>9. CASE \E c \in Bordered(chosen, r) : SameRegion(r.box, c.box)
  <2>1. Kept(chosen, r) = {}
    BY <1>1, <1>9 DEF Cuts
  <2> QED
    BY <1>9, <2>1
<1>10. CASE ~ \E c \in Bordered(chosen, r) : SameRegion(r.box, c.box)
  <2>1. Kept(chosen, r) = left[N]
    BY <1>1, <1>10 DEF Cuts, N
  <2> QED
    BY <1>7, <1>8, <1>10, <2>1 DEF LeftIs
<1> QED
  BY <1>9, <1>10

-----------------------------------------------------------------------------
\* A passed check is near a chosen one and was not taken for its box before.
Near(chosen, r) == r.verdict = "pass" /\ r.box # NoBox /\ Bordered(chosen, r) # {}

Reassert(chosen, rs, n, before) ==
  IF Near(chosen, rs[n]) /\ \A k \in Range(before) : k.box # rs[n].box
  THEN Append(before, rs[n]) ELSE before

Reasserts(chosen, rs, kept) ==
  /\ kept[0] = <<>>
  /\ \A n \in 1..Len(rs) : kept[n] = Reassert(chosen, rs, n, kept[n - 1])
  /\ Reasserted(chosen, rs) = kept[Len(rs)]

LEMMA Reasserting ==
  ASSUME NEW chosen, NEW rs \in Seq(CriticResults)
  PROVE  \E kept : Reasserts(chosen, rs, kept)
<1> DEFINE N == Len(rs)
           A == Seq(CriticResults)
           F(g) == [n \in 0..N |-> IF n = 0 THEN <<>> ELSE Reassert(chosen, rs, n, g[n - 1])]
           d == CHOOSE g : g = F(g)
           step == [x \in (1..N) \X A |-> Reassert(chosen, rs, x[1], x[2])]
<1>1. Reasserted(chosen, rs) = d[N]
  BY Zenon DEF Reasserted, Reassert, Near
<1>2. N \in Nat /\ <<>> \in A
  OBVIOUS
<1>3. \A n \in 1..N, s \in A : Reassert(chosen, rs, n, s) \in A
  BY DEF Reassert
<1> HIDE DEF A, N
<1>4. step \in [(1..N) \X A -> A]
  BY <1>3
<1>5. \A n \in 1..N, s \in A : step[<<n, s>>] = Reassert(chosen, rs, n, s)
  OBVIOUS
<1> HIDE DEF step
<1>6. PICK f \in [0..N -> A] : UnrollsUpTo(N, f, <<>>, step)
  BY <1>2, <1>4, RecursionUpTo
<1>7. f = F(f)
  <2>1. f = [n \in 0..N |-> IF n = 0 THEN <<>> ELSE step[<<n, f[n - 1]>>]]
    BY <1>6 DEF UnrollsUpTo
  <2>2. ASSUME NEW n \in 0..N, n # 0 PROVE step[<<n, f[n - 1]>>] = Reassert(chosen, rs, n, f[n - 1])
    <3>1. n \in 1..N /\ n - 1 \in 0..N
      BY <1>2, <2>2
    <3> QED
      BY <1>5, <3>1
  <2> QED
    BY <2>1, <2>2
<1>8. d = F(d)
  <2> HIDE DEF F
  <2> QED
    BY <1>7
<1> HIDE DEF d
<1>9. \A n \in 0..N : d[n] = IF n = 0 THEN <<>> ELSE Reassert(chosen, rs, n, d[n - 1])
  BY <1>8, Zenon
<1>10. d[0] = <<>>
  BY <1>2, <1>9
<1>11. \A n \in 1..N : d[n] = Reassert(chosen, rs, n, d[n - 1])
  BY <1>2, <1>9
<1>12. Reasserts(chosen, rs, d)
  BY <1>1, <1>10, <1>11 DEF Reasserts, N
<1> QED
  BY <1>12

\* Of the first results those near a chosen check, and each box of theirs.
ReassertInv(chosen, rs, n, s) ==
  /\ s \in Seq(CriticResults)
  /\ \A k \in Range(s) : k \in Range(rs) /\ Near(chosen, k)
  /\ \A i \in 1..n : Near(chosen, rs[i]) => \E k \in Range(s) : k.box = rs[i].box

LEMMA ReassertStep ==
  ASSUME NEW chosen, NEW rs \in Seq(CriticResults), NEW n \in 1..Len(rs),
         NEW s, ReassertInv(chosen, rs, n - 1, s)
  PROVE  ReassertInv(chosen, rs, n, Reassert(chosen, rs, n, s))
<1> DEFINE t == Reassert(chosen, rs, n, s)
<1>1. \A i \in 1..n : i = n \/ i \in 1..n - 1
  OBVIOUS
<1>2. s \in Seq(CriticResults) /\ rs[n] \in CriticResults
  BY DEF ReassertInv
<1>3. rs[n] \in Range(rs)
  <2>1. DOMAIN rs = 1..Len(rs)
    OBVIOUS
  <2> QED
    BY <2>1 DEF Range
<1>4. CASE Near(chosen, rs[n]) /\ \A k \in Range(s) : k.box # rs[n].box
  <2>1. t = Append(s, rs[n])
    BY <1>4 DEF Reassert
  <2>2. t \in Seq(CriticResults) /\ Range(t) = Range(s) \cup {rs[n]}
    BY <1>2, <2>1, RangeOfAppend
  <2> HIDE DEF t
  <2>3. \A k \in Range(t) : k \in Range(rs) /\ Near(chosen, k)
    BY <1>3, <1>4, <2>2 DEF ReassertInv
  <2>4. ASSUME NEW i \in 1..n, Near(chosen, rs[i]) PROVE \E k \in Range(t) : k.box = rs[i].box
    <3>1. CASE i = n
      BY <2>2, <3>1
    <3>2. CASE i \in 1..n - 1
      BY <2>2, <2>4, <3>2 DEF ReassertInv
    <3> QED
      BY <1>1, <3>1, <3>2
  <2> QED
    BY <2>2, <2>3, <2>4 DEF ReassertInv, t
<1>5. CASE ~(Near(chosen, rs[n]) /\ \A k \in Range(s) : k.box # rs[n].box)
  <2>1. t = s
    BY <1>5 DEF Reassert
  <2>2. ASSUME NEW i \in 1..n, Near(chosen, rs[i]) PROVE \E k \in Range(s) : k.box = rs[i].box
    <3>1. CASE i = n
      BY <1>5, <2>2, <3>1
    <3>2. CASE i \in 1..n - 1
      BY <2>2, <3>2 DEF ReassertInv
    <3> QED
      BY <1>1, <3>1, <3>2
  <2> QED
    BY <1>2, <2>1, <2>2 DEF ReassertInv
<1> QED
  BY <1>4, <1>5

LEMMA ReassertedIs ==
  ASSUME NEW chosen, NEW rs \in Seq(CriticResults)
  PROVE  ReassertInv(chosen, rs, Len(rs), Reasserted(chosen, rs))
<1> DEFINE N == Len(rs)
<1>1. PICK kept : Reasserts(chosen, rs, kept)
  BY Reasserting
<1>2. N \in Nat
  OBVIOUS
<1> HIDE DEF N
<1> DEFINE S == {n \in 0..N : ReassertInv(chosen, rs, n, kept[n])}
<1>3. 0 \in S
  <2>1. Range(<<>>) = {} /\ <<>> \in Seq(CriticResults) /\ 1..0 = {}
    BY DEF Range
  <2>2. ReassertInv(chosen, rs, 0, <<>>)
    BY <2>1 DEF ReassertInv
  <2>3. kept[0] = <<>> /\ 0 \in 0..N
    BY <1>1, <1>2 DEF Reasserts
  <2> QED
    BY <2>2, <2>3
<1>4. ASSUME NEW n \in 0..N - 1, n \in S PROVE n + 1 \in S
  <2>1. n + 1 \in 1..N /\ n + 1 \in 0..N /\ (n + 1) - 1 = n
    BY <1>2
  <2>2. kept[n + 1] = Reassert(chosen, rs, n + 1, kept[n])
    BY <1>1, <2>1 DEF Reasserts, N
  <2>3. ReassertInv(chosen, rs, n, kept[n])
    BY <1>4
  <2>4. ReassertInv(chosen, rs, n + 1, Reassert(chosen, rs, n + 1, kept[n]))
    BY <2>1, <2>3, ReassertStep DEF N
  <2> QED
    BY <2>1, <2>2, <2>4
<1> HIDE DEF S
<1>5. 0..N \subseteq S
  BY <1>2, <1>3, <1>4, InductionUpTo
<1>6. N \in S
  BY <1>2, <1>5
<1> QED
  BY <1>1, <1>6 DEF S, N, Reasserts

-----------------------------------------------------------------------------
(***************************************************************************)
(* What a round repaints and what it leaves alone.                         *)
(***************************************************************************)
LEMMA MeetingOverlap ==
  ASSUME NEW a \in MaskRegions, NEW b \in MaskRegions, NEW p \in Pixels, Covers(a, p), Covers(b, p)
  PROVE  Overlaps(a, b)
<1>1. a # NoBox /\ b # NoBox
  BY PlanAssumption DEF MaskRegions
<1>2. /\ a.x0 \in Int /\ a.x1 \in Int /\ a.y0 \in Int /\ a.y1 \in Int
      /\ b.x0 \in Int /\ b.x1 \in Int /\ b.y0 \in Int /\ b.y1 \in Int
      /\ p[1] \in Int /\ p[2] \in Int
  BY DEF MaskRegions, Pixels
<1>3. /\ a.x0 <= p[1] /\ p[1] < a.x1 /\ a.y0 <= p[2] /\ p[2] < a.y1
      /\ b.x0 <= p[1] /\ p[1] < b.x1 /\ b.y0 <= p[2] /\ p[2] < b.y1
  BY CoversIs
<1>4. /\ a.x0 < b.x1 /\ b.x0 < a.x1 /\ a.y0 < b.y1 /\ b.y0 < a.y1
      /\ WellFormed(a) /\ WellFormed(b)
  BY <1>2, <1>3 DEF WellFormed
<1> QED
  BY <1>1, <1>4, OverlapsIs

LEMMA DilatedIs ==
  ASSUME NEW g \in MaskRegions
  PROVE  /\ Dilated(g) \in MaskRegions
         /\ Dilated(g) = [x0 |-> g.x0 - g.dilate, x1 |-> g.x1 + g.dilate,
                          y0 |-> g.y0 - g.dilate, y1 |-> g.y1 + g.dilate,
                          dilate |-> g.dilate, feather |-> g.feather]
<1> DEFINE a == g.x0
           b == g.x1
           c == g.y0
           d == g.y1
           e == g.dilate
           f == g.feather
<1>1. /\ a \in Int /\ b \in Int /\ c \in Int /\ d \in Int /\ e \in Nat /\ f \in Nat
      /\ g = [x0 |-> a, x1 |-> b, y0 |-> c, y1 |-> d, dilate |-> e, feather |-> f]
  BY DEF MaskRegions
<1>2. Dilated(g) = [g EXCEPT !.x0 = a - e, !.y0 = c - e, !.x1 = b + e, !.y1 = d + e]
  BY DEF Dilated
<1> HIDE DEF a, b, c, d, e, f
<1>3. Dilated(g) = [x0 |-> a - e, x1 |-> b + e, y0 |-> c - e, y1 |-> d + e,
                    dilate |-> e, feather |-> f]
  BY <1>1, <1>2
<1>4. Dilated(g) \in MaskRegions
  BY <1>1, <1>3 DEF MaskRegions
<1> QED
  BY <1>3, <1>4 DEF a, b, c, d, e, f

LEMMA DilatedCovers ==
  ASSUME NEW g \in MaskRegions, NEW p \in Pixels, Covers(g, p)
  PROVE  Covers(Dilated(g), p)
<1> DEFINE e == Dilated(g)
<1>1. /\ g.x0 \in Int /\ g.x1 \in Int /\ g.y0 \in Int /\ g.y1 \in Int /\ g.dilate \in Nat
      /\ p[1] \in Int /\ p[2] \in Int
  BY DEF MaskRegions, Pixels
<1>2. g.x0 <= p[1] /\ p[1] < g.x1 /\ g.y0 <= p[2] /\ p[2] < g.y1
  BY CoversIs
<1>3. /\ e \in MaskRegions
      /\ e.x0 = g.x0 - g.dilate /\ e.x1 = g.x1 + g.dilate
      /\ e.y0 = g.y0 - g.dilate /\ e.y1 = g.y1 + g.dilate
  BY DilatedIs
<1> HIDE DEF e
<1>4. e.x0 <= p[1] /\ p[1] < e.x1 /\ e.y0 <= p[2] /\ p[2] < e.y1
  BY <1>1, <1>2, <1>3
<1>5. Covers(e, p)
  BY <1>3, <1>4, CoversIs
<1> QED
  BY <1>5 DEF e

\* What is repainted for a box has its corners, and the dilation and the feather of a round.
LEMMA RepaintedIs ==
  ASSUME NEW b \in MaskRegions, WellFormed(b), Inside(b)
  PROVE  LET g == Repainted(b) IN
         /\ g \in MaskRegions /\ g.feather <= g.dilate
         /\ WellFormed(g) /\ Clamped(g) = g /\ Dilated(g) \in MaskRegions
         /\ \A p : Covers(g, p) <=> Covers(b, p)
<1> DEFINE g == Repainted(b)
<1>1. /\ b.x0 \in Int /\ b.x1 \in Int /\ b.y0 \in Int /\ b.y1 \in Int
      /\ MaskDilate \in Nat /\ MaskFeather \in Nat /\ MaskFeather <= MaskDilate
  BY PlanAssumption DEF MaskRegions
<1>2. g = [x0 |-> b.x0, x1 |-> b.x1, y0 |-> b.y0, y1 |-> b.y1,
           dilate |-> MaskDilate, feather |-> MaskFeather]
  <2>1. b = [x0 |-> b.x0, x1 |-> b.x1, y0 |-> b.y0, y1 |-> b.y1,
             dilate |-> b.dilate, feather |-> b.feather]
    BY DEF MaskRegions
  <2>2. g = [b EXCEPT !.dilate = MaskDilate, !.feather = MaskFeather]
    BY DEF Repainted
  <2> QED
    BY <2>1, <2>2
<1> HIDE DEF g
<1>3. /\ g \in MaskRegions /\ g.x0 = b.x0 /\ g.x1 = b.x1 /\ g.y0 = b.y0 /\ g.y1 = b.y1
      /\ g.dilate = MaskDilate /\ g.feather = MaskFeather
  BY <1>1, <1>2 DEF MaskRegions
<1>4. WellFormed(g) /\ Inside(g) /\ \A p : Covers(g, p) <=> Covers(b, p)
  BY <1>3 DEF WellFormed, Inside, Covers
<1>5. Clamped(g) = g
  BY <1>3, <1>4, InsideStays
<1>6. Dilated(g) \in MaskRegions
  BY <1>3, DilatedIs
<1> QED
  BY <1>1, <1>3, <1>4, <1>5, <1>6 DEF g

LEMMA PieceStays ==
  ASSUME NEW h \in Pieces
  PROVE  h \in MaskRegions /\ Dilated(Clamped(h)) = h /\ h.feather <= h.dilate /\ WellFormed(h)
<1>1. h \in MaskRegions /\ WellFormed(h) /\ Inside(h) /\ h.dilate = 0 /\ h.feather = 0
  BY DEF Pieces
<1>2. Clamped(h) = h
  BY <1>1, InsideStays
<1>3. h = [x0 |-> h.x0, x1 |-> h.x1, y0 |-> h.y0, y1 |-> h.y1, dilate |-> 0, feather |-> 0]
  BY <1>1 DEF MaskRegions
<1>4. h.x0 - 0 = h.x0 /\ h.x1 + 0 = h.x1 /\ h.y0 - 0 = h.y0 /\ h.y1 + 0 = h.y1
  BY <1>1 DEF MaskRegions
<1>5. Dilated(h) = [x0 |-> h.x0 - 0, x1 |-> h.x1 + 0, y0 |-> h.y0 - 0, y1 |-> h.y1 + 0,
                    dilate |-> 0, feather |-> 0]
  BY <1>1, DilatedIs
<1>6. Dilated(h) = h
  BY <1>3, <1>4, <1>5
<1> QED
  BY <1>1, <1>2, <1>6

\* What the mask of a round is made of.
Repaints(s) == {Repainted(c.box) : c \in Localized(s)}
Leaves(s, rs) == UNION {Kept(s, r) : r \in Range(Reasserted(s, rs))}

LEMMA ReassertedAre ==
  ASSUME NEW rs, GoodResults(rs), NEW s, NEW r \in Range(Reasserted(s, rs))
  PROVE  r \in CriticResults /\ r.box # NoBox
<1>1. rs \in Seq(CriticResults) /\ Range(rs) \subseteq CriticResults
  BY DEF GoodResults, Range
<1>2. r \in Range(rs) /\ Near(s, r)
  BY <1>1, ReassertedIs DEF ReassertInv
<1> QED
  BY <1>1, <1>2 DEF Near

LEMMA PartsAre ==
  ASSUME NEW rs, GoodResults(rs), NEW s \in Seq(CriticResults)
  PROVE  /\ Repaints(s) \in SUBSET MaskRegions
         /\ Leaves(s, rs) \in SUBSET Pieces
         /\ \A g \in Repaints(s) : WellFormed(g) /\ Clamped(g) = g /\ g.feather <= g.dilate
         /\ \A c \in Localized(s) : \A p : Covers(c.box, p) <=> Covers(Repainted(c.box), p)
<1>1. \A c \in Localized(s) : c.box \in MaskRegions /\ WellFormed(c.box) /\ Inside(c.box)
  BY NearAre
<1>2. \A c \in Localized(s) :
        /\ Repainted(c.box) \in MaskRegions /\ WellFormed(Repainted(c.box))
        /\ Clamped(Repainted(c.box)) = Repainted(c.box)
        /\ Repainted(c.box).feather <= Repainted(c.box).dilate
        /\ \A p : Covers(Repainted(c.box), p) <=> Covers(c.box, p)
  BY <1>1, RepaintedIs
<1>3. \A r \in Range(Reasserted(s, rs)) : Kept(s, r) \in SUBSET Pieces
  BY ReassertedAre, KeptIs
<1>4. Leaves(s, rs) \in SUBSET Pieces
  BY <1>3 DEF Leaves
<1>5. /\ Repaints(s) \in SUBSET MaskRegions
      /\ \A g \in Repaints(s) : WellFormed(g) /\ Clamped(g) = g /\ g.feather <= g.dilate
  BY <1>2 DEF Repaints
<1> QED
  BY <1>2, <1>4, <1>5

\* What failed is repainted in full: nothing of a passed check that is kept lies on it.
LEMMA FailedIsRepainted ==
  ASSUME NEW rs, GoodResults(rs), NEW s \in Seq(CriticResults), NEW p \in Pixels,
         NEW c \in Localized(s), Covers(c.box, p)
  PROVE  Mask(Repaints(s), Leaves(s, rs))[p] = Scale * Scale
<1>1. /\ Repaints(s) \in SUBSET MaskRegions /\ Leaves(s, rs) \in SUBSET Pieces
      /\ Leaves(s, rs) \in SUBSET MaskRegions
  BY PartsAre DEF Pieces
<1>2. \E g \in Repaints(s) : Covers(g, p) /\ g.feather <= g.dilate
  <2>1. Repainted(c.box) \in Repaints(s)
    BY DEF Repaints
  <2> QED
    BY <2>1, PartsAre
<1>3. ASSUME NEW h \in Leaves(s, rs), Covers(h, p) PROVE FALSE
  <2>1. PICK r \in Range(Reasserted(s, rs)) : h \in Kept(s, r)
    BY DEF Leaves
  <2>2. r \in CriticResults /\ r.box # NoBox
    BY ReassertedAre
  <2>3. Covers(r.box, p) /\ \A d \in Bordered(s, r) : ~Covers(d.box, p)
    BY <1>3, <2>1, <2>2, KeptIs
  <2>4. r.box \in MaskRegions
    BY <2>2, BoxesAre DEF CriticResults
  <2>5. /\ Repainted(c.box) \in MaskRegions /\ Covers(Repainted(c.box), p)
        /\ Dilated(Repainted(c.box)) \in MaskRegions
    BY NearAre, RepaintedIs
  <2>6. Covers(Dilated(Repainted(c.box)), p)
    BY <2>5, DilatedCovers
  <2>7. Overlaps(r.box, Dilated(Repainted(c.box)))
    BY <2>3, <2>4, <2>5, <2>6, MeetingOverlap
  <2>8. c \in Bordered(s, r)
    BY <2>7 DEF Bordered
  <2> QED
    BY <2>3, <2>8
<1>4. \A h \in Leaves(s, rs) : ~Covers(Dilated(Clamped(h)), p)
  BY <1>1, <1>3, PieceStays
<1> QED
  BY <1>1, <1>2, <1>4, RepaintIsLocal

\* What lies away from the failed checks is not touched.
LEMMA AwayIsLeft ==
  ASSUME NEW rs, GoodResults(rs), NEW s \in Seq(CriticResults), NEW p \in Pixels,
         \A c \in Localized(s) : ~Covers(Dilated(Repainted(c.box)), p)
  PROVE  Mask(Repaints(s), Leaves(s, rs))[p] = 0
<1>1. /\ Repaints(s) \in SUBSET MaskRegions /\ Leaves(s, rs) \in SUBSET MaskRegions
  BY PartsAre DEF Pieces
<1>2. \A g \in Repaints(s) : Clamped(g) = g /\ ~Covers(Dilated(g), p)
  BY PartsAre DEF Repaints
<1>3. \A g \in Repaints(s) : ~Covers(Dilated(Clamped(g)), p)
  BY <1>2
<1> QED
  BY <1>1, <1>3, RepaintIsLocal

\* And neither is a passed check that is another region, beside what failed.
LEMMA PassedIsLeft ==
  ASSUME NEW rs, GoodResults(rs), NEW s \in Seq(CriticResults), NEW p \in Pixels,
         NEW r \in Range(rs), r.verdict = "pass", r.box # NoBox, Covers(r.box, p),
         \A c \in Localized(s) : ~SameRegion(r.box, c.box) /\ ~Covers(c.box, p)
  PROVE  Mask(Repaints(s), Leaves(s, rs))[p] = 0
<1>1. /\ Repaints(s) \in SUBSET MaskRegions /\ Leaves(s, rs) \in SUBSET Pieces
      /\ Leaves(s, rs) \in SUBSET MaskRegions
  BY PartsAre DEF Pieces
<1>2. rs \in Seq(CriticResults) /\ Range(rs) \subseteq CriticResults
  BY DEF GoodResults, Range
<1>3. r.box \in MaskRegions
  BY <1>2, BoxesAre DEF CriticResults
<1>4. CASE Near(s, r)
  <2>1. PICK i \in 1..Len(rs) : r = rs[i]
    BY <1>2 DEF Range
  <2>2. PICK k \in Range(Reasserted(s, rs)) : k.box = r.box
    BY <1>2, <1>4, <2>1, ReassertedIs DEF ReassertInv
  <2>3. k \in CriticResults
    BY <1>2, ReassertedIs DEF ReassertInv
  <2>4. Bordered(s, k) \subseteq Localized(s)
    BY NearAre
  <2>5. PICK h \in Kept(s, k) : Covers(h, p)
    BY <2>2, <2>3, <2>4, KeptIs
  <2>6. h \in Leaves(s, rs)
    BY <2>2, <2>5 DEF Leaves
  <2>7. h.feather <= h.dilate
    BY <1>1, <2>6, PieceStays
  <2> QED
    BY <1>1, <2>5, <2>6, <2>7, RepaintIsLocal
<1>5. CASE ~Near(s, r)
  <2>1. Bordered(s, r) = {}
    BY <1>5 DEF Near
  <2>2. ASSUME NEW c \in Localized(s), Covers(Dilated(Repainted(c.box)), p) PROVE FALSE
    <3>1. Dilated(Repainted(c.box)) \in MaskRegions
      BY NearAre, RepaintedIs
    <3>2. Overlaps(r.box, Dilated(Repainted(c.box)))
      BY <1>3, <2>2, <3>1, MeetingOverlap
    <3> QED
      BY <2>1, <3>2 DEF Bordered
  <2> QED
    BY <2>2, AwayIsLeft
<1> QED
  BY <1>4, <1>5

\* The mask of a round is never refused for its regions.
LEMMA RepairIsTaken ==
  ASSUME NEW rs, GoodResults(rs), NEW s \in Seq(CriticResults), Repaints(s) # {},
         Refused(Repaints(s), Leaves(s, rs))
  PROVE  Width * Height > MaxPixels
<1>1. PICK c \in Localized(s) : TRUE
  BY DEF Repaints
<1>2. c.box \in MaskRegions /\ WellFormed(c.box) /\ Inside(c.box)
  BY NearAre
<1>3. Width \in Nat /\ Height \in Nat
  BY MaskAssumption
<1>4. Width # 0 /\ Height # 0
  BY <1>2, <1>3 DEF WellFormed, Inside, MaskRegions
<1>5. \A g \in Repaints(s) \cup Leaves(s, rs) : WellFormed(g)
  BY PartsAre, PieceStays
<1> QED
  BY <1>4, <1>5 DEF Refused

(***************************************************************************)
(* plan_round() and build_mask_png(): whatever the results say and however *)
(* their boxes lie to each other, a pixel of a check that the round        *)
(* repairs is repainted in full; one that is neither near such a check nor *)
(* in it keeps its value, and so does one of a passed check that is        *)
(* another region (fidelity_loop.py:213-289, mask.py).                     *)
(***************************************************************************)
THEOREM RepairLocal == ASSUME NEW rs, GoodResults(rs), NEW tagsOf PROVE RepairIsLocal(rs, tagsOf)
<1> DEFINE s == SelectTopKFailed(rs)
           plan == PlanRound(rs, tagsOf)
<1>1. plan.chosen = s /\ plan.regions = Repaints(s) /\ plan.subtract = Leaves(s, rs)
  BY DEF PlanRound, Repaints, Leaves
<1>2. s \in Seq(CriticResults)
  BY ChoiceHolds DEF ChoiceInv
<1> HIDE DEF plan, s
<1> DEFINE chosen == Localized(s)
           value == Mask(Repaints(s), Leaves(s, rs))
           another(r) == r.verdict = "pass" /\ r.box # NoBox
                         /\ \A c \in chosen : ~SameRegion(r.box, c.box)
<1>3. Repaints(s) # {} =>
        (Refused(Repaints(s), Leaves(s, rs)) => Width * Height > MaxPixels)
  BY <1>2, RepairIsTaken
<1>4. ASSUME NEW p \in Pixels
      PROVE  /\ (\E c \in chosen : Covers(c.box, p)) => value[p] = Scale * Scale
             /\ (\A c \in chosen : ~Covers(Dilated(Repainted(c.box)), p)) => value[p] = 0
             /\ (/\ \E r \in Range(rs) : another(r) /\ Covers(r.box, p)
                 /\ \A c \in chosen : ~Covers(c.box, p)) => value[p] = 0
  <2>1. (\E c \in chosen : Covers(c.box, p)) => value[p] = Scale * Scale
    BY <1>2, FailedIsRepainted
  <2>2. (\A c \in chosen : ~Covers(Dilated(Repainted(c.box)), p)) => value[p] = 0
    BY <1>2, AwayIsLeft
  <2>3. ASSUME NEW r \in Range(rs), another(r), Covers(r.box, p), \A c \in chosen : ~Covers(c.box, p)
        PROVE  value[p] = 0
    BY <1>2, <2>3, PassedIsLeft
  <2> QED
    BY <2>1, <2>2, <2>3
<1> QED
  BY <1>1, <1>3, <1>4, Zenon DEF RepairIsLocal, plan

-----------------------------------------------------------------------------
(***************************************************************************)
(* What a round asks for: build_instruction_tags().                        *)
(***************************************************************************)
Adds(tagsOf, all, n, before) == before \o tagsOf[all[n].id]

Says(all, tagsOf, told, T) ==
  /\ told[0] = <<>>
  /\ \A n \in 1..Len(all) : told[n] = Adds(tagsOf, all, n, told[n - 1])
  /\ \A n \in 0..Len(all) : told[n] \in Seq(T)

Tells(chosen, reasserted, tagsOf, told, T) ==
  LET all == chosen \o reasserted
      tags == DedupeCommaTags(told[Len(all)]) IN
  /\ Says(all, tagsOf, told, T)
  /\ BuildTags(chosen, reasserted, tagsOf) = SubSeq(tags, 1, Min({TagCap, Len(tags)}))

LEMMA Saying ==
  ASSUME NEW T, NEW tagsOf, NEW chosen, NEW reasserted,
         chosen \o reasserted \in Seq(CriticResults),
         \A i \in 1..Len(chosen \o reasserted) : tagsOf[(chosen \o reasserted)[i].id] \in Seq(T)
  PROVE  \E told : Tells(chosen, reasserted, tagsOf, told, T)
<1> DEFINE all == chosen \o reasserted
           N == Len(all)
           A == Seq(T)
           F(g) == [n \in 0..N |-> IF n = 0 THEN <<>> ELSE Adds(tagsOf, all, n, g[n - 1])]
           d == CHOOSE g : g = F(g)
           step == [x \in (1..N) \X A |-> Adds(tagsOf, all, x[1], x[2])]
           tags == DedupeCommaTags(d[N])
<1>1. BuildTags(chosen, reasserted, tagsOf) = SubSeq(tags, 1, Min({TagCap, Len(tags)}))
  BY Zenon DEF BuildTags, Adds
<1>2. N \in Nat /\ <<>> \in A
  OBVIOUS
<1> HIDE DEF all
<1>3. \A n \in 1..N, s \in A : Adds(tagsOf, all, n, s) \in A
  BY ConcatProperties DEF all, Adds
<1> HIDE DEF A, N
<1>4. step \in [(1..N) \X A -> A]
  BY <1>3
<1>5. \A n \in 1..N, s \in A : step[<<n, s>>] = Adds(tagsOf, all, n, s)
  OBVIOUS
<1> HIDE DEF step
<1>6. PICK f \in [0..N -> A] : UnrollsUpTo(N, f, <<>>, step)
  BY <1>2, <1>4, RecursionUpTo
<1>7. f = F(f)
  <2>1. f = [n \in 0..N |-> IF n = 0 THEN <<>> ELSE step[<<n, f[n - 1]>>]]
    BY <1>6 DEF UnrollsUpTo
  <2>2. ASSUME NEW n \in 0..N, n # 0 PROVE step[<<n, f[n - 1]>>] = Adds(tagsOf, all, n, f[n - 1])
    <3>1. n \in 1..N /\ n - 1 \in 0..N
      BY <1>2, <2>2
    <3> QED
      BY <1>5, <3>1
  <2> QED
    BY <2>1, <2>2
<1>8. d = F(d)
  <2> HIDE DEF F
  <2> QED
    BY <1>7
<1> HIDE DEF d
<1>9. \A n \in 0..N : d[n] = IF n = 0 THEN <<>> ELSE Adds(tagsOf, all, n, d[n - 1])
  BY <1>8, Zenon
<1>10. d[0] = <<>>
  BY <1>2, <1>9
<1>11. \A n \in 1..N : d[n] = Adds(tagsOf, all, n, d[n - 1])
  BY <1>2, <1>9
<1>12. \A n \in 0..N : d[n] \in A
  BY <1>2, <1>3, <1>10, <1>11, ValuesStayIn
<1>13. Says(all, tagsOf, d, T)
  BY <1>10, <1>11, <1>12 DEF Says, N, A
<1>14. Tells(chosen, reasserted, tagsOf, d, T)
  BY <1>1, <1>13, Zenon DEF Tells, all, N
<1> QED
  BY <1>14

\* All that is said of a check is said among the first checks.
LEMMA SaidByAll ==
  ASSUME NEW T, NEW tagsOf, NEW all \in Seq(CriticResults), NEW told, Says(all, tagsOf, told, T),
         \A i \in 1..Len(all) : tagsOf[all[i].id] \in Seq(T)
  PROVE  \A i \in 1..Len(all) : Keys(tagsOf[all[i].id]) \subseteq Keys(told[Len(all)])
<1> DEFINE N == Len(all)
           S == {n \in 0..N : \A i \in 1..n : Keys(tagsOf[all[i].id]) \subseteq Keys(told[n])}
<1>1. N \in Nat
  OBVIOUS
<1> HIDE DEF N
<1>2. 0 \in S
  BY <1>1
<1>3. ASSUME NEW n \in 0..N - 1, n \in S PROVE n + 1 \in S
  <2> DEFINE a == told[n]
             b == tagsOf[all[n + 1].id]
  <2>1. n + 1 \in 1..N /\ n + 1 \in 0..N /\ n \in 0..N /\ (n + 1) - 1 = n
    BY <1>1
  <2>2. a \in Seq(T) /\ b \in Seq(T) /\ told[n + 1] = a \o b
    BY <2>1 DEF Says, Adds, N
  <2>3. \A i \in 1..n + 1 : i = n + 1 \/ i \in 1..n
    BY <2>1
  <2>4. \A i \in 1..n : Keys(tagsOf[all[i].id]) \subseteq Keys(a)
    BY <1>3
  <2> HIDE DEF a
  <2>5. Keys(a) \subseteq Keys(a \o b) /\ Keys(b) \subseteq Keys(a \o b)
    <3> HIDE DEF b
    <3>1. /\ Len(a) \in Nat /\ Len(b) \in Nat /\ DOMAIN a = 1..Len(a) /\ DOMAIN b = 1..Len(b)
          /\ DOMAIN (a \o b) = 1..Len(a) + Len(b)
          /\ \A i \in 1..Len(a) : (a \o b)[i] = a[i]
          /\ \A i \in 1..Len(b) : (a \o b)[Len(a) + i] = b[i]
      BY <2>2
    <3>2. /\ \A i \in 1..Len(a) : i \in 1..Len(a) + Len(b)
          /\ \A i \in 1..Len(b) : Len(a) + i \in 1..Len(a) + Len(b)
      BY <3>1
    <3> DEFINE c == a \o b
    <3> HIDE DEF c
    <3>3. DOMAIN c = 1..Len(a) + Len(b) /\ (\A i \in 1..Len(a) : c[i] = a[i])
          /\ \A i \in 1..Len(b) : c[Len(a) + i] = b[i]
      BY <3>1 DEF c
    <3>4. Keys(a) \subseteq Keys(c)
      BY ONLY <3>1, <3>2, <3>3 DEF Keys
    <3>5. Keys(b) \subseteq Keys(c)
      BY ONLY <3>1, <3>2, <3>3 DEF Keys
    <3> QED
      BY <3>4, <3>5 DEF c
  <2>6. ASSUME NEW i \in 1..n + 1 PROVE Keys(tagsOf[all[i].id]) \subseteq Keys(told[n + 1])
    <3>1. CASE i = n + 1
      BY <2>2, <2>5, <3>1
    <3>2. CASE i \in 1..n
      BY <2>2, <2>4, <2>5, <3>2
    <3> QED
      BY <2>3, <3>1, <3>2
  <2> QED
    BY <2>1, <2>6
<1> HIDE DEF S
<1>4. 0..N \subseteq S
  BY <1>1, <1>2, <1>3, InductionUpTo
<1>5. N \in S
  BY <1>1, <1>4
<1> QED
  BY <1>5 DEF S, N

\* The first tags of a prompt without a key that comes twice.
LEMMA FirstTags ==
  ASSUME NEW T, NEW tags \in Seq(T), KeysDiffer(tags)
  PROVE  LET m == Min({TagCap, Len(tags)})
             first == SubSeq(tags, 1, m) IN
         /\ Len(first) = Cardinality(Keys(first)) /\ Len(first) <= TagCap
         /\ Keys(first) = Keys(tags) \/ Len(first) = TagCap
<1> DEFINE n == Len(tags)
           m == Min({TagCap, n})
           first == SubSeq(tags, 1, m)
<1>1. TagCap \in Nat /\ n \in Nat /\ DOMAIN tags = 1..n /\ \A i \in 1..n : tags[i] \in T
  BY PlanAssumption
<1> HIDE DEF n
<1>2. m = IF TagCap <= n THEN TagCap ELSE n
  BY <1>1, MinOfTwo
<1> HIDE DEF m
<1>3. m \in Nat /\ m <= n /\ m <= TagCap /\ (m = n \/ m = TagCap)
  BY <1>1, <1>2
<1>4. \A i \in 1..m : i \in 1..n
  BY <1>1, <1>3
<1>5. \A i \in 1..m : tags[i] \in T
  BY <1>1, <1>4
<1>6. /\ first \in Seq(T)
      /\ Len(first) = IF 1 <= m THEN m - 1 + 1 ELSE 0
      /\ \A i \in 1..m - 1 + 1 : first[i] = tags[1 + i - 1]
  BY <1>3, <1>5, SubSeqProperties
<1> HIDE DEF first
<1>7. /\ first \in Seq(T) /\ Len(first) = m /\ DOMAIN first = 1..m
      /\ \A i \in 1..m : first[i] = tags[i]
  <2>1. Len(first) = m
    BY <1>3, <1>6
  <2>2. m - 1 + 1 = m /\ \A i \in 1..m : 1 + i - 1 = i
    BY <1>3
  <2> QED
    BY <1>6, <2>1, <2>2
<1>8. KeysDiffer(first)
  BY <1>1, <1>4, <1>7 DEF KeysDiffer
<1>9. Len(first) = Cardinality(Keys(first))
  BY <1>7, <1>8, TagsCounted
<1>10. m = n => Keys(first) = Keys(tags)
  BY <1>1, <1>7 DEF Keys
<1> QED
  BY <1>3, <1>7, <1>9, <1>10 DEF first, m, n

-----------------------------------------------------------------------------
(***************************************************************************)
(* How much of the image failed: select_strategy_for_round().              *)
(***************************************************************************)
PixelsOf(g) == {p \in Pixels : Covers(g, p)}

LEMMA PixelsAreFinite == IsFiniteSet(Pixels)
<1>1. Width - 1 \in Int /\ Height - 1 \in Int
  BY MaskAssumption
<1>2. IsFiniteSet(0..Width - 1) /\ IsFiniteSet(0..Height - 1)
  BY <1>1, FS_Interval
<1> QED
  BY <1>2, FS_Product DEF Pixels

LEMMA AreaIs ==
  ASSUME NEW g \in MaskRegions, WellFormed(g), Inside(g)
  PROVE  Area(g) = Cardinality(PixelsOf(g))
<1> DEFINE a == g.x0
           b == g.x1
           c == g.y0
           d == g.y1
<1>1. a \in Int /\ b \in Int /\ c \in Int /\ d \in Int /\ Width \in Nat /\ Height \in Nat
  BY MaskAssumption DEF MaskRegions
<1>2. 0 <= a /\ a < b /\ b <= Width /\ 0 <= c /\ c < d /\ d <= Height
  BY DEF WellFormed, Inside
<1>3. Area(g) = Max({0, b - a}) * Max({0, d - c})
  BY DEF Area
<1>4. PixelsOf(g) = {p \in Pixels : p[1] \in a..b - 1 /\ p[2] \in c..d - 1}
  BY DEF PixelsOf, Covers
<1> HIDE DEF a, b, c, d
<1>5. Max({0, b - a}) = b - a /\ Max({0, d - c}) = d - c
  <2>1. b - a \in Int /\ d - c \in Int /\ 0 \in Int /\ ~(0 >= b - a) /\ ~(0 >= d - c)
    BY <1>1, <1>2
  <2> QED
    BY <2>1, MaxOfTwo
<1>6. PixelsOf(g) = (a..b - 1) \X (c..d - 1)
  <2>1. a..b - 1 \subseteq 0..Width - 1 /\ c..d - 1 \subseteq 0..Height - 1
    BY <1>1, <1>2
  <2> QED
    BY <1>4, <2>1 DEF Pixels
<1>7. /\ IsFiniteSet(a..b - 1) /\ Cardinality(a..b - 1) = b - a
      /\ IsFiniteSet(c..d - 1) /\ Cardinality(c..d - 1) = d - c
  <2>1. b - 1 \in Int /\ d - 1 \in Int /\ ~(a > b - 1) /\ ~(c > d - 1)
        /\ (b - 1) - a + 1 = b - a /\ (d - 1) - c + 1 = d - c
    BY <1>1, <1>2
  <2>2. /\ IsFiniteSet(a..b - 1)
        /\ Cardinality(a..b - 1) = IF a > b - 1 THEN 0 ELSE (b - 1) - a + 1
    BY <1>1, <2>1, FS_Interval
  <2>3. /\ IsFiniteSet(c..d - 1)
        /\ Cardinality(c..d - 1) = IF c > d - 1 THEN 0 ELSE (d - 1) - c + 1
    BY <1>1, <2>1, FS_Interval
  <2> QED
    BY <2>1, <2>2, <2>3
<1>8. Cardinality((a..b - 1) \X (c..d - 1)) = (b - a) * (d - c)
  <2> DEFINE A == a..b - 1
             B == c..d - 1
  <2>1. IsFiniteSet(A) /\ IsFiniteSet(B)
    BY <1>7
  <2>2. Cardinality(A) = b - a /\ Cardinality(B) = d - c
    BY <1>7
  <2> HIDE DEF A, B
  <2>3. Cardinality(A \X B) = Cardinality(A) * Cardinality(B)
    BY <2>1, FS_Product
  <2>4. Cardinality(A \X B) = (b - a) * (d - c)
    BY <2>2, <2>3
  <2> QED
    BY <2>4 DEF A, B
<1> QED
  BY <1>3, <1>5, <1>6, <1>8

\* The areas of the first checks are added up.
Adding(s, n, before) == before + (IF s[n].box = NoBox THEN 0 ELSE Area(s[n].box))

Measures(s, area) ==
  /\ area[0] = 0
  /\ \A n \in 1..Len(s) : area[n] = Adding(s, n, area[n - 1])
  /\ SelectStrategyForRound(s) = "img2img" => 5 * area[Len(s)] > 2 * Width * Height

LEMMA AddingIn ==
  ASSUME NEW s \in Seq(CriticResults), NEW n \in 1..Len(s)
  PROVE  s[n].box # NoBox => Area(s[n].box) \in Nat
<1> SUFFICES ASSUME s[n].box # NoBox PROVE Area(s[n].box) \in Nat
  OBVIOUS
<1> DEFINE g == s[n].box
<1>1. g \in Boxes
  <2>1. s[n] \in CriticResults
    OBVIOUS
  <2> QED
    BY <2>1 DEF CriticResults
<1>2. g \in MaskRegions /\ WellFormed(g) /\ Inside(g)
  BY <1>1, BoxesAre
<1> HIDE DEF g
<1>3. Area(g) = Cardinality(PixelsOf(g))
  BY <1>2, AreaIs
<1>4. IsFiniteSet(PixelsOf(g))
  BY PixelsAreFinite, FS_Subset DEF PixelsOf
<1>5. Area(g) \in Nat
  BY <1>3, <1>4, FS_CardinalityType
<1> QED
  BY <1>5 DEF g

LEMMA Measuring ==
  ASSUME NEW s \in Seq(CriticResults)
  PROVE  \E area : Measures(s, area)
<1> DEFINE N == Len(s)
           F(g) == [n \in 0..N |-> IF n = 0 THEN 0 ELSE Adding(s, n, g[n - 1])]
           d == CHOOSE g : g = F(g)
           step == [x \in (1..N) \X Nat |-> Adding(s, x[1], x[2])]
<1>1. SelectStrategyForRound(s) =
        IF Width > 0 /\ Height > 0 /\ 5 * d[N] > 2 * Width * Height THEN "img2img" ELSE "unset"
  BY Zenon DEF SelectStrategyForRound, Adding
<1>2. N \in Nat
  OBVIOUS
<1>3. \A n \in 1..N, m \in Nat : Adding(s, n, m) \in Nat
  BY AddingIn DEF Adding
<1> HIDE DEF N
<1>4. step \in [(1..N) \X Nat -> Nat]
  BY <1>3
<1>5. \A n \in 1..N, m \in Nat : step[<<n, m>>] = Adding(s, n, m)
  OBVIOUS
<1> HIDE DEF step
<1>6. PICK f \in [0..N -> Nat] : UnrollsUpTo(N, f, 0, step)
  BY <1>2, <1>4, RecursionUpTo
<1>7. f = F(f)
  <2>1. f = [n \in 0..N |-> IF n = 0 THEN 0 ELSE step[<<n, f[n - 1]>>]]
    BY <1>6 DEF UnrollsUpTo
  <2>2. ASSUME NEW n \in 0..N, n # 0 PROVE step[<<n, f[n - 1]>>] = Adding(s, n, f[n - 1])
    <3>1. n \in 1..N /\ n - 1 \in 0..N
      BY <1>2, <2>2
    <3> QED
      BY <1>5, <3>1
  <2> QED
    BY <2>1, <2>2
<1>8. d = F(d)
  <2> HIDE DEF F
  <2> QED
    BY <1>7
<1> HIDE DEF d
<1>9. \A n \in 0..N : d[n] = IF n = 0 THEN 0 ELSE Adding(s, n, d[n - 1])
  BY <1>8, Zenon
<1>10. d[0] = 0
  BY <1>2, <1>9
<1>11. \A n \in 1..N : d[n] = Adding(s, n, d[n - 1])
  BY <1>2, <1>9
<1>12. SelectStrategyForRound(s) = "img2img" => 5 * d[N] > 2 * Width * Height
  BY <1>1
<1>13. Measures(s, d)
  BY <1>10, <1>11, <1>12 DEF Measures, N
<1> QED
  BY <1>13

\* As no two chosen checks overlap, their areas add up to the pixels that one of them has.
PixelsOfFirst(s, n) == {p \in Pixels : \E i \in 1..n : s[i].box # NoBox /\ Covers(s[i].box, p)}

LEMMA AddedUp ==
  ASSUME NEW rs, NEW s, NEW k, ChoiceInv(rs, s, k), NEW n \in 1..Len(s)
  PROVE  Cardinality(PixelsOfFirst(s, n)) = Adding(s, n, Cardinality(PixelsOfFirst(s, n - 1)))
<1> DEFINE g == s[n].box
           before == PixelsOfFirst(s, n - 1)
           after == PixelsOfFirst(s, n)
<1>1. s \in Seq(CriticResults) /\ \A i \in 1..Len(s) : s[i] \in CriticResults /\ s[i] \in Range(s)
  <2>1. s \in Seq(CriticResults)
    BY DEF ChoiceInv
  <2>2. DOMAIN s = 1..Len(s) /\ \A i \in 1..Len(s) : s[i] \in CriticResults
    BY <2>1
  <2> QED
    BY <2>1, <2>2 DEF Range
<1>2. \A i \in 1..n : i = n \/ i \in 1..n - 1
  BY <1>1
<1>3. n \in 1..n /\ \A i \in 1..n - 1 : i \in 1..n /\ i \in 1..Len(s) /\ i # n
  BY <1>1
<1>4. IsFiniteSet(before) /\ IsFiniteSet(after) /\ IsFiniteSet(PixelsOf(g))
  BY PixelsAreFinite, FS_Subset DEF PixelsOfFirst, PixelsOf
<1>5. CASE g = NoBox
  <2>1. after = before
    BY <1>2, <1>3, <1>5 DEF PixelsOfFirst
  <2>2. Cardinality(before) \in Nat
    BY <1>4, FS_CardinalityType
  <2> HIDE DEF before, after
  <2>3. Adding(s, n, Cardinality(before)) = Cardinality(before)
    BY <1>5, <2>2 DEF Adding
  <2> QED
    BY <2>1, <2>3 DEF before, after
<1>6. CASE g # NoBox
  <2>1. g \in MaskRegions /\ WellFormed(g) /\ Inside(g)
    BY <1>1, <1>6, BoxesAre DEF CriticResults
  <2>2. after = before \cup PixelsOf(g)
    BY <1>2, <1>3, <1>6 DEF PixelsOfFirst, PixelsOf
  <2>3. ASSUME NEW p, p \in before, p \in PixelsOf(g) PROVE FALSE
    <3>1. p \in Pixels /\ Covers(g, p)
      BY <2>3 DEF PixelsOf
    <3>2. PICK i \in 1..n - 1 : s[i].box # NoBox /\ Covers(s[i].box, p)
      BY <2>3 DEF PixelsOfFirst
    <3>3. s[i].box \in MaskRegions
      BY <1>1, <1>3, <3>2, BoxesAre DEF CriticResults
    <3>4. Overlaps(s[i].box, g)
      BY <2>1, <3>1, <3>2, <3>3, MeetingOverlap
    <3>5. s[i] # s[n]
      BY <1>3 DEF ChoiceInv
    <3>6. ~Overlaps(s[i].box, s[n].box)
      BY <1>1, <1>3, <3>5 DEF ChoiceInv
    <3> QED
      BY <3>4, <3>6
  <2> HIDE DEF before, after
  <2>4. before \cap PixelsOf(g) = {}
    BY <2>3
  <2>5. Cardinality(after) = Cardinality(before) + Cardinality(PixelsOf(g)) - Cardinality({})
    BY <1>4, <2>2, <2>4, FS_Union
  <2>6. Cardinality({}) = 0 /\ Cardinality(before) \in Nat /\ Cardinality(PixelsOf(g)) \in Nat
    BY <1>4, FS_EmptySet, FS_CardinalityType
  <2>7. Area(g) = Cardinality(PixelsOf(g))
    BY <2>1, AreaIs
  <2>8. Adding(s, n, Cardinality(before)) = Cardinality(before) + Cardinality(PixelsOf(g))
    BY <1>6, <2>7 DEF Adding
  <2>9. Cardinality(after) = Adding(s, n, Cardinality(before))
    BY <2>5, <2>6, <2>8
  <2> QED
    BY <2>9 DEF before, after
<1> QED
  BY <1>5, <1>6

LEMMA LargeFailures ==
  ASSUME NEW rs, NEW s, NEW k, ChoiceInv(rs, s, k), SelectStrategyForRound(s) = "img2img"
  PROVE  5 * Cardinality({p \in Pixels : \E c \in Localized(s) : Covers(c.box, p)}) > 2 * Width * Height
<1> DEFINE N == Len(s)
<1>1. s \in Seq(CriticResults) /\ N \in Nat /\ DOMAIN s = 1..N
  BY DEF ChoiceInv
<1>2. PICK area : Measures(s, area)
  BY <1>1, Measuring
<1> HIDE DEF N
<1> DEFINE S == {n \in 0..N : area[n] = Cardinality(PixelsOfFirst(s, n))}
<1>3. 0 \in S
  <2>1. PixelsOfFirst(s, 0) = {}
    BY DEF PixelsOfFirst
  <2>2. area[0] = Cardinality(PixelsOfFirst(s, 0))
    BY <1>2, <2>1, FS_EmptySet DEF Measures
  <2>3. 0 \in 0..N
    BY <1>1
  <2> QED
    BY <2>2, <2>3
<1>4. ASSUME NEW n \in 0..N - 1, n \in S PROVE n + 1 \in S
  <2>1. n + 1 \in 1..N /\ n + 1 \in 0..N /\ (n + 1) - 1 = n
    BY <1>1
  <2>2. area[n + 1] = Adding(s, n + 1, area[n])
    BY <1>2, <2>1 DEF Measures, N
  <2>3. Cardinality(PixelsOfFirst(s, n + 1)) = Adding(s, n + 1, Cardinality(PixelsOfFirst(s, n)))
    BY <2>1, AddedUp DEF N
  <2>4. area[n] = Cardinality(PixelsOfFirst(s, n))
    BY <1>4
  <2>5. area[n + 1] = Cardinality(PixelsOfFirst(s, n + 1))
    BY <2>2, <2>3, <2>4
  <2> QED
    BY <2>1, <2>5
<1> HIDE DEF S
<1>5. 0..N \subseteq S
  BY <1>1, <1>3, <1>4, InductionUpTo
<1>6. area[N] = Cardinality(PixelsOfFirst(s, N))
  <2>1. N \in S
    BY <1>1, <1>5
  <2> QED
    BY <2>1 DEF S
<1>7. PixelsOfFirst(s, N) = {p \in Pixels : \E c \in Localized(s) : Covers(c.box, p)}
  BY <1>1 DEF PixelsOfFirst, Localized, Range
<1> QED
  BY <1>2, <1>6, <1>7 DEF Measures, N

\* The tags of what a round asks for are those of the checks it is about.
LEMMA AskedFor ==
  ASSUME NEW rs, GoodResults(rs), NEW s \in Seq(CriticResults), Range(s) \subseteq Range(rs)
  PROVE  LET all == s \o Reasserted(s, rs)
             T == UNION {Range(FixTags[j]) : j \in DOMAIN FixTags} IN
         /\ all \in Seq(CriticResults)
         /\ \A i \in 1..Len(all) : FixTags[all[i].id] \in Seq(T)
         /\ \A r \in Range(s) : \E i \in 1..Len(all) : all[i] = r
<1> DEFINE k == Reasserted(s, rs)
           all == s \o k
           T == UNION {Range(FixTags[j]) : j \in DOMAIN FixTags}
<1>1. rs \in Seq(CriticResults)
  BY DEF GoodResults
<1>2. k \in Seq(CriticResults) /\ Range(k) \subseteq Range(rs)
  BY <1>1, ReassertedIs DEF ReassertInv
<1> HIDE DEF k, T
<1>3. /\ Len(s) \in Nat /\ Len(k) \in Nat /\ DOMAIN s = 1..Len(s) /\ DOMAIN k = 1..Len(k)
      /\ all \in Seq(CriticResults) /\ Len(all) = Len(s) + Len(k)
      /\ \A i \in 1..Len(s) : all[i] = s[i]
      /\ \A i \in 1..Len(all) : i \in 1..Len(s) \/ (i - Len(s) \in 1..Len(k) /\ all[i] = k[i - Len(s)])
  BY <1>2
<1> HIDE DEF all
<1>4. \A r \in Range(rs) : r.id \in 1..MaxResults
  <2>1. ASSUME NEW i \in 1..Len(rs) PROVE rs[i].id \in 1..MaxResults
    <3>1. Len(rs) \in Nat /\ MaxResults \in Nat
      BY <1>1, BoxesAssumption
    <3>2. rs[i].id = i /\ i <= MaxResults
      BY DEF GoodResults
    <3> QED
      BY <3>1, <3>2
  <2>2. DOMAIN rs = 1..Len(rs)
    BY <1>1
  <2> QED
    BY <2>1, <2>2 DEF Range
<1>5. \A i \in 1..MaxResults : FixTags[i] \in Seq(T)
  BY BoxesAssumption DEF T
<1>6. ASSUME NEW i \in 1..Len(all) PROVE all[i] \in Range(rs)
  <2>1. CASE i \in 1..Len(s)
    <3>1. s[i] \in Range(s)
      BY <1>3, <2>1 DEF Range
    <3> QED
      BY <1>3, <2>1, <3>1
  <2>2. CASE i - Len(s) \in 1..Len(k) /\ all[i] = k[i - Len(s)]
    <3>1. k[i - Len(s)] \in Range(k)
      BY <1>3, <2>2 DEF Range
    <3> QED
      BY <1>2, <2>2, <3>1
  <2> QED
    BY <1>3, <2>1, <2>2
<1>7. \A i \in 1..Len(all) : FixTags[all[i].id] \in Seq(T)
  BY <1>4, <1>5, <1>6
<1>8. ASSUME NEW r \in Range(s) PROVE \E i \in 1..Len(all) : all[i] = r
  <2>1. PICK i \in 1..Len(s) : s[i] = r
    BY <1>3 DEF Range
  <2>2. i \in 1..Len(all)
    BY <1>3
  <2> QED
    BY <1>3, <2>1, <2>2
<1> QED
  BY <1>3, <1>7, <1>8 DEF all, k, T

(***************************************************************************)
(* build_instruction_tags() and select_strategy_for_round(): the           *)
(* instruction says nothing twice and is not longer than its cap, it says  *)
(* all that the chosen checks ask for or is as long as that; and the image *)
(* is rendered anew only when more than 2/5 of its pixels failed, counted  *)
(* once each (fidelity_loop.py).                                           *)
(***************************************************************************)
THEOREM InstructionBounded ==
  ASSUME NEW rs, GoodResults(rs) PROVE InstructionIsBounded(rs, FixTags)
<1> DEFINE s == SelectTopKFailed(rs)
           k == Reasserted(s, rs)
           all == s \o k
           T == UNION {Range(FixTags[j]) : j \in DOMAIN FixTags}
           plan == PlanRound(rs, FixTags)
           asked == UNION {Range(FixTags[r.id]) : r \in Range(s)}
<1>1. /\ plan.chosen = s /\ plan.tags = BuildTags(s, k, FixTags)
      /\ plan.strategy = SelectStrategyForRound(s)
  BY DEF PlanRound
<1>2. ChoiceInv(rs, s, TopK)
  BY ChoiceHolds
<1> HIDE DEF s, plan
<1>3. s \in Seq(CriticResults) /\ Range(s) \subseteq Range(rs)
  BY <1>2 DEF ChoiceInv
<1>4. /\ all \in Seq(CriticResults)
      /\ \A i \in 1..Len(all) : FixTags[all[i].id] \in Seq(T)
      /\ \A r \in Range(s) : \E i \in 1..Len(all) : all[i] = r
  BY <1>3, AskedFor
<1> HIDE DEF T, k
<1>5. PICK told : LET tags == DedupeCommaTags(told[Len(all)]) IN
                  /\ Says(all, FixTags, told, T)
                  /\ BuildTags(s, k, FixTags) = SubSeq(tags, 1, Min({TagCap, Len(tags)}))
  <2>1. PICK x : Tells(s, k, FixTags, x, T)
    BY <1>4, Saying
  <2> QED
    BY <2>1, Zenon DEF Tells
<1> HIDE DEF all
<1> DEFINE last == told[Len(all)]
           tags == DedupeCommaTags(last)
<1>6. last \in Seq(T)
  <2>1. Len(all) \in 0..Len(all)
    BY <1>4
  <2> QED
    BY <1>5, <2>1 DEF Says
<1>7. \A i \in 1..Len(all) : Keys(FixTags[all[i].id]) \subseteq Keys(last)
  BY <1>4, <1>5, SaidByAll
<1> HIDE DEF last
<1>8. tags \in Seq(T) /\ KeysDiffer(tags) /\ Keys(tags) = Keys(last)
  BY <1>6, DedupeIs
<1>9. plan.tags = SubSeq(tags, 1, Min({TagCap, Len(tags)}))
  BY <1>1, <1>5 DEF last
<1> HIDE DEF tags
<1>10. /\ Len(plan.tags) = Cardinality(Keys(plan.tags)) /\ Len(plan.tags) <= TagCap
       /\ Keys(plan.tags) = Keys(tags) \/ Len(plan.tags) = TagCap
  BY <1>8, <1>9, FirstTags
<1>11. {tag.key : tag \in asked} \subseteq Keys(tags)
  <2> SUFFICES ASSUME NEW tag \in asked PROVE tag.key \in Keys(last)
    BY <1>8
  <2>1. PICK r \in Range(s) : tag \in Range(FixTags[r.id])
    OBVIOUS
  <2>2. PICK i \in 1..Len(all) : all[i] = r
    BY <1>4
  <2>3. tag.key \in Keys(FixTags[r.id])
    BY <2>1 DEF Range, Keys
  <2> QED
    BY <1>7, <2>2, <2>3
<1>12. plan.strategy = "img2img" =>
         5 * Cardinality({p \in Pixels : \E c \in Localized(s) : Covers(c.box, p)}) > 2 * Width * Height
  BY <1>1, <1>2, LargeFailures
<1> HIDE DEF asked
<1>13. {tag.key : tag \in asked} \subseteq Keys(plan.tags) \/ Len(plan.tags) = TagCap
  BY <1>10, <1>11
<1> QED
  BY <1>1, <1>10, <1>12, <1>13, Zenon DEF InstructionIsBounded, plan, asked

(***************************************************************************)
(* The plan of a round, whatever the critic has answered.                  *)
(***************************************************************************)
THEOREM PlanRepaired == InputsSpec => []PlanRepairs
<1>1. GoodResults(results) => PlanRepairs
  BY ChoiceGreedy, RepairLocal, InstructionBounded DEF PlanRepairs
<1> QED
  BY <1>1, ResultsAreGood, PTL
=============================================================================
