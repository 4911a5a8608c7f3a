---------------------------- MODULE MCConsultant ----------------------------
(* Two modalities with different checklists; "style" is optional for the   *)
(* first and unknown to the second.                                        *)
EXTENDS ConsultantSession, TLC

MCRequired == [image |-> {"usage"}, text |-> {"style"}]
MCOptional == [image |-> {"style"}, text |-> {}]
ClientSymmetry == Permutations(Clients)
=============================================================================
