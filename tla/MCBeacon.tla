------------------------------ MODULE MCBeacon ------------------------------
(***************************************************************************)
(* Beacon for TLC: a rule for images matches c1; one for labels, which     *)
(* would match c2, is not implemented.                                     *)
(***************************************************************************)
EXTENDS Beacon

CONSTANTS c1, c2, web, job

MCImage == [c \in Containers |-> IF c = c1 THEN web ELSE job]

MCRules == {[type |-> "image", images |-> {web}],
            [type |-> "label", images |-> {job}]}
=============================================================================
