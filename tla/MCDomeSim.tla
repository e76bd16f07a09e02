------------------------------ MODULE MCDomeSim ------------------------------
(* Instantiates DomeSim for TLC: the MoveRel arguments include a negative  *)
(* one (turning back past 0), which a .cfg cannot write.                   *)
EXTENDS DomeSim

MCRelDiffs == {-20, 350}

=============================================================================
