------------------------------ MODULE MCSDiemV2 ------------------------------
(* Instances of SDiemV2 for TLC; the bounds are in the .cfg files.         *)
EXTENDS SDiemV2, TLC

\* Users are interchangeable in every action and in every safety property.
UserSymmetry == Permutations(Users)
=============================================================================
