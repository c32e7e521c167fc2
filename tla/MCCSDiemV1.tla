------------------------------ MODULE MCCSDiemV1 ------------------------------
(* Instances of CSDiemV1 for TLC; the bounds are in the .cfg files.        *)
EXTENDS CSDiemV1, TLC

\* Users are interchangeable in every action and in every safety property.
UserSymmetry == Permutations(Users)
=============================================================================
