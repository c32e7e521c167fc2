------------------------------ MODULE MCCSDiemV2 ------------------------------
(* Instances of CSDiemV2 for TLC; the bounds are in the .cfg files.        *)
EXTENDS CSDiemV2, TLC

\* Holders are interchangeable in every action and property.
HolderSymmetry == Permutations(Holders)
=============================================================================
