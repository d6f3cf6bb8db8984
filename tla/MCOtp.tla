------------------------------- MODULE MCOtp -------------------------------
(* Two interchangeable devices ask for codes for one number. *)
EXTENDS Otp, TLC

\* The devices differ in nothing, and no property here is a liveness property.
AppSymmetry == Permutations(Apps)
=============================================================================
