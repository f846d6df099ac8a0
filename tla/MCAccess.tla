-------------------------------- MODULE MCAccess --------------------------------
(***************************************************************************)
(* Signing in, for customers and for the back office, side by side: a      *)
(* behaviour exercises one of the two, chosen initially, while the other   *)
(* stays as it starts.                                                     *)
(***************************************************************************)
EXTENDS OtpVerification, AdminAccess, TLC

VARIABLE part

accessVars == <<part, otpVars, admVars>>

AccessInit ==
  /\ part \in {"customer", "admin"}
  /\ OtpInit /\ AdmInit
  /\ part = "admin" => purpose = "MOBILE"
  /\ part = "customer" => ActiveSuperadmins = Users

AccessNext ==
  \/ part = "customer" /\ OtpNext /\ UNCHANGED <<part, admVars>>
  \/ part = "admin" /\ AdmNext /\ UNCHANGED <<part, otpVars>>

AccessSpec == AccessInit /\ [][AccessNext]_accessVars

\* Tabs, addresses, users and browsers are interchangeable.
AccessSymmetry ==
  Permutations(Tabs) \cup Permutations(Emails) \cup Permutations(Users) \cup Permutations(Browsers)

================================================================================
