---------------------------- MODULE MCAdmission ----------------------------
(* An instance of Admission for TLC.                                          *)
EXTENDS Admission, TLC

\* The agent listener is limited, the user listener is not.
OneLimited == [user |-> 0, agent |-> 1]
=============================================================================
