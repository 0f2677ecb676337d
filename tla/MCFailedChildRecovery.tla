----------------------- MODULE MCFailedChildRecovery -----------------------
(* Model-checking instances of FailedChildRecovery; the .cfg files choose   *)
(* the platform and the failures.                                           *)
EXTENDS FailedChildRecovery
=============================================================================
