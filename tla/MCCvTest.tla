------------------------------ MODULE MCCvTest ------------------------------
(***************************************************************************)
(* CvTest with slots for the two threads the test creates.                 *)
(***************************************************************************)
EXTENDS CvTest

MCCondMutex == [c \in UserCond |-> cs]
=============================================================================
