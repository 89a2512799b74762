------------------------------ MODULE MCSignIn ------------------------------
(* A small instance of SignIn: one client and two replicas.                  *)
EXTENDS SignIn

CONSTANTS p1, p2, c1, u1, a, b

OneUser == [c \in {c1} |-> u1]

\* Two results of one url around one of another.
RowUsers == <<u1, u1, u1>>
RowUrls  == <<a, b, a>>
=============================================================================
