-------------------------- MODULE MCNodeReconciler --------------------------
(* Values for the constants of NodeReconciler that a .cfg file cannot      *)
(* write down.                                                             *)
EXTENDS ReconcilerClaims

NoTaint == <<>>
OneTaint == <<"startup">>
=============================================================================
