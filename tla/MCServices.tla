----------------------------- MODULE MCServices -----------------------------
(***************************************************************************)
(* The two services of the package for TLC.  They share no state, so that  *)
(* behaviours in which both run would only interleave what is checked      *)
(* here: each behaviour starts one of them.                                *)
(***************************************************************************)
EXTENDS Ticker, HealthCheck

ServicesTypeOK == TypeOK /\ HealthTypeOK

ServicesInit == Init /\ HealthInit

ServicesNext ==
    \/ Next /\ server = 0 /\ UNCHANGED healthVars
    \/ HealthNext /\ starts = 0 /\ UNCHANGED vars

ServicesSpec ==
    /\ ServicesInit /\ [][ServicesNext]_<<vars, healthVars>>
    /\ Fairness /\ HealthFairness
=============================================================================
