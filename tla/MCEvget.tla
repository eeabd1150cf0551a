------------------------------ MODULE MCEvget ------------------------------
(* One StoreCoroutine of the event loop and one of the timer may be alive at  *)
(* one time; the configuration names them.                                    *)
EXTENDS Evget
=============================================================================
