------------------------------ MODULE MCMQueue ------------------------------
(* The re_main thread and one worker pushing three messages through a    *)
(* pipe with room for two struct msg and one word.                        *)
EXTENDS MQueue
=============================================================================
