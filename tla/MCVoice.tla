------------------------------- MODULE MCVoice -------------------------------
(* An instance of Voice for TLC: one player whom two scripts mute, and one who *)
(* listens.                                                                    *)
EXTENDS Voice
=============================================================================
