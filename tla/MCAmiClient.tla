----------------------------- MODULE MCAmiClient -----------------------------
(* AmiClient for TLC.                                                        *)
EXTENDS AmiClient, TLC
=============================================================================
