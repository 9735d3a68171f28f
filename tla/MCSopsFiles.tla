------------------------------ MODULE MCSopsFiles ------------------------------
(* SopsFiles for TLC: the settings and one more file, one rule for both.     *)
EXTENDS SopsFiles

MCFiles == {"settings", "secret"}
OneRule == {"rule"} \X MCFiles
=============================================================================
