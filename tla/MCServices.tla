----------------------------- MODULE MCServices -----------------------------
(* Small instances of Services. *)
EXTENDS Services

MCUrls == {"test", "degrade"}
MCCachePath == [test |-> "test.txt", degrade |-> "degrade.txt"]
MCLines == [b \in Builds |-> IF b = "console_orch" THEN 2 ELSE 3]
=============================================================================
