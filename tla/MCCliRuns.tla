----------------------------- MODULE MCCliRuns -----------------------------
(* Small instances of CliRuns for TLC. *)
EXTENDS CliRuns

CONSTANTS b1, b2, b3, task, msg, driver, p1, p2, p3, p4
=============================================================================
