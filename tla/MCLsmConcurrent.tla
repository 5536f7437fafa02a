--------------------------- MODULE MCLsmConcurrent ---------------------------
(***************************************************************************)
(* The LSM tree with two callers, in two scenarios of which each has the   *)
(* calls and the faults that the other leaves out: flushes and compactions *)
(* that overlap, one of which may fail, and a crash at any step of writes, *)
(* their flushes and scans.  Bounds of their own: two WAL frames in the    *)
(* first, three ticks of the clock in the second.                          *)
(***************************************************************************)
EXTENDS MCLsmTree

VARIABLE scenario

Calls(from, to) == \E c \in Client : pc[c] = from /\ pc'[c] = to

ScenarioInit == scenario \in {"compactions", "crash"} /\ Init
ScenarioNext ==
  /\ UNCHANGED scenario
  /\ Next
  /\ scenario = "compactions" => ~Calls("idle", "slist") /\ crashes' = 0 /\ Len(wal') <= 2
  /\ scenario = "crash" =>
       ~Calls("idle", "swap") /\ ~Calls("idle", "list") /\ ioErrors' = 0 /\ now' <= 3

ScenarioSpec == ScenarioInit /\ [][ScenarioNext]_<<vars, scenario>>
=============================================================================
