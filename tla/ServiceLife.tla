---------------------------- MODULE ServiceLife ----------------------------
(***************************************************************************)
(* What runsv promises about the service it supervises, as man/runsv.8     *)
(* tells it: ./run is started when nothing of the service is running; when *)
(* ./run ends and there is a ./finish, ./finish is due, runs once, and     *)
(* only then may ./run start again; runsv leaves only an idle service.     *)
(***************************************************************************)
CONSTANT HasFinish

VARIABLES phase,   \* "idle", "run", "due" (./finish has to run), "finish"
          gone     \* runsv has exited

vars == <<phase, gone>>

Init == phase = "idle" /\ gone = FALSE

StartRun ==
  /\ ~gone /\ phase = "idle"
  /\ phase' = "run"
  /\ UNCHANGED gone

EndRun ==
  /\ ~gone /\ phase = "run"
  /\ phase' = IF HasFinish THEN "due" ELSE "idle"
  /\ UNCHANGED gone

StartFinish ==
  /\ ~gone /\ phase = "due"
  /\ phase' = "finish"
  /\ UNCHANGED gone

EndFinish ==
  /\ ~gone /\ phase = "finish"
  /\ phase' = "idle"
  /\ UNCHANGED gone

Leave ==
  /\ ~gone /\ phase = "idle"
  /\ gone' = TRUE
  /\ UNCHANGED phase

Next == StartRun \/ EndRun \/ StartFinish \/ EndFinish \/ Leave

Safety == Init /\ [][Next]_vars

=============================================================================
