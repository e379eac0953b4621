-------------------------- MODULE MCDashboardSession --------------------------
(* Two dashboards and a shared one, two requests at a time. *)
EXTENDS DashboardSession

CONSTANTS n1, n2, t1

MCNames == {n1, n2}
MCTemps == {t1}
================================================================================
