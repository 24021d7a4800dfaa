-------------------------- MODULE MCClientLifecycle --------------------------
(***************************************************************************)
(* Small instances of ClientLifecycle: two of the eleven durables of       *)
(* METRICS.                                                                *)
(***************************************************************************)
EXTENDS ClientLifecycle

MCKubvizDurable == {"KUBVIZ_CONSUMER", "TRIVY_CONSUMER"}
=============================================================================
