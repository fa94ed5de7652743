----------------------------- MODULE MCDispatch -----------------------------
(* An instance of Dispatch for TLC: a pack of three steps, all comparable.   *)
EXTENDS Dispatch

CONSTANTS K8s, Terraform

PackManifest == <<Terraform, K8s, Terraform>>
=============================================================================
