---------------------------- MODULE MCK8sRuntime ----------------------------
(* Instances of the Kubernetes runtime for TLC.                              *)
EXTENDS K8sRuntime

Cancel         == {"cancel"}
CancelOrDelete == {"cancel", "hard_delete"}
PostProcessing == {"delete_post_processing"}
OneRequest     == Cancel \cup PostProcessing
=============================================================================
