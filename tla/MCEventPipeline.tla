-------------------------- MODULE MCEventPipeline --------------------------
(* Small instances of EventReports for TLC: a click by a scan without a    *)
(* referrer, one from a page, and a submission of the form behind the      *)
(* same link.                                                              *)
EXTENDS EventReports, TLC
CONSTANTS e1, e2, e3, w1, w2, k1, k2, f1

MCMeta ==
    e1 :> [type |-> "click", link |-> k1, form |-> f1, src |-> "qr",
           referrer |-> Unset, network |-> "n1"] @@
    e2 :> [type |-> "click", link |-> k2, form |-> f1, src |-> Unset,
           referrer |-> "page", network |-> "n1"] @@
    e3 :> [type |-> "submit", link |-> k1, form |-> f1, src |-> Unset,
           referrer |-> Unset, network |-> Unset]
=============================================================================
