------------------------------- MODULE MCLive -------------------------------
(***************************************************************************)
(* Small instances of the three parts that must get somewhere: the         *)
(* clean-up after a security change, the pause of a capability, and the    *)
(* mail configuration that instances remember.  Each is checked on its     *)
(* own, under the fairness its module states: part says which of them      *)
(* takes steps.                                                            *)
(***************************************************************************)
EXTENDS SecurityRevocation, ServiceControl, MailRuntime

VARIABLE part

\* One capability, which requests lease, and which may be paused.
MailLeases == {{"mail_delivery"}}
MailPauses == {{}, {"mail_delivery"}}

\* A server runs; while something else is checked it has ended, and nothing of
\* it is enabled.
Phase == IF part = "control" THEN "running" ELSE "gone"

\* An old credential and a new one of each user, at any time.
FewCredentials == \A u \in Users : Cardinality(creds[u]) <= 2

\* An instance without SMTP settings of its own lacks the key of version 1.
KeyMissing == (Instances \ WithFallback) \X {1}
\* The instances start; while something else is checked they have read the row,
\* and have nothing to load.
Started == \A i \in Instances : (snap[i] = NoSenderSnapshot) <=> (part = "mail")

MCInit ==
    /\ part \in {"revocation", "control", "mail"}
    /\ Init /\ ControlInit /\ MailInit
    /\ \A s \in Servers : gates[s].phase = Phase
    /\ part # "control" => control.paused = {} /\ ~openMode
    /\ Started

MCNext ==
    \/ part = "revocation" /\ Next /\ FewCredentials' /\ UNCHANGED <<part, controlVars, mailRuntimeVars>>
    \/ part = "control" /\ ControlNext /\ UNCHANGED <<part, vars, mailRuntimeVars>>
    \/ part = "mail" /\ MailNext /\ UNCHANGED <<part, vars, controlVars>>

MCSpec ==
    /\ MCInit /\ [][MCNext]_<<part, vars, controlVars, mailRuntimeVars>>
    /\ Fairness /\ ControlFairness /\ MailFairness
=============================================================================
