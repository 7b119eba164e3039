------------------------------ MODULE MCGrants ------------------------------
(***************************************************************************)
(* Small instances of what a user gives out in a browser: sessions, and    *)
(* grants by authorization code; of the keys that sign the tokens; of the  *)
(* pauses that stop all this; and of the mail configuration with its       *)
(* circuit.  Each is checked on its own: part says which of them takes     *)
(* steps.  The request slots of the first two and the instances of the     *)
(* last are the same model values.                                         *)
(***************************************************************************)
EXTENDS BrowserSession, OAuthGrant, SigningKeys, ServiceControl, MailRuntime, TLC

CONSTANT FirstServer
VARIABLE part

\* Sessions live for one or two ticks.
TwoLives == {1, 2}

\* Mail delivery is leased and paused, on a server that runs and one that may
\* start.
MailLeases == {{"mail_delivery"}}
MailPauses == {{}, {"mail_delivery"}}
OneServerRuns == \A s \in Servers : gates[s].phase = IF s = FirstServer THEN "running" ELSE "new"

\* The instances start while mail is checked.
Started == \A i \in Instances : (snap[i] = NoSenderSnapshot) <=> (part = "mail")

\* Mail is disabled without anything in between: the transaction writes nothing
\* before its end (MCLive has it interleave).
DisablesAtOnce ==
    (\E i \in Instances : tx[i].kind = "disable") => \A i \in Instances : tx'[i].kind # "disable"

MCInit ==
    /\ part \in {"browser", "grant", "keys", "control", "mail"}
    /\ BrowserInit /\ GrantInit /\ SigningInit /\ ControlInit /\ OneServerRuns /\ MailInit /\ Started
    /\ part # "control" => control.paused = {} /\ ~openMode

MCNext ==
    \/ part = "browser" /\ BrowserNext
       /\ UNCHANGED <<part, grantVars, signingVars, controlVars, mailRuntimeVars>>
    \/ part = "grant" /\ GrantNext
       /\ UNCHANGED <<part, browserVars, signingVars, controlVars, mailRuntimeVars>>
    \/ part = "keys" /\ SigningNext
       /\ UNCHANGED <<part, browserVars, grantVars, controlVars, mailRuntimeVars>>
    \/ part = "control" /\ ControlNext
       /\ UNCHANGED <<part, browserVars, grantVars, signingVars, mailRuntimeVars>>
    \/ part = "mail" /\ MailNext /\ DisablesAtOnce
       /\ UNCHANGED <<part, browserVars, grantVars, signingVars, controlVars>>

MCSpec == MCInit /\ [][MCNext]_<<part, browserVars, grantVars, signingVars, controlVars, mailRuntimeVars>>

Symmetry == Permutations(Calls)
=============================================================================
