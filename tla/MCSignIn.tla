---- MODULE MCSignIn ----
(* Three scenarios of one system: changes of the factors that race each    *)
(* other, from every account; answers to challenges that race each other   *)
(* and one change, for an account with a password and every kind of        *)
(* factor; and sign-ins and registrations of an account that asks for no   *)
(* factor yet, while time passes.                                          *)
EXTENDS SignIn, TLC
VARIABLE scenario
MCPolicies == {DefaultSecurity, [DefaultSecurity EXCEPT !.admins = TRUE],
               [DefaultSecurity EXCEPT !.totp = FALSE, !.passkeys = FALSE, !.trusted = FALSE]}
Sym == Permutations(Challenges) \cup Permutations(Attempts)
       \cup Permutations(Logins) \cup Permutations(ChangeRequests)
Pending == \E ch \in Challenges : challenges[ch].state = "open"
Confirmed ==
    /\ person.password /\ ~person.admin /\ links = {} /\ ~security.admins
    /\ factors.totp = "confirmed"
MCInit ==
    /\ SignInInit
    /\ \/ scenario = "changes" /\ ~Pending
       \/ scenario = "challenge" /\ Confirmed /\ Pending /\ factors.passkeys = Passkeys
       \/ scenario = "switch" /\ Confirmed /\ ~person.loginMFA
MCNext ==
    /\ UNCHANGED scenario
    /\ \/ scenario = "changes" /\ FactorNext /\ totpStep' = 1
          /\ UNCHANGED <<challengeVars, attempts, attempted, completions>>
       \/ scenario = "challenge" /\ SignInNext /\ changed' <= 1 /\ totpStep' = 1
       \/ scenario = "switch" /\ SignInNext /\ changed' <= 1 /\ attempted' <= 2
MCSpec == MCInit /\ [][MCNext]_<<signInVars, scenario>>
====
