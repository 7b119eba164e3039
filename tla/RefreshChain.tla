---------------------------- MODULE RefreshChain ----------------------------
(***************************************************************************)
(* What a refresh-token family promises to the clients of the OAuth        *)
(* server: a chain of refresh tokens of which only the newest can be       *)
(* exchanged, each of them once, and whose end is final.  No keys, no      *)
(* clock, no requests: tokens may lapse at any time.                       *)
(***************************************************************************)
CONSTANTS Families, Tokens

VARIABLES
    issued,   \* refresh tokens the family ever had
    current,  \* those that can be exchanged
    spent,    \* those that were exchanged
    bearer,   \* access tokens that are accepted
    ended     \* families that were revoked

vars == <<issued, current, spent, bearer, ended>>

Init ==
    /\ issued = [f \in Families |-> {}]
    /\ current = [f \in Families |-> {}]
    /\ spent = [f \in Families |-> {}]
    /\ bearer = [f \in Families |-> {}]
    /\ ended = {}

(* A grant starts a chain. *)
Start(f, t) ==
    /\ issued[f] = {}
    /\ issued' = [issued EXCEPT ![f] = {t}]
    /\ current' = [current EXCEPT ![f] = {t}]
    /\ UNCHANGED <<spent, bearer, ended>>

(* The first token of a chain gets its access token. *)
Attach(f, t) ==
    /\ f \notin ended
    /\ t \in issued[f]
    /\ bearer' = [bearer EXCEPT ![f] = @ \cup {t}]
    /\ UNCHANGED <<issued, current, spent, ended>>

(* The current token is exchanged for a new pair. *)
Exchange(f, t, new) ==
    /\ f \notin ended
    /\ current[f] = {t}
    /\ t \notin spent[f]
    /\ new \notin issued[f]
    /\ issued' = [issued EXCEPT ![f] = @ \cup {new}]
    /\ current' = [current EXCEPT ![f] = {new}]
    /\ spent' = [spent EXCEPT ![f] = @ \cup {t}]
    /\ bearer' = [bearer EXCEPT ![f] = @ \cup {new}]
    /\ UNCHANGED ended

(* Families are revoked: nothing of them remains usable. *)
End(S) ==
    /\ ended' = ended \cup S
    /\ current' = [f \in Families |-> IF f \in S THEN {} ELSE current[f]]
    /\ bearer' = [f \in Families |-> IF f \in S THEN {} ELSE bearer[f]]
    /\ UNCHANGED <<issued, spent>>

(* Tokens expire or are revoked one by one. *)
Lapse ==
    /\ current' \in [Families -> SUBSET Tokens]
    /\ bearer' \in [Families -> SUBSET Tokens]
    /\ \A f \in Families : current'[f] \subseteq current[f] /\ bearer'[f] \subseteq bearer[f]
    /\ UNCHANGED <<issued, spent, ended>>

Next ==
    \/ \E f \in Families, t \in Tokens : Start(f, t) \/ Attach(f, t)
    \/ \E f \in Families, t, new \in Tokens : Exchange(f, t, new)
    \/ \E S \in SUBSET Families : End(S)
    \/ Lapse

Spec == Init /\ [][Next]_vars
=============================================================================
