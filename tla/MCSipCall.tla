----------------------------- MODULE MCSipCall -----------------------------
(* Instances of SipCall for TLC. *)
EXTENDS SipCall, TLC

\* Two addresses of one host.
TwoAddresses == <<"a", "a">>

OneAddress == <<"a">>

\* A ring-mode check, and an answer-mode check with media and credentials.
Configs == {[ring |-> TRUE, auth |-> FALSE, expects2xx |-> TRUE, media |-> FALSE],
            [ring |-> FALSE, auth |-> TRUE, expects2xx |-> TRUE, media |-> TRUE]}

\* Dialogs are interchangeable.
Symmetry == Permutations(Tags)
=============================================================================
