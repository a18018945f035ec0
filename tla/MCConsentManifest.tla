------------------------- MODULE MCConsentManifest -------------------------
(* Small instances of ConsentManifest for TLC. *)
EXTENDS ConsentManifest, TLC

\* No action or invariant names a verifying call.
Symmetry == Permutations(Verifiers)

Texts == {"w", "x", "k", "l"}

\* The second version has another worker and one kernel more.
Versions == {[worker |-> "w", kernels |-> <<"k">>],
             [worker |-> "x", kernels |-> <<"k", "l">>]}

\* Within the policy; unmetered and above the policy; above the hard cap.
DeclaredLimits == {[share |-> 1, energy |-> 1, access |-> 0],
             [share |-> 2, energy |-> Undefined, access |-> 1],
             [share |-> 3, energy |-> 1, access |-> 0]}
VisitorPolicy == [share |-> 1, energy |-> 1, access |-> 0]
ClockDrifts == {-2, 0}
=============================================================================
