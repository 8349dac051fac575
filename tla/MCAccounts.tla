----------------------------- MODULE MCAccounts -----------------------------
(* Three users, two addresses and an account with each, and the operations  *)
(* in mixes whose requests touch the same rows.                             *)
EXTENDS Accounts, TLC

CONSTANTS alice, bob, carol, a1, a2, e1, e2

MCUser == {alice, bob, carol}

MCAccount == {a1, a2}

MCEmailOf == [a \in MCAccount |-> IF a = a1 THEN e1 ELSE e2]

MCMixes ==
    {{"sign_up", "sign_in", "change_email"},
     {"change_email", "resend", "verify", "link"},
     {"sign_up", "verify", "resend"},
     {"reset", "set_password", "change_email", "deactivate"},
     {"sign_in", "link", "unlink", "change_password", "deauthorize"}}

\* The accounts trade places together with the addresses.
MCSwap == (a1 :> a2) @@ (a2 :> a1) @@ (e1 :> e2) @@ (e2 :> e1)

MCSymmetry == Permutations(Request) \cup Permutations({bob, carol}) \cup {MCSwap}
=============================================================================
