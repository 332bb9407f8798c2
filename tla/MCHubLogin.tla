---------------------------- MODULE MCHubLogin ----------------------------
(* Small instances of HubLogin: the accounts, bounds and symmetries of the runs. *)
EXTENDS HubLogin, TLC

CONSTANTS c1, c2, c3, n1, n2, a1, a2

Account(k, change, hide) == [class |-> k, pwdChange |-> change, hideShare |-> hide]

(* nobody is registered *)
Guests == {NoAccount}

(* a registered user with a password *)
OneAccount == {NoAccount, Account(1, FALSE, FALSE)}

(* a registered user with a password, and an operator who has to set one *)
TwoAccounts == {NoAccount, Account(1, FALSE, FALSE), Account(3, TRUE, FALSE)}

(* a registered user and an operator *)
WithPasswords == {NoAccount, Account(1, FALSE, FALSE), Account(3, FALSE, FALSE)}

(* an operator whose share is hidden, and one whose share is not *)
HiddenShares == {NoAccount, Account(3, FALSE, FALSE), Account(3, FALSE, TRUE)}

(* -1 switches mC.max_users_passive off. *)
NoLimit == -1

Symmetry == Permutations(Conns) \cup Permutations(Nicks) \cup Permutations(Addresses)

(* ... and where robots have nicks of their own *)
SymmetryOfConns == Permutations(Conns) \cup Permutations(Addresses)

(* A bound: clients that send $Supports and $Key before $ValidateNick, as they usually do *)
UsualOrder ==
    \A c \in Conns : "ALLOWED" \in flags[c] => {"KEYOK", "SUPPORTS"} \subseteq flags[c]

=============================================================================
