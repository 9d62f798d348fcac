------------------------------ MODULE MCAccounts -------------------------------
(* Accounts with values for the constants that a configuration cannot state. *)
EXTENDS Accounts

NoAccount == {Null}
\* A verified account with the password of its sign-up.
SignedUp == {[password |-> "claimed", verified |-> TRUE]}
===============================================================================
