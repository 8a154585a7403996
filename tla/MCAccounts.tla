----------------------------- MODULE MCAccounts -----------------------------
(* Small instances of Accounts for TLC.                                    *)
EXTENDS Accounts, TLC

CONSTANTS
    Shared,  \* the address of every provider account
    Plain    \* addresses without a provider account

SharedAddress == [a \in Accounts |-> Shared]
AllEmails == Plain \cup {Shared}

\* Requests in progress are interchangeable, and so are plain addresses.
Alike == Permutations(Slots) \cup Permutations(Plain)
=============================================================================
