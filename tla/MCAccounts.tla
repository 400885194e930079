------------------------------- MODULE MCAccounts -------------------------------
(***************************************************************************)
(* Accounts for TLC: two names, one address in two spellings, and two      *)
(* requests.                                                               *)
(***************************************************************************)
EXTENDS Accounts, TLC

CONSTANT e1

MCLowerCase == [a \in Addresses |-> e1]

AccountSymmetry == Permutations(Names) \union Permutations(Requests)

\* Codes and the clock do not meet with changes of the table, nor with sign-ins with Google.
MCBound ==
    Len(codes) > 1 \/ now > 0 =>
        updates = 0 /\ \A r \in Requests : request[r].kind # "google"
================================================================================
