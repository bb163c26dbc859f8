----------------------------- MODULE MCAccounts -----------------------------
(* Instances of Accounts for TLC. *)
EXTENDS Accounts, TLC

\* "ann", the candidate that follows it, and "al", too short for the schema.
MCNames == { <<"ann", <<>>>>, <<"ann", <<2>>>>, <<"al", <<>>>> }
MCShortNames == { <<"al", <<>>>> }
=============================================================================
