----------------------------- MODULE PhoneBook ------------------------------
(***************************************************************************)
(* What the accounts of owners and of customers share: the stores, and the *)
(* phones people are known by.                                             *)
(***************************************************************************)
CONSTANTS Stores, Phones
=============================================================================
