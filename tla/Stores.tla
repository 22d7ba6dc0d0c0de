------------------------------- MODULE Stores -------------------------------
(***************************************************************************)
(* What the two apps share: the names of stores.                           *)
(***************************************************************************)
CONSTANTS
    Merchant,      \* the stores an owner may log in to and a customer may enter
    None           \* no store
=============================================================================
