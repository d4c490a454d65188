------------------------------- MODULE Values -------------------------------
(* What the modules on an event's way from PostgreSQL to the store share. *)

CONSTANTS
    None,     \* Option::None
    Failed,   \* Err
    Chars     \* what names, texts and hashes consist of
=============================================================================
