------------------------------- MODULE AtomicFile -------------------------------
(***************************************************************************)
(* What internal/durablefs promises of one control file: readers see one of *)
(* the contents published under its name, never a part of one, and a power  *)
(* loss leaves a content that was published and not yet superseded for good. *)
(***************************************************************************)
CONSTANTS Contents, Nothing

VARIABLES value,   \* content under the name, or Nothing
          may      \* what a power loss can leave there

Init == value = Nothing /\ may = {Nothing}

Publish == \E c \in Contents \cup {Nothing} : value' = c /\ may' = may \cup {c}
Confirm == value' = value /\ may' = {value}
PowerLoss == \E c \in may : value' = c /\ may' = {c}

Next == Publish \/ Confirm \/ PowerLoss
Spec == Init /\ [][Next]_<<value, may>>
=============================================================================
