--------------------------- MODULE MCConfigStore ---------------------------
(***************************************************************************)
(* Bounded instances of ConfigStore for TLC.                               *)
(***************************************************************************)
EXTENDS ConfigStore

\* A request never writes over an edit of views.yaml that the service has not
\* loaded yet: both ways of managing views can be mixed.
MixFreely ==
    [][\A a \in Actors : At(a, "truncate") /\ handler'[a].pc = "write" => ~newer \/ raced]_vars
=============================================================================
