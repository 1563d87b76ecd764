---------------------------- MODULE MCViewState ----------------------------
(***************************************************************************)
(* Bounded instances of ViewState for TLC.                                 *)
(***************************************************************************)
EXTENDS ViewState

\* Steady use, and a view that an operator removed from views.yaml and that
\* the service has dropped may be added again with another query or target.
ReaddNext ==
    \/ SteadyNext
    \/ \E f \in Config : file = NoView /\ conf = NoView /\ ~deleting /\ EditFile(f)

ReaddSpec == Init /\ [][ReaddNext]_vars

\* Steady use, and a client creates a view again, with another query or target,
\* while its DELETE has not been answered.
RecreateNext ==
    \/ SteadyNext
    \/ \E c \in Config : deleting /\ file = NoView /\ CreateView(c)

RecreateSpec == Init /\ [][RecreateNext]_vars

\* The target holds everything that the bookmark promises.
BookmarkSound == row.bookmark.sound
=============================================================================
