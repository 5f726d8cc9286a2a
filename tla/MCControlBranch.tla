--------------------------- MODULE MCControlBranch ---------------------------
(* Small instances of ControlBranch for TLC.  Two ticks are the shortest   *)
(* heartbeat, and a publication takes up to one.                           *)
EXTENDS ControlBranch

File(control, project, heartbeat, lease) ==
    [template |-> <<>>, control |-> control, project |-> project,
     heartbeat |-> heartbeat, lease |-> lease, projects |-> ProjectIDs,
     wellFormed |-> TRUE]

\* Nothing but defaults; a lease of two intervals, and one of one and a half;
\* projects that share a branch, or whose name makes
\* theirs the control branch; a pattern that cannot be expanded.
MCFiles == {
    File(<<>>, <<>>, 0, 0),
    File(<<>>, <<>>, 0, 4),
    File(<<>>, <<>>, 0, 3),
    File(<<>>, <<"project", "{gateway_id}">>, 0, 0),
    File(<<>>, <<"gateway", "{project_id}">>, 0, 0),
    File(<<"gateway", "{project_id}">>, <<>>, 0, 0)}
=============================================================================
