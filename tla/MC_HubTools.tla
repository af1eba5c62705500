----------------------------- MODULE MC_HubTools -----------------------------
(***************************************************************************)
(* Instances of HubTools for TLC.                                          *)
(***************************************************************************)
EXTENDS HubTools, SequencesExt

MCPods     == <<"p1", "p2">>
MCUris     == <<"u1", "u2">>
MCReplicas == <<"p1", "p2", "p3">>

\* Lines that differ in what the reading of a log looks at.
MCLines ==
  [shape : {"text"}, level : {"error", "warn"}, class : {"E", "-"}, frame : {"-"}]
    \cup [shape : {"frame"}, level : {"info"}, class : {"-"}, frame : {"F", "-"}]
    \cup [shape : {"json"}, level : {"error"}, class : {"E"}, frame : {"F", "-"}]
    \cup [shape : {"json"}, level : {"info"}, class : {"E", "-"}, frame : {"-"}]

\* Pods of one container and of two that share a key.
MCTemplates ==
  {[images |-> {<<"a", "v1">>}, resources |-> {<<"a", "r">>}, env |-> {<<"a", "X", "1">>, <<"a", "S", "s1">>}],
   [images |-> {<<"a", "v2">>}, resources |-> {<<"a", "r">>}, env |-> {<<"a", "X", "2">>, <<"a", "S", "s2">>}],
   [images |-> {<<"a", "v1">>, <<"b", "v1">>}, resources |-> {<<"a", "r">>, <<"b", "r">>},
    env |-> {<<"a", "X", "1">>, <<"b", "X", "2">>}]}

MCLogs == BoundedSeq(MCLines, 2)
=============================================================================
