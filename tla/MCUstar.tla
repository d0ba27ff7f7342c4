------------------------------- MODULE MCUstar -------------------------------
(* Names and paths for model checking UstarDir. *)
EXTENDS UstarDir

\* A file in the root, a directory, files in it, in a directory whose name
\* it starts, and in one that repeats it
MCNames ==
  {<<"b">>, <<"a", "/">>, <<"a", "/", "b">>, <<"a", "/", "b", "/", "c">>,
   <<"a", "b", "/", "c">>, <<"a", "/", "a", "/", "b">>}

MCPaths ==
  {<<"/">>, <<"/", "a">>, <<"/", "a", "b">>, <<"a">>, <<"/", "a", "/">>}
=============================================================================
