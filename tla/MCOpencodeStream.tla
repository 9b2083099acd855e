-------------------------- MODULE MCOpencodeStream --------------------------
(* A small conversation with the OpenCode server for TLC.                  *)
EXTENDS OpencodeStream

First == {1}
Second == {2}
Calls == {"search1", "search2"}
=============================================================================
