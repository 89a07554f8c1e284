------------------------------ MODULE MCImport -------------------------------
(* Import for TLC: a file, its correction, and one invalid row.             *)
EXTENDS Import

CONSTANTS j1, j2

InvalidRows == {<<j1, 2>>}
=============================================================================
