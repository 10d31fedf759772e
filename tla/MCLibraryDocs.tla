----------------------------- MODULE MCLibraryDocs ----------------------------
(* The instance of MCLibraryCalls, with the comments watched.                     *)
EXTENDS MCLibraryCalls, LibraryDocs
===============================================================================
