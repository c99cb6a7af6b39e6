--------------------------- MODULE MCModuleGraph ---------------------------
(* Small programs for ModuleGraph: every import list up to MaxImports      *)
(* entries over the files, with repetitions, self-imports and unresolved   *)
(* imports.                                                                *)
EXTENDS ModuleGraph

CONSTANT MaxImports

AllLists == UNION {[1 .. n -> Files \cup {Unresolved}] : n \in 0 .. MaxImports}
=============================================================================
