----------------------------- MODULE MCRegistry -----------------------------
(* Two paths to one library file (a hard link), a library the host links   *)
(* whose provider it also offers, and a candidate of a source with two     *)
(* builds, the second of which offers that provider too.                   *)
EXTENDS Registry

MCBuilds == {"file", "own", "one", "two"}
MCContents ==
  [p \in Places |-> CASE p \in Files -> {"file"} [] p \in Linked -> {"own"}
                      [] p \in Candidates -> {"one", "two"}]
MCLibraryId == [b \in Builds |-> CASE b = "file" -> "F" [] b = "own" -> "L" [] OTHER -> "S"]
MCVersion == [b \in Builds |-> IF b = "two" THEN 2 ELSE 1]
MCOffers ==
  [b \in Builds |-> CASE b = "one" -> {"q"} [] b = "two" -> {"p", "q"} [] OTHER -> {"p"}]
MCSlot == [b \in Builds |-> b \in {"file", "two"}]
MCImage == [f \in Files |-> "image"]

=============================================================================
