------------------------------- MODULE MCVault ------------------------------
(* Two notes of one title in an Inbox and two projects, changed by two     *)
(* actors.                                                                 *)
EXTENDS VaultEdits, TLC

CONSTANT s1

OneStem == [i \in Ids |-> s1]
AllCalls == {"edit", "category", "file", "delete", "create project",
             "delete project", "rename project"}
ProjectCalls == {"delete project"}
Alike == Permutations(Actors) \cup Permutations(Projects) \cup Permutations(Ids)
=============================================================================
