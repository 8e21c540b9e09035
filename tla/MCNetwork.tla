----------------------------- MODULE MCNetwork ------------------------------
(* Instances of Network: two repository files with one package each. *)
EXTENDS Network, TLC

TwoFiles == <<"rep_1", "rep_2">>
OnePackageEach == "rep_1" :> {"a"} @@ "rep_2" :> {"b"}

\* Both files, and a list that has a file the server does not have.
TwoLists == {<<"rep_1", "rep_2">>, <<"rep_2", "none">>}

Add(p, f, right) ==
  [type |-> "add", package |-> p, file |-> f, password |-> right]
Remove(p, f, right) ==
  [type |-> "remove", package |-> p, file |-> f, password |-> right]

\* A package for one file, packages that are refused, and a removal.
Requests == {Add("c", "rep_1", TRUE), Add("d", "rep_2", FALSE),
             Add("c", "none", TRUE), Remove("b", "rep_2", TRUE)}

\* Nobody knows the password.
RefusedRequests == {Add("c", "rep_1", FALSE), Remove("b", "rep_2", FALSE)}
=============================================================================
