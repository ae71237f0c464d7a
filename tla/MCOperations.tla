---------------------------- MODULE MCOperations ----------------------------
(* Two submissions, an instance to promote or another, one access request. *)
EXTENDS Operations, TLC

TwoInstances == {"a", "b"}
OneName == {"r"}
TwoLevels == {"poweruser", "dba"}
SomeLinks == {<<"backup", "">>, <<"reload", "">>, <<"restart", "">>, <<"promote", "a">>}
ConsoleLinks == catalog \X {""}
OnlyOperations == {{"operations"}}
OneEach == {{"operations"}, {"review"}}
SomePicks == {"view", "dba", "?"}
Same == Permutations(Posts) \cup Permutations(Users)
=============================================================================
