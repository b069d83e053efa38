-------------------------- MODULE MCSharedObjects --------------------------
(* What is asked for and deployed in the runs of SharedObjects.             *)
EXTENDS SharedObjects

Item(name, value) == [name |-> name, value |-> value]

Parsed(env) == [parses |-> TRUE, env |-> env]

\* No extra environment; one that overrides the version and a variable of
\* the template after its own; and an annotation that is no list.
SomeClusters == {
    [account |-> "admin", value |-> "v1", extra |-> Parsed(<<>>)],
    [account |-> "other", value |-> "v2",
     extra |-> Parsed(<<Item("version", "v2"), Item("extra", "v1"),
                        Item("fixed", "v1")>>)],
    [account |-> "admin", value |-> "v1",
     extra |-> [parses |-> FALSE, env |-> <<>>]]}

\* Malformed by its annotation only.
SomeSettings == {[version |-> "v1", check |-> "true"],
                 [version |-> "v2", check |-> "false"]}
=============================================================================
