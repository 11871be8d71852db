------------------------------ MODULE MCRouting -----------------------------
(***************************************************************************)
(* A small instance of Routing for TLC: models.yaml before and after an    *)
(* edit that swaps what the models can do and the order of failover, an    *)
(* empty file, and a bundled one with a single model.                      *)
(***************************************************************************)
EXTENDS Routing

Entry(tools, vision, exit, window, failover) ==
  [tools |-> tools, vision |-> vision, exit |-> exit, window |-> window,
   failover |-> failover]

NoRouter == [s \in ToSet(Scenarios) |-> None]

Before ==
  [entries |-> [big |-> Entry(TRUE, FALSE, TRUE, 2, <<"ghost", "small", "eyes", "small">>),
                small |-> Entry(FALSE, FALSE, FALSE, 1, <<>>),
                eyes |-> Entry(TRUE, TRUE, FALSE, 2, <<"big">>)],
   first |-> "big", big |-> "big",
   prefixes |-> [old |-> "eyes", older |-> "small"],
   router |-> [NoRouter EXCEPT !["vision"] = "eyes", !["long_context"] = "small"]]

After ==
  [entries |-> [big |-> Entry(TRUE, TRUE, FALSE, 2, <<"eyes">>),
                eyes |-> Entry(FALSE, FALSE, TRUE, 2, <<"big">>)],
   first |-> "eyes", big |-> "ghost", prefixes |-> [old |-> "big"], router |-> NoRouter]

EmptyFile ==
  [entries |-> <<>>, first |-> None, big |-> "big", prefixes |-> <<>>, router |-> NoRouter]

Package ==
  [entries |-> [small |-> Entry(TRUE, TRUE, FALSE, 2, <<>>)], first |-> "small",
   big |-> "small", prefixes |-> <<>>, router |-> NoRouter]

MCFiles == {Before, After, EmptyFile}

MCNames == {"big", "small", "eyes", "ghost", "old", "older", "big-v1", "older-x", "other"}

Version == [n \in MCNames |-> IF n = "big-v1" THEN "big" ELSE n]
StartsWith == [n \in MCNames |-> IF n = "older-x" THEN <<"older", "old">> ELSE <<>>]

Body(name, traits, tools, size, stream, session) ==
  [name |-> name, traits |-> traits, tools |-> tools, size |-> size,
   stream |-> stream, session |-> session, accepted |-> TRUE]

Bodies ==
  {Body("big-v1", {}, TRUE, 0, stream, session) : stream \in BOOLEAN, session \in Sessions \cup {None}}
    \cup {Body("eyes", {}, TRUE, 1, FALSE, session) : session \in Sessions}
    \cup {Body("other", {"vision"}, FALSE, 0, FALSE, None),
          Body("older-x", {"long_context", "vision"}, FALSE, 1, FALSE, None),
          [Body("big", {}, FALSE, 0, FALSE, None) EXCEPT !.accepted = FALSE]}

Interchangeable == Permutations(Requests)
=============================================================================
