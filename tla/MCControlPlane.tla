--------------------------- MODULE MCControlPlane ---------------------------
(***************************************************************************)
(* Instances of ControlPlane for TLC: every CREATE TABLE and DROP TABLE     *)
(* alone, and some of them before each other statement.                     *)
(***************************************************************************)
EXTENDS ControlPlane

AllCommands == {c \in Command : c.verb = "drop" => c.valid}

TheTables == <<"a", "t", "z">>
TheBackups == <<"b1", "b2">>

\* The first statement: one that only explains, one that waits, one that does not.
Firsts ==
  {c \in AllCommands : c.valid /\ ~c.probe /\ c.budget = c.explain /\
     (c.explain => c.verb = "drop" /\ c.nowait)}

ApiCall(api, valid, explain) ==
  [kind |-> "call", api |-> api, backup |-> "b1", valid |-> valid, explain |-> explain]

Laters ==
       {[kind |-> k] : k \in {"show_limits", "show_create", "describe"}}
  \union {[kind |-> "show_tables", brief |-> FALSE, valid |-> TRUE, like |-> {"a", "t", "z"}],
          [kind |-> "show_tables", brief |-> TRUE, valid |-> TRUE, like |-> {"t", "z"}],
          [kind |-> "show_tables", brief |-> FALSE, valid |-> FALSE, like |-> {}]}
  \union {[kind |-> "show_backups", like |-> l] : l \in {{"b1", "b2"}, {"b2"}}}
  \union {[kind |-> "ttl", enabled |-> e, attr |-> "x", explain |-> x] :
            e \in BOOLEAN, x \in BOOLEAN}
  \union {ApiCall(api, TRUE, FALSE) : api \in Apis}
  \union {ApiCall(api, valid, explain) :
            api \in {"UpdateTable", "RestoreTableToPointInTime"},
            valid \in BOOLEAN, explain \in BOOLEAN}

AllSessions ==
  [first: AllCommands, later: {[kind |-> "none"]}] \union [first: Firsts, later: Laters]
=============================================================================
