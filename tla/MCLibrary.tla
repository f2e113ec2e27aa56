----------------------------- MODULE MCLibrary -----------------------------
(***************************************************************************)
(* The parts of the library that stand beside the statements, for TLC: the *)
(* Connection and its Results, the SDK that Databases share, prepared       *)
(* statements, and table definitions on their way to a request and back to  *)
(* a statement.  They share no state, so a behaviour is one of a single      *)
(* part, chosen at the start, while the others are left at an initial state. *)
(***************************************************************************)
EXTENDS MCConnection, SdkLifetime, MCPreparedStatement, MCTableDefinition

CONSTANT Parts      \* the parts that are checked

VARIABLE part       \* the one of them that runs, fixed

Symmetry == Permutations(Threads)

ConnectionRests == region = Default /\ Init
SdkRests == guard = FALSE /\ counts = TRUE /\ InitSdk
StatementRests == sql = <<>> /\ InitStatement
DefinitionRests == def = Declared(Plain) /\ InitDefinition

LibraryInit ==
  /\ part \in Parts
  /\ \/ /\ part = "connection" /\ SdkRests /\ StatementRests /\ DefinitionRests
        /\ Init
     \/ /\ part = "sdk" /\ ConnectionRests /\ StatementRests /\ DefinitionRests
        /\ InitSdk
     \/ /\ part = "statement" /\ ConnectionRests /\ SdkRests /\ DefinitionRests
        /\ InitStatement
     \/ /\ part = "definition" /\ ConnectionRests /\ SdkRests /\ StatementRests
        /\ InitDefinition

LibraryNext ==
  \/ /\ part = "connection" /\ Next
     /\ UNCHANGED <<part, sdkVars, statementVars, definitionVars>>
  \/ /\ part = "sdk" /\ NextSdk
     /\ UNCHANGED <<part, vars, statementVars, definitionVars>>
  \/ /\ part = "statement" /\ NextStatement
     /\ UNCHANGED <<part, vars, sdkVars, definitionVars>>
  \/ /\ part = "definition" /\ NextDefinition
     /\ UNCHANGED <<part, vars, sdkVars, statementVars>>

LibrarySpec ==
  LibraryInit
    /\ [][LibraryNext]_<<part, vars, sdkVars, statementVars, definitionVars>>
=============================================================================
