------------------------------ MODULE MCLayer2 ------------------------------
(* Small instances of layer 2 for TLC.  Its parts share no state, so each    *)
(* behaviour is one of one of them.                                          *)
EXTENDS SchemaMigration, CommandRanking, TelegramMenu, TLC

CONSTANTS old, new1, new2
VARIABLE part

vars == <<part, schemaVars, rankingVars, menuVars>>

MCTarget == (old :> 1) @@ (new1 :> 2) @@ (new2 :> 2)
MCNames == {{1, 2}}
MCSymmetry == Permutations(Here)

Init ==
  /\ SchemaInit /\ RankingInit /\ MenuInit
  /\ part \in {"schema", "ranking", "menu"}
  /\ part # "menu" => wanted = CHOOSE p \in Payloads : TRUE

Next ==
  /\ UNCHANGED part
  /\ \/ part = "schema" /\ SchemaNext /\ UNCHANGED <<rankingVars, menuVars>>
     \/ part = "ranking" /\ RankingNext /\ UNCHANGED <<schemaVars, menuVars>>
     \/ part = "menu" /\ MenuNext /\ UNCHANGED <<schemaVars, rankingVars>>

Spec == Init /\ [][Next]_vars

Layer2TypeOK == SchemaTypeOK /\ RankingTypeOK /\ MenuTypeOK
=============================================================================
