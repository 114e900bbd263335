---------------------------- MODULE MCLocalCopy ----------------------------
(* Two directories with a file each, and a file beside them.               *)
EXTENDS LocalCopy

MCParent == [p \in {"d", "df", "e", "ef", "g"} |->
                CASE p = "df" -> "d" [] p = "ef" -> "e" [] OTHER -> ROOT]
MCName == [p \in {"d", "df", "e", "ef", "g"} |->
                CASE p \in {"df", "ef"} -> "f" [] OTHER -> p]
MCOrder == <<"d", "df", "e", "ef", "g">>
=============================================================================
