------------------------------ MODULE MCFilesys ------------------------------
(***************************************************************************)
(* The host's tree is a directory of two files, one with the directory's   *)
(* own name.  Each workload mixes the packets that meet in one part of the *)
(* code: scans with what may free their object, a cache above its limit,   *)
(* locks and handles that share or exclude, and directories that are made, *)
(* moved and deleted.  MCInto renames directories into each other.         *)
(***************************************************************************)
EXTENDS Filesys

MCDir == (<<"d">> :> "dir") @@ (<<"d", "d">> :> "file") @@ (<<"d", "f">> :> "file")
MCFull == MCDir @@ (<<"f">> :> "file") @@ (<<"g">> :> "file")
MCRels == {<<>>, <<"d">>, <<"f">>, <<"d", "d">>, <<"d", "f">>}

MCScans == [disk |-> MCDir, rels |-> MCRels, ainos |-> 4,
            packets |-> {"scan", "scan root", "lock", "delete", "rename"}]
MCFullCache == [disk |-> MCFull, rels |-> {<<"d">>, <<"f">>, <<"g">>}, ainos |-> 5,
                packets |-> {"scan", "lock"}]
MCLocks == [disk |-> MCDir, rels |-> MCRels, ainos |-> 4,
            packets |-> {"lock", "share", "convert", "change mode", "rename"}]
MCDirs == [disk |-> MCDir, rels |-> MCRels, ainos |-> 4,
           packets |-> {"find", "create dir", "delete", "rename"}]
MCMixed == [disk |-> MCDir, rels |-> MCRels, ainos |-> 3,
            packets |-> {"lock", "find", "change mode", "create dir", "delete", "rename"}]
MCPhantoms == [disk |-> (<<"d">> :> "dir"), rels |-> {<<"d">>, <<"d", "f">>, <<"d", "g">>}, ainos |-> 3,
               packets |-> {"scan", "lock", "create dir", "delete"}]
MCWorkloads == {MCScans, MCFullCache, MCLocks, MCDirs, MCMixed, MCPhantoms}

MCTwoDirs == [disk |-> (<<"d">> :> "dir") @@ (<<"f">> :> "dir"), rels |-> MCRels \cup {<<"f", "d">>},
              ainos |-> 5, packets |-> {"lock", "find", "create dir", "rename"}]
MCInto == {MCTwoDirs}
=============================================================================
