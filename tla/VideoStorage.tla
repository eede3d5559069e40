---------------------------- MODULE VideoStorage ----------------------------
(***************************************************************************)
(* The shared uploads volume, as FileSystemStorage and the fs calls of the *)
(* upload service and the worker use it:                                   *)
(*                                                                         *)
(*   originals/<id>.mp4                       original[id]                 *)
(*   tmp/<id>/ and the files in it            stagingDirs, tmp[id]         *)
(*   renditions/<id>/*, thumbnails/<id>.jpg   final[id]                    *)
(*                                                                         *)
(* Paths depend on the id alone, so two attempts at one upload use the     *)
(* same files.                                                             *)
(***************************************************************************)
EXTENDS SharedTypes

VARIABLES original, stagingDirs, tmp, final

storageVars == <<original, stagingDirs, tmp, final>>

StorageTypeOK ==
    /\ original \in [Ids -> FileState]
    /\ stagingDirs \in SUBSET Ids
    /\ tmp \in [Ids -> [Slots -> FileState]]
    /\ final \in [Ids -> [Slots -> FileState]]

StorageInit ==
    /\ original = [id \in Ids |-> "absent"]
    /\ stagingDirs = {}
    /\ tmp = [id \in Ids |-> NoFiles]
    /\ final = [id \in Ids |-> NoFiles]

(* removeDir(tmp/<id>): fs.rm recursive and force                          *)
RemoveStaging(id) ==
    /\ stagingDirs' = stagingDirs \ {id}
    /\ tmp' = [tmp EXCEPT ![id] = NoFiles]
    /\ UNCHANGED <<original, final>>

(* removeDir(tmp/<id>) followed by mkdirp(tmp/<id>)                        *)
RecreateStaging(id) ==
    /\ stagingDirs' = stagingDirs \cup {id}
    /\ tmp' = [tmp EXCEPT ![id] = NoFiles]
    /\ UNCHANGED <<original, final>>

(* ffmpeg -y opens its output in the staging directory ...                 *)
OpenOutput(id, slot) ==
    /\ id \in stagingDirs
    /\ tmp' = [tmp EXCEPT ![id][slot] = "partial"]
    /\ UNCHANGED <<original, stagingDirs, final>>

(* ... and closes it. If the directory was removed meanwhile the file has  *)
(* no name any more. The run for a thumbnail at one second of a shorter    *)
(* clip ends like any other, but there is no file.                         *)
CloseOutput(id, slot) ==
    /\ \/ tmp' = [tmp EXCEPT ![id][slot] =
                      IF @ = "partial" THEN "full" ELSE @]
       \/ /\ "noFrame" \in Faults
          /\ slot = Thumbnail
          /\ tmp' = [tmp EXCEPT ![id][slot] = "absent"]
    /\ UNCHANGED <<original, stagingDirs, final>>

(* removeDir(renditions/<id>) and mkdirp: the thumbnail is elsewhere.      *)
ClearRenditions(id) ==
    /\ final' = [final EXCEPT ![id] =
                     [s \in Slots |-> IF s = Thumbnail THEN @[s] ELSE "absent"]]
    /\ UNCHANGED <<original, stagingDirs, tmp>>

(* storage.move: mkdir of the target's directory, then one rename.         *)
MoveIntoPlace(id, slot) ==
    /\ tmp[id][slot] # "absent"
    /\ final' = [final EXCEPT ![id][slot] = tmp[id][slot]]
    /\ tmp' = [tmp EXCEPT ![id][slot] = "absent"]
    /\ UNCHANGED <<original, stagingDirs>>

(* Everything the plan of `id` asks for is in its final place, whole.      *)
OutputComplete(id) == \A s \in Outputs(id) : final[id][s] = "full"
=============================================================================
