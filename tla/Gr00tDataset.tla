---------------------------- MODULE Gr00tDataset ----------------------------
(***************************************************************************)
(* What Gr00tTrainer.train (trainers/gr00t_n1.py) does before it launches  *)
(* the fine-tuning: it downloads the dataset, finds its root, has a v3     *)
(* dataset converted to v2, looks for the root again, and sees to          *)
(* meta/modality.json and the modality config.                             *)
(*                                                                         *)
(* The converter is external (a script of Isaac-GR00T, run as a child for  *)
(* at most an hour): it moves the original to a sibling backup and writes  *)
(* the v2 dataset in its place; the v2 dataset may lack what is not part   *)
(* of the format, meta/modality.json for one.                              *)
(***************************************************************************)
EXTENDS DatasetRoot

CONSTANTS
    Layouts,     \* bound: what may be downloaded, as functions from Dirs to Versions
    BackupOf     \* where the converter moves a directory below the download directory to

Versions == {"none", "v2", "v3"}     \* codebase_version; "none": no meta/info.json

ASSUME LayoutsAssumption ==
    /\ Layouts \subseteq [Dirs -> Versions]
    /\ BackupOf \in [Subdirs -> Backups]

VARIABLES
    tree,          \* the datasets below the download directory
    modality,      \* the directories with a meta/modality.json
    root,          \* dataset_dir
    prepPc,        \* where the preparation is
    prepError      \* what was raised, "none" before

prepVars == <<tree, modality, root, prepPc, prepError>>

info == {d \in Dirs : tree[d] # "none"}

PrepInit == /\ tree \in Layouts
            /\ modality \in {{}, info}
            /\ root = Base
            /\ prepPc = "environment" /\ prepError = "none"

PrepGoto(loc) == prepPc' = loc /\ UNCHANGED prepError
PrepRaise(what) == prepPc' = "raised" /\ prepError' = what

\* _resolve_repo_dir and _check_device
Environment == /\ prepPc = "environment"
               /\ PrepGoto("download") \/ PrepRaise("RuntimeError")
               /\ UNCHANGED <<tree, modality, root>>

DownloadDataset == /\ prepPc = "download"
                   /\ PrepGoto("locate") \/ PrepRaise("DownloadError")
                   /\ UNCHANGED <<tree, modality, root>>

\* Mutant: the backups of a converter are not skipped.
Locate_BackupsToo(loc, next) ==
    /\ prepPc = loc
    /\ \/ \E d \in SortedRoot(info) : root' = d /\ PrepGoto(next)
       \/ SortedRoot(info) = {} /\ PrepRaise("FileNotFoundError") /\ UNCHANGED root
    /\ UNCHANGED <<tree, modality>>

\* _locate_dataset_root
Locate(loc, next) ==
    /\ prepPc = loc
    /\ \/ \E d \in OriginalRoot(info) : root' = d /\ PrepGoto(next)
       \/ OriginalRoot(info) = {} /\ PrepRaise("FileNotFoundError") /\ UNCHANGED root
    /\ UNCHANGED <<tree, modality>>

IsV2 == /\ prepPc = "version" /\ tree[root] # "v3"
        /\ PrepGoto("modality")
        /\ UNCHANGED <<tree, modality, root>>

IsV3 == /\ prepPc = "version" /\ tree[root] = "v3"
        /\ PrepGoto("convert")
        /\ UNCHANGED <<tree, modality, root>>

\* Its info.json is no JSON.
VersionUnreadable == /\ prepPc = "version"
                     /\ PrepRaise("JSONDecodeError")
                     /\ UNCHANGED <<tree, modality, root>>

\* The converter exits with 0.  The download directory itself, with all that is in it, is
\* moved to where nobody looks.
Convert == /\ prepPc = "convert"
           /\ IF root = Base
                 THEN /\ tree' = [d \in Dirs |-> IF d = Base THEN "v2" ELSE "none"]
                      /\ modality' \in SUBSET (modality \cap {Base})
                 ELSE /\ tree' = [tree EXCEPT ![root] = "v2", ![BackupOf[root]] = "v3"]
                      /\ modality' \in {modality, modality \ {root}}
           /\ PrepGoto("relocate")
           /\ UNCHANGED root

\* It is not there, exits with another code, or takes more than an hour; then it may have
\* got anywhere, and nobody looks any more.
ConvertFails == /\ prepPc = "convert"
                /\ PrepRaise("RuntimeError") \/ PrepRaise("TimeoutExpired")
                /\ UNCHANGED <<tree, modality, root>>

\* _ensure_modality_json
EnsureModality == /\ prepPc = "modality"
                  /\ modality' = modality \cup {root}
                  /\ PrepGoto("config")
                  /\ UNCHANGED <<tree, root>>

\* It has to be made and there is no state, action or camera to make it from.
NoModality == /\ prepPc = "modality" /\ root \notin modality
              /\ PrepRaise("RuntimeError")
              /\ UNCHANGED <<tree, modality, root>>

\* _resolve_modality_config: the user's, which may be missing, or one made from
\* modality.json, which may lack blocks.
ModalityConfig == /\ prepPc = "config"
                  /\ PrepGoto("ready") \/ PrepRaise("RuntimeError")
                  /\ UNCHANGED <<tree, modality, root>>

PrepStep == \/ Environment \/ DownloadDataset
            \/ Locate("locate", "version") \/ Locate("relocate", "modality")
            \/ IsV2 \/ IsV3 \/ VersionUnreadable \/ Convert \/ ConvertFails
            \/ EnsureModality \/ NoModality \/ ModalityConfig

PrepTypeOK ==
    /\ tree \in [Dirs -> Versions] /\ modality \subseteq Dirs /\ root \in Dirs
    /\ prepPc \in {"environment", "download", "locate", "version", "convert", "relocate",
                   "modality", "config", "ready", "raised"}
    /\ prepError \in {"none", "RuntimeError", "DownloadError", "FileNotFoundError",
                      "JSONDecodeError", "TimeoutExpired"}

\* The child is launched on a v2 dataset that has its modality.json and is no backup of
\* a converter, however the bucket was laid out (gr00t_n1.py:119-126 and 228-240).
LaunchedDatasetFits ==
    prepPc = "ready" => tree[root] = "v2" /\ root \in modality /\ root \notin Backups

-----------------------------------------------------------------------------
(* The inductive invariant behind it. *)

\* The root is the one that _locate_dataset_root finds, also after the conversion.
PrepInv ==
    /\ PrepTypeOK
    /\ prepPc \in {"version", "convert", "relocate"} => root \in OriginalRoot(info)
    /\ prepPc \in {"relocate", "modality", "config", "ready"} =>
          tree[root] = "v2" /\ root \notin Backups
    /\ prepPc \in {"config", "ready"} => root \in modality
=============================================================================
