---------------------------- MODULE DatasetRoot ----------------------------
(***************************************************************************)
(* Where a trainer finds the dataset below the directory it downloaded the *)
(* storage prefix to.  A bucket may hold the dataset itself or directories *)
(* with datasets; the root is a directory with a meta/info.json.           *)
(*                                                                         *)
(* Base is the download directory.  The directories below it are numbered  *)
(* in the order sorted() gives their paths; info is the set of those with  *)
(* a meta/info.json.  Each operator gives the set of the roots that may be *)
(* found, empty when FileNotFoundError is raised.                          *)
(***************************************************************************)
EXTENDS Integers

CONSTANTS
    Subdirs,    \* the directories below the download directory
    Direct,     \* those directly below it
    Backups     \* those with the name of a converter's backup, *_v3.0 or *_v30

ASSUME DirsAssumption ==
    Subdirs \subseteq Nat \ {0} /\ Direct \subseteq Subdirs /\ Backups \subseteq Subdirs

Base == 0
Dirs == {Base} \cup Subdirs

First(dirs) == {d \in dirs : \A e \in dirs : d <= e}

\* gr00t_lerobot, annotate and reward_model: the first one, at any depth.
SortedRoot(info) == IF Base \in info THEN {Base} ELSE First(info)

\* smolvla_lora: one of those directly below, in the order of the file system.
DirectRoot(info) == IF Base \in info THEN {Base} ELSE info \cap Direct

\* gr00t_n1: the first one that is not a backup.
OriginalRoot(info) == IF Base \in info THEN {Base} ELSE First(info \ Backups)
=============================================================================
