------------------------------- MODULE MCStorage -------------------------------
(***************************************************************************)
(* Bitmaps, open files and the file system, for TLC.  The three share no   *)
(* variables; component says which of them a behaviour exercises.          *)
(***************************************************************************)
EXTENDS Bitmap, Files, EasyFS, TLC

VARIABLE component

\* The block map as tools/mkfs/mkfs.c writes it: blocks 1 .. area_start - 1 hold the
\* file system's tables, area_start is the root directory's, block 0 is left clear.
area_start == 2
BlockMap == 1 .. area_start
BlockFree == size - area_start - 1

MCSym == Permutations(EThr) \cup Permutations(Name)

MCInit ==
    /\ component \in {"bitmap", "files", "easyfs"}
    /\ BitmapInit /\ FilesInit /\ EasyFSInit
    /\ run[CHOOSE t \in FTask : TRUE] = InUser
    /\ f_ip = [f \in File |-> CHOOSE i \in Inode : TRUE]
    /\ component # "easyfs" => disk.bmap = {} /\ Len(disk.dir) = 1

MCNext ==
    /\ UNCHANGED component
    /\ \/ component = "bitmap" /\ BitmapNext /\ UNCHANGED <<fvars, efsvars>>
       \/ component = "files" /\ FilesNext /\ UNCHANGED <<bvars, efsvars>>
       \/ component = "easyfs" /\ EasyFSNext /\ UNCHANGED <<bvars, fvars>>

MCSpec == MCInit /\ [][MCNext]_<<component, bvars, fvars, efsvars>>
===============================================================================
