------------------------------ MODULE MCBitmap ------------------------------
(* Bitmaps as tools/mkfs/mkfs.c writes them, for TLC.                      *)
EXTENDS Bitmap

\* The block map: blocks 1 .. area_start - 1 hold the file system's tables,
\* area_start is the root directory's, block 0 is left clear.
area_start == 2
BlockMap == 1 .. area_start
BlockFree == size - area_start - 1

\* The inode map: inode 1 is the root directory, inode 0 is left clear.
\* inode_count is written as inode_count - 1, inode_free as inode_count - 2.
InodeMap == {1}
InodeFree == size - 1
============================================================================
