------------------------------ MODULE MCFilesys ------------------------------
(* Inodes, free blocks, mounts and open files for TLC.  The components share *)
(* no state in the models, so one run checks them side by side: part says    *)
(* whose steps a behaviour takes.                                            *)
EXTENDS Inode, Blocks, Mount, Files

CONSTANT Parts

VARIABLE part

filesysVars == <<inodeVars, blocksVars, mountVars, fileVars, part>>

FilesysInit == InodeInit /\ BlocksInit /\ MountInit /\ FilesInit /\ part \in Parts

FilesysNext ==
    /\ UNCHANGED part
    /\ \/ /\ part = "inode" /\ InodeNext
          /\ UNCHANGED <<blocksVars, mountVars, fileVars>>
       \/ /\ part = "blocks" /\ BlocksNext
          /\ UNCHANGED <<inodeVars, mountVars, fileVars>>
       \/ /\ part = "mount" /\ MountNext
          /\ UNCHANGED <<inodeVars, blocksVars, fileVars>>
       \/ /\ part = "files" /\ FilesNext
          /\ UNCHANGED <<inodeVars, blocksVars, mountVars>>

FilesysSpec == FilesysInit /\ [][FilesysNext]_filesysVars

(* Processes, names, files, devices and mount points are interchangeable     *)
(* in the models that have them; the process that mounts is not.             *)
FilesysSymmetry ==
    Permutations(IProcs) \cup Permutations(Names) \cup Permutations(BProcs)
    \cup Permutations(FileSet) \cup Permutations(Devs)
==============================================================================
