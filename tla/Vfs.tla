-------------------------------- MODULE Vfs --------------------------------
(***************************************************************************)
(* Files: the system calls of kernel/fs/fs.c, what they use of inode.c,    *)
(* path.c and super.c, and the two file systems there are, initrd.c and    *)
(* devfs.c, mounted as kinit_fs mounts them.                               *)
(*                                                                         *)
(* A path is the sequence of its parts; every process's directory is /.    *)
(* The initrd holds the directory dev and the file f.  The list of devices *)
(* is a set (see ListUsers), their positions and data are left out, and    *)
(* so are opencount, which only the unused vfs_unlink reads, and the       *)
(* memory of directory entries.                                            *)
(***************************************************************************)
EXTENDS Integers, Sequences, FiniteSets, FiniteSetsExt

CONSTANTS Device,     \* inodes that can be registered with devfs
          StdDevice,  \* the device of the processes' terminal
          UserProc,   \* process slots
          FirstProc,  \* the process there is at the start
          NumFiles,   \* size of a new descriptor table, and its growth (32)
          NumStd,     \* number of standard files (3)
          Length,     \* length of the file f
          OpenPaths,  \* the paths open is called with
          DirPaths,   \* the paths readdir is called with
          ReadSizes,  \* the counts read is called with
          MaxFiles    \* bound: file objects in the kernel's heap

ASSUME VfsAssumption ==
  /\ StdDevice \in Device /\ FirstProc \in UserProc
  /\ {"f", "x", "dev", "fs_root", "root", "devdir", "devfs_root", "none"} \cap Device = {}
  /\ NumStd \in Nat /\ NumFiles \in Nat \ {0} /\ NumStd <= NumFiles
  /\ Length \in Nat /\ MaxFiles \in Nat /\ ReadSizes \subseteq Nat

VARIABLES fs_error,
          heap,     \* file objects: those allocated, their inode and pos
          files,    \* the descriptor table of each process that lives
          devices,  \* what is registered with devfs
          upto      \* history: end of what was last read from each file

vfsVars == <<fs_error, heap, files, devices, upto>>

NoFile == 0
NoInode == "none"

ENOENT == 2
EINVAL == 22
ENOSYS == 38

DIR == {"fs_root", "root", "devdir", "devfs_root"}
initrd_inodes == {"root", "devdir", "f"}

(* point->link of the inodes that vfs_mount sets FS_MOUNTP in.             *)
vfs_mount(links, point, root) ==
  [i \in DOMAIN links \cup ({point} \cap DIR) |-> IF i = point THEN root ELSE links[i]]

link == vfs_mount(vfs_mount([i \in {} |-> NoInode], "fs_root", "root"), "devdir", "devfs_root")

(* Mutant of MOUNTP: only the root is a mount point.                       *)
MOUNTP_root == {"fs_root"}

MOUNTP == DOMAIN link

Found(inode, error) == [inode |-> inode, error |-> error]
-----------------------------------------------------------------------------
(* id_finddir and the finddir of devfs, which tells nobody why it found    *)
(* nothing: error is what fs_error was before.                             *)
id_finddir(ino, name, error) ==
  CASE ino = "root" /\ name = "dev" -> Found("devdir", error)
    [] ino = "root" /\ name = "f" -> Found("f", error)
    [] OTHER -> Found(NoInode, -ENOENT)

finddir(name, error) == Found(IF name \in devices THEN name ELSE NoInode, error)

vfs_finddir(ino, name, error) ==
  CASE ino \notin DIR -> Found(NoInode, -EINVAL)
    [] ino \in initrd_inodes -> id_finddir(ino, name, error)
    [] ino = "devfs_root" -> finddir(name, error)
    [] OTHER -> Found(NoInode, -ENOSYS)

(* One turn of the loop in vfs_lookup; there are no symbolic links.        *)
NextInode(at, part) ==
  CASE at.inode = NoInode -> at
    [] at.inode \in MOUNTP -> vfs_finddir(link[at.inode], part, at.error)
    [] at.inode \notin MOUNTP \cup DIR \cup {NoInode} -> Found(NoInode, -ENOENT)
    [] OTHER -> vfs_finddir(at.inode, part, at.error)

(* A mount point at the end of the path is followed too.                   *)
AtEnd(at) == IF at.inode \in MOUNTP THEN [at EXCEPT !.inode = link[@]] ELSE at

vfs_lookup(path) ==
  LET at[n \in 0 .. Len(path)] ==
        IF n = 0 THEN Found("fs_root", fs_error) ELSE NextInode(at[n - 1], path[n])
  IN  AtEnd(at[Len(path)])
-----------------------------------------------------------------------------
File == 1 .. MaxFiles

(* The files that kmalloc returns, one for each of these fds.              *)
kmalloc_files(fds) ==
  CHOOSE new \in [fds -> File \ heap.used] : \A i, j \in fds : new[i] = new[j] => i = j

kmalloc_file == CHOOSE f \in File : f \notin heap.used

HasOpen(ino) == ino \in initrd_inodes \cup Device

(* Each file is a new one; of an inode without open it is never freed.     *)
vfs_open(new, ino) ==
  [used  |-> heap.used \cup new,
   inode |-> [f \in File |-> IF f \notin new THEN heap.inode[f] ELSE IF HasOpen(ino) THEN ino ELSE NoInode],
   pos   |-> [f \in File |-> IF f \notin new THEN heap.pos[f] ELSE 0]]

Fails(error) ==
  /\ fs_error' = error
  /\ UNCHANGED <<files, upto>>

(* The first free descriptor, in a table that is made longer if need be.   *)
FreeFds(table) == {i \in DOMAIN table : table[i] = NoFile}

newfd(table) == IF FreeFds(table) = {} THEN Len(table) + 1 ELSE Min(FreeFds(table))

Enlarged(table) ==
  IF FreeFds(table) = {} THEN table \o [i \in 1 .. NumFiles |-> NoFile] ELSE table

OpenInode(p, f, at) ==
  IF HasOpen(at.inode)
  THEN /\ files' = [files EXCEPT ![p] = [Enlarged(@) EXCEPT ![newfd(files[p])] = f]]
       /\ fs_error' = at.error /\ upto' = [upto EXCEPT ![f] = 0]
  ELSE Fails(-EINVAL)

sys_open(p, at) ==
  \/ at.inode = NoInode /\ Fails(at.error) /\ UNCHANGED heap
  \/ /\ at.inode # NoInode /\ heap.used # File
     /\ heap' = vfs_open({kmalloc_file}, at.inode)
     /\ OpenInode(p, kmalloc_file, at)

Live == DOMAIN files

SysOpen ==
  /\ \E p \in Live, path \in OpenPaths : sys_open(p, vfs_lookup(path))
  /\ UNCHANGED devices

(* An fd beyond the table has no file; a negative one is not given here.   *)
fd2file(p, fd) == IF fd \in DOMAIN files[p] THEN files[p][fd] ELSE NoFile

Fds(p) == 1 .. Len(files[p]) + 1

(* A freed file's content is of no interest: vfs_open and vfs_dup clear    *)
(* and fill the memory they get.                                           *)
Forget(h, lost) ==
  [h EXCEPT !.inode = [f \in File |-> IF f \in lost THEN NoInode ELSE @[f]],
            !.pos = [f \in File |-> IF f \in lost THEN 0 ELSE @[f]]]

ForgetRead(lost) == upto' = [f \in File |-> IF f \in lost THEN 0 ELSE upto[f]]

(* No close of a file system or driver there is fails.                     *)
sys_close(p, fd, file) ==
  \/ file = NoFile /\ UNCHANGED <<heap, files, upto>>
  \/ /\ file # NoFile
     /\ heap' = Forget([heap EXCEPT !.used = @ \ {file}], {file}) /\ ForgetRead({file})
     /\ files' = [files EXCEPT ![p][fd] = NoFile]

SysClose ==
  /\ \E p \in Live : \E fd \in Fds(p) : sys_close(p, fd, fd2file(p, fd))
  /\ UNCHANGED <<fs_error, devices>>

(* Bytes of a file, entries of a directory.                                *)
length(ino) == CASE ino = "f" -> Length [] ino = "root" -> 2 [] OTHER -> 0

(* Mutant of do_read: the end of the file is beyond it.                    *)
do_read_at_end(ino, offs, count) ==
  CASE offs >= length(ino) -> -1
    [] offs < length(ino) /\ offs + count > length(ino) -> length(ino) - offs
    [] OTHER -> count

(* What do_read returns; it moves the position on by as much itself.       *)
do_read(ino, offs, count) ==
  CASE offs > length(ino) -> -1
    [] offs <= length(ino) /\ offs + count > length(ino) -> length(ino) - offs
    [] OTHER -> count

(* vfs_read adds what do_read returned to the position, be it -1 or what   *)
(* do_read has added before.                                               *)
vfs_read(file, n) ==
  /\ heap' = [heap EXCEPT !.pos[file] = IF n < 0 THEN @ + n ELSE @ + n + n]
  /\ upto' = [upto EXCEPT ![file] = IF n < 0 THEN @ ELSE heap.pos[file] + n]

sys_read(file, count) ==
  IF file # NoFile /\ heap.inode[file] \in initrd_inodes
  THEN vfs_read(file, do_read(heap.inode[file], heap.pos[file], count))
  ELSE UNCHANGED <<heap, upto>>

SysRead ==
  /\ \E p \in Live : \E fd \in Fds(p), count \in ReadSizes : sys_read(fd2file(p, fd), count)
  /\ UNCHANGED <<fs_error, files, devices>>

(* The two readdir: the index is counted through the entries, and devfs    *)
(* again leaves fs_error alone.                                            *)
id_readdir(ino, index, error) ==
  IF index < length(ino) THEN Found(ino, error) ELSE Found(NoInode, -ENOENT)

readdir(index, error) ==
  Found(IF index < Cardinality(devices) THEN "devfs_root" ELSE NoInode, error)

vfs_readdir(at, index) ==
  CASE at.inode \notin DIR -> Found(NoInode, -EINVAL)
    [] at.inode \in DIR \cap initrd_inodes -> id_readdir(at.inode, index, at.error)
    [] at.inode = "devfs_root" -> readdir(index, at.error)
    [] OTHER -> Found(NoInode, -ENOSYS)

(* The result of a directory that is found is fs_error, or 0.              *)
sys_readdir(at, index) ==
  fs_error' = IF at.inode = NoInode THEN at.error ELSE vfs_readdir(at, index).error

SysReaddir ==
  /\ \E path \in DirPaths, index \in {0, 2} : sys_readdir(vfs_lookup(path), index)
  /\ UNCHANGED <<heap, files, devices, upto>>

Room(fds) == Cardinality(File \ heap.used) >= Cardinality(fds)

(* The standard files, those that are not open; at is the terminal.        *)
StdFds(p) == {fd \in 1 .. NumStd : files[p][fd] = NoFile}

OpenStd(p, new, at) ==
  /\ heap' = vfs_open(Range(new), at.inode)
  /\ files' = [files EXCEPT ![p] = [fd \in DOMAIN @ |-> IF fd \in DOMAIN new THEN new[fd] ELSE @[fd]]]
  /\ upto' = [f \in File |-> IF f \in Range(new) THEN 0 ELSE upto[f]]
  /\ fs_error' = at.error

sys_open_std(p, at) ==
  IF at.inode = NoInode
  THEN /\ fs_error' = IF StdFds(p) = {} THEN at.error ELSE -EINVAL
       /\ UNCHANGED <<heap, files, upto>>
  ELSE Room(StdFds(p)) /\ OpenStd(p, kmalloc_files(StdFds(p)), at)

SysOpenStd ==
  /\ \E p \in Live : sys_open_std(p, vfs_lookup(<<"dev", StdDevice>>))
  /\ UNCHANGED devices

vfs_create_procdata == [fd \in 1 .. NumFiles |-> NoFile]

(* init_proc: the new process has no files.  Looking up the directory it   *)
(* inherits, /, changes nothing.                                           *)
Spawn ==
  /\ \E q \in UserProc \ Live :
       files' = [p \in Live \cup {q} |-> IF p = q THEN vfs_create_procdata ELSE files[p]]
  /\ UNCHANGED <<fs_error, heap, devices, upto>>

(* Mutant of vfs_clone_procdata: the child gets the parent's files.        *)
vfs_clone_procdata_shared(p, q, new) ==
  /\ files' = [x \in Live \cup {q} |-> IF x # q THEN files[x] ELSE files[p]]
  /\ UNCHANGED <<heap, upto>>

(* What a field of the file objects is after vfs_dup with def_dup made     *)
(* each new file from one of the parent's.                                 *)
vfs_dup(field, from) == [f \in File |-> field[IF f \in DOMAIN from THEN from[f] ELSE f]]

vfs_clone_procdata(p, q, new) ==
  LET from == [f \in Range(new) |-> files[p][CHOOSE fd \in DOMAIN new : new[fd] = f]]
  IN  /\ files' = [x \in Live \cup {q} |->
                     IF x # q THEN files[x]
                     ELSE [fd \in DOMAIN files[p] |-> IF fd \in DOMAIN new THEN new[fd] ELSE NoFile]]
      /\ heap' = [used |-> heap.used \cup Range(new),
                  inode |-> vfs_dup(heap.inode, from), pos |-> vfs_dup(heap.pos, from)]
      /\ upto' = vfs_dup(upto, from)

OpenFds(p) == {fd \in DOMAIN files[p] : files[p][fd] # NoFile}

Fork ==
  /\ \E p \in Live, q \in UserProc \ Live :
       Room(OpenFds(p)) /\ vfs_clone_procdata(p, q, kmalloc_files(OpenFds(p)))
  /\ UNCHANGED <<fs_error, devices>>

(* pm_destroy leaves fs_data alone: the open files are lost.               *)
Exit ==
  /\ \E p \in Live \ {FirstProc} :
       /\ files' = [q \in Live \ {p} |-> files[q]]
       /\ heap' = Forget(heap, Range(files[p])) /\ ForgetRead(Range(files[p]))
  /\ UNCHANGED <<fs_error, devices>>

devfs_register ==
  /\ \E d \in Device \ devices : devices' = devices \cup {d}
  /\ UNCHANGED <<fs_error, heap, files, upto>>

devfs_unregister ==
  /\ \E d \in devices : devices' = devices \ {d}
  /\ UNCHANGED <<fs_error, heap, files, upto>>

VfsInit ==
  /\ fs_error = -ENOSYS
  /\ heap = [used |-> {}, inode |-> [f \in File |-> NoInode], pos |-> [f \in File |-> 0]]
  /\ files = [p \in {FirstProc} |-> vfs_create_procdata]
  /\ devices = {} /\ upto = [f \in File |-> 0]

VfsNext ==
  \/ SysOpen \/ SysClose \/ SysRead \/ SysReaddir \/ SysOpenStd
  \/ Spawn \/ Fork \/ Exit \/ devfs_register \/ devfs_unregister

VfsSpec == VfsInit /\ [][VfsNext]_vfsVars
-----------------------------------------------------------------------------
(* No two descriptors, of one process or of two, stand for the same file   *)
(* object, and every descriptor's object is allocated and has an inode:    *)
(* whatever processes close, fork and leave behind, no read or close of    *)
(* one moves or frees the file of another, nor a file twice.               *)
FilesPrivate ==
  /\ \A p, q \in Live : \A i \in OpenFds(p), j \in OpenFds(q) :
       files[p][i] = files[q][j] => p = q /\ i = j
  /\ \A p \in Live : \A i \in OpenFds(p) :
       files[p][i] \in heap.used /\ heap.inode[files[p][i]] # NoInode

(* Through the two mounts, /dev/d is found if d is registered and only     *)
(* then, and /dev does not hide the files of the initrd.                   *)
LookupExact ==
  /\ \A d \in Device : vfs_lookup(<<"dev", d>>).inode = IF d \in devices THEN d ELSE NoInode
  /\ vfs_lookup(<<"f">>).inode = "f" /\ vfs_lookup(<<"dev">>).inode = "devfs_root"

(* The position of a file is never before the end of what was read from it *)
(* last, though read adds its result to it twice, and a result of -1 too:  *)
(* no byte of the initrd is handed out twice through one descriptor.       *)
DataOnce == \A p \in Live : \A i \in OpenFds(p) : upto[files[p][i]] <= heap.pos[files[p][i]]

=============================================================================
