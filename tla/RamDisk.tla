------------------------------ MODULE RamDisk ------------------------------
(***************************************************************************)
(* The image of the initial ram disk: how share/src/mkinitrd collects a    *)
(* directory tree and writes it, how kernel/fs/initrd.c makes inodes of it *)
(* and how share/src/chkid walks through it.                               *)
(*                                                                         *)
(* Pointers to struct entry are indices of ent, 0 is NULL.  An image is a  *)
(* sequence of cells, one per byte, so that offset o is the cell o + 1: an *)
(* id_entry lies in the first of its EntrySize cells, a name in the first  *)
(* of its own.  made and at are a history: what was scanned, in order, and *)
(* the directories that are open.  The host lists every directory and      *)
(* opens every file with fopen; mkinitrd ends when it does not.            *)
(***************************************************************************)
EXTENDS Integers, SequencesExt

CONSTANTS FileName,     \* names of files and directories
          NameLen,      \* their lengths: a function on FileName
          FileData,     \* contents of files: sequences of bytes
          HeaderSize, EntrySize,
          MaxEntries    \* bound: files and directories in the tree

ASSUME RamDiskAssumption ==
  NameLen \in [FileName -> Nat] /\ {HeaderSize, EntrySize} \subseteq Nat \ {0}

VARIABLE rd

ID_MAGIC     == <<"k", "I", "D">>
ID_VERSION   == 0
ID_TYPE_FILE == 0
ID_TYPE_DIR  == 1
RootName     == CHOOSE n \in FileName : TRUE   \* "initrd-root"

(* What malloc leaves in a field nobody sets.                              *)
Unset == -1
-----------------------------------------------------------------------------
(* Collecting the tree.  A path is << >> for NULL, or <<[data, opens]>>:   *)
(* the contents of the file, and whether it can be opened with CreateFile, *)
(* which asks to have it alone.                                            *)
add_entry(r, e) ==
  LET linked == IF r.cur_entry = 0 THEN r ELSE [r EXCEPT !.ent[r.cur_entry].next = e]
  IN  [linked EXCEPT !.ent[r.cur_dir].files = IF @ = 0 THEN e ELSE @,
                     !.ent[r.cur_dir].count = @ + 1,
                     !.ent[r.cur_dir].last_entry = e]

NewDirEntry(r, name, path, pdir, last) ==
  [r EXCEPT !.ent = Append(@, [name |-> name, path |-> path, files |-> 0, pdir |-> pdir,
                               count |-> 0, next |-> 0, last_entry |-> last])]

id_start_dir(r, name) ==
  LET dir  == Len(r.ent) + 1
      made == NewDirEntry(r, name, << >>, r.cur_dir, Unset)
  IN  [(IF r.cur_dir # 0 THEN add_entry(made, dir) ELSE [made EXCEPT !.root = dir])
         EXCEPT !.cur_dir = dir, !.cur_entry = 0]

id_add_file(r, name, path) ==
  LET file == Len(r.ent) + 1
  IN  [add_entry(NewDirEntry(r, name, <<path>>, 0, 0), file) EXCEPT !.cur_entry = file]

(* Mutant of id_end_dir: the parent's last entry is not looked up.         *)
id_end_dir_forget(r) == [r EXCEPT !.cur_dir = r.ent[r.cur_dir].pdir]

id_end_dir(r) ==
  LET up == r.ent[r.cur_dir].pdir
  IN  [r EXCEPT !.cur_dir = up, !.cur_entry = IF up # 0 THEN r.ent[up].last_entry ELSE @]
-----------------------------------------------------------------------------
(* Writing the image.  The offsets are computed, fwrite appends.           *)
Rest(n) == [i \in 1 .. n |-> [is |-> "rest"]]

ImageCells(first, size) == <<first>> \o Rest(size - 1)

EntryCells(e) == ImageCells([is |-> "entry", e |-> e], EntrySize)
NameCells(n)  == ImageCells([is |-> "name", name |-> n], NameLen[n] + 1)
DataCells(d)  == [i \in DOMAIN d |-> [is |-> "byte", byte |-> d[i]]]

write_header(img) == img \o ImageCells([is |-> "header", magic |-> ID_MAGIC, version |-> ID_VERSION], HeaderSize)

(* The size of a file that cannot be opened is 0.                          *)
file_size(path) == IF path.opens THEN Len(path.data) ELSE 0

(* As many bytes are copied as file_size has found.                        *)
write_file(img, file, offset) ==
  LET data    == SubSeq(file.path[1].data, 1, file_size(file.path[1]))
      namepos == offset + EntrySize
      datapos == namepos + NameLen[file.name] + 1
      newoffs == datapos + Len(data)
      entry   == [type |-> ID_TYPE_FILE, name |-> namepos, count |-> Len(data),
                  content |-> datapos, next |-> IF file.next # 0 THEN newoffs ELSE 0]
  IN  [img |-> img \o EntryCells(entry) \o NameCells(file.name) \o DataCells(data), offs |-> newoffs]

(* The next of a directory is not known before what is in it is written:   *)
(* it is written last, by going back to next_posinfile.                    *)
RECURSIVE write_dir(_, _, _, _), write_files(_, _, _)
write_files(ent, cur, w) ==
  IF cur = 0 THEN w
  ELSE write_files(ent, ent[cur].next,
                   IF ent[cur].path # << >> THEN write_file(w.img, ent[cur], w.offs)
                                            ELSE write_dir(ent, w.img, ent[cur], w.offs))

write_dir(ent, img, dir, offset) ==
  LET namepos == offset + EntrySize
      datapos == namepos + NameLen[dir.name] + 1
      entry   == [type |-> ID_TYPE_DIR, name |-> namepos, count |-> dir.count,
                  content |-> datapos, next |-> 0]
      at      == Len(img) + 1
      w       == write_files(ent, dir.files, [img |-> img \o EntryCells(entry) \o NameCells(dir.name),
                                              offs |-> datapos])
  IN  IF dir.next # 0 THEN [w EXCEPT !.img[at].e.next = w.offs] ELSE w

id_write(r) == write_dir(r.ent, write_header(<< >>), r.ent[r.root], HeaderSize).img
-----------------------------------------------------------------------------
(* The readers.  What is no entry is read as one of a type nobody knows.   *)
EntryAt(img, off) ==
  IF off + 1 \in DOMAIN img /\ img[off + 1].is = "entry" THEN img[off + 1].e
  ELSE [type |-> 2, name |-> 0, count |-> 0, content |-> 0, next |-> 0]

NameAt(img, off) ==
  IF off # 0 /\ off + 1 \in DOMAIN img /\ img[off + 1].is = "name" THEN img[off + 1].name ELSE "<no name>"

check_img(img) == img[1].magic = ID_MAGIC /\ img[1].version = ID_VERSION

new_inode(e, img, flags, impl) ==
  [name |-> NameAt(img, e.name), length |-> e.count, flags |-> flags, impl |-> impl]

Panicked == [name |-> "panic", length |-> 0, flags |-> "panic", impl |-> << >>]

parse_file(e, img) == new_inode(e, img, "FS_FILE", e.content)

RECURSIVE parse_dir(_, _), parse_entries(_, _)
parse_entries(off, img) ==
  LET e == EntryAt(img, off)
  IN  IF off = 0 THEN << >>
      ELSE IF e.type = ID_TYPE_FILE THEN <<parse_file(e, img)>> \o parse_entries(e.next, img)
      ELSE IF e.type = ID_TYPE_DIR THEN <<parse_dir(e, img)>> \o parse_entries(e.next, img)
      ELSE <<Panicked>>

parse_dir(e, img) ==
  IF e.type # ID_TYPE_DIR THEN Panicked
  ELSE new_inode(e, img, "FS_DIR", IF e.count > 0 THEN parse_entries(e.content, img) ELSE << >>)

init_initrd(img) == IF check_img(img) THEN parse_dir(EntryAt(img, HeaderSize), img) ELSE Panicked

(* chkid: what check_dir prints, entry by entry, with its depth.  It goes  *)
(* by the number of entries instead of the last one's next.                *)
RECURSIVE check_dir(_, _, _), check_entries(_, _, _, _)
check_entries(img, n, off, idt) ==
  LET e == EntryAt(img, off)
  IN  IF n = 0 THEN << >>
      ELSE IF e.type = ID_TYPE_FILE
      THEN <<[idt |-> idt, name |-> NameAt(img, e.name)]>> \o check_entries(img, n - 1, e.next, idt)
      ELSE IF e.type = ID_TYPE_DIR
      THEN check_dir(img, off, idt) \o check_entries(img, n - 1, e.next, idt)
      ELSE <<[idt |-> idt, name |-> "abort"]>>

check_dir(img, off, idt) ==
  LET e == EntryAt(img, off)
  IN  <<[idt |-> idt, name |-> NameAt(img, e.name)]>> \o check_entries(img, e.count, e.content, idt + 1)

id_check(img) == check_dir(img, HeaderSize, 0)
-----------------------------------------------------------------------------
(* id_init, and scan_dir of the directory that is asked for.               *)
RamDiskInit ==
  rd = [ent |-> << >>, root |-> 0, cur_dir |-> 0, cur_entry |-> 0,
        img |-> << >>, made |-> << >>, at |-> << >>]

(* scan_dir, one entry of FindNextFile at a time.                          *)
Scanning == rd.cur_dir # 0

(* The host: a directory has no two entries of one name.                   *)
FoundNew(name) ==
  /\ Len(rd.made) < MaxEntries
  /\ \A i \in DOMAIN rd.made : rd.made[i].path # Append(rd.at, name)

ScanRoot == rd.root = 0 /\ rd' = id_start_dir(rd, RootName)

ScanFile ==
  /\ Scanning
  /\ \E name \in FileName, data \in FileData, opens \in BOOLEAN :
       /\ FoundNew(name)
       /\ rd' = [id_add_file(rd, name, [data |-> data, opens |-> opens]) EXCEPT
                   !.made = Append(@, [path |-> Append(rd.at, name),
                                       data |-> <<IF opens THEN data ELSE << >> >>])]

ScanDir ==
  /\ Scanning
  /\ \E name \in FileName :
       /\ FoundNew(name)
       /\ rd' = [id_start_dir(rd, name) EXCEPT
                   !.made = Append(@, [path |-> Append(rd.at, name), data |-> << >>]),
                   !.at = Append(@, name)]

EndDir == Scanning /\ rd' = [id_end_dir(rd) EXCEPT !.at = IF @ = << >> THEN @ ELSE Front(@)]

WriteImage == rd.root # 0 /\ ~Scanning /\ rd.img = << >> /\ rd' = [rd EXCEPT !.img = id_write(rd)]

(* The image is on the disk: whoever reads it finds the same.              *)
ImageDone == rd.img # << >> /\ UNCHANGED rd

RamDiskNext == ScanRoot \/ ScanFile \/ ScanDir \/ EndDir \/ WriteImage \/ ImageDone

RamDiskSpec == RamDiskInit /\ [][RamDiskNext]_rd
-----------------------------------------------------------------------------
(* The files and directories below an inode, in the order of readdir, a    *)
(* file with what do_read copies from it.                                  *)
FileContents(ino, img) == [i \in 1 .. ino.length |-> img[ino.impl + i].byte]

RECURSIVE Listing(_, _, _)
Listing(ino, img, at) ==
  FlattenSeq([i \in DOMAIN ino.impl |->
    LET e    == ino.impl[i]
        path == Append(at, e.name)
    IN  IF e.flags = "FS_DIR"
        THEN <<[path |-> path, data |-> << >>]>> \o Listing(e, img, path)
        ELSE <<[path |-> path, data |-> IF e.flags = "FS_FILE" THEN <<FileContents(e, img)>> ELSE << >>]>>])

(* What mkinitrd scanned is what the kernel finds in the image, with the   *)
(* same contents and in the same order, however directories are nested,    *)
(* empty or last; and chkid, which follows the image in another way,       *)
(* visits the same entries.  A file whose size was not found is there, and *)
(* empty.                                                                  *)
ImageReadBack ==
  rd.img # << >> =>
    /\ init_initrd(rd.img).flags = "FS_DIR"
    /\ Listing(init_initrd(rd.img), rd.img, << >>) = rd.made
    /\ Tail(id_check(rd.img)) =
         [i \in DOMAIN rd.made |-> [idt |-> Len(rd.made[i].path), name |-> Last(rd.made[i].path)]]
=============================================================================
