----------------------------- MODULE SyscallFile -----------------------------
(***************************************************************************)
(* The file system calls of Syscall_File.c: a table of open files shared   *)
(* by all processes, over the FAT32 driver.  A call runs to its end before *)
(* another process runs, and is one step; disk commands fail as in FAT32,  *)
(* and kmalloc may fail.                                                   *)
(***************************************************************************)
EXTENDS FAT32

CONSTANTS
    FILE_MAX_FD,
    NAME_LEN, EXT_LEN,        \* 8 and 3
    Good, GoodWrite,          \* how many disk commands succeed, see FAT32
    Paths, Lengths, Buffers   \* arguments of the programs

VARIABLES disk, g_files, ret

vars == <<disk, g_files, ret>>

Fds == 0 .. FILE_MAX_FD - 1
Unused == [used |-> FALSE]

to_upper_ascii(c) == IF c = "a" THEN "A" ELSE IF c = "b" THEN "B" ELSE c

Padded(s, n) == [i \in 1 .. n |-> IF i <= Len(s) THEN to_upper_ascii(s[i]) ELSE " "]

\* path_to_fat83: the set of the name produced; empty for "false".
path_to_fat83(path) ==
    LET dots == {i \in DOMAIN path : path[i] = "."}
        dot == IF dots = {} THEN Len(path) + 1 ELSE Min(dots)
        name == SubSeq(path, 1, dot - 1)
        ext == SubSeq(path, dot + 1, Len(path))
    IN  IF Cardinality(dots) <= 1 /\ Len(name) \in 1 .. NAME_LEN /\ Len(ext) <= EXT_LEN
          THEN {Padded(name, NAME_LEN) \o Padded(ext, EXT_LEN)}
          ELSE {}

Init ==
    /\ disk \in [Sectors -> {[i \in 0 .. BytesPerSector - 1 |-> 1]}]
    /\ g_files = [fd \in Fds |-> Unused]
    /\ ret = [value |-> 0, data |-> <<>>]

Return(value, data) == ret' = [value |-> value, data |-> data]

Fails == Return(-1, <<>>) /\ UNCHANGED <<disk, g_files>>

IsOpen(fd) == fd \in Fds /\ g_files[fd].used

\* Faulty form: the first slot is taken, used or not.
FreeFd_any(fd) == fd = 0

FreeFd(fd) == ~g_files[fd].used /\ \A e \in 0 .. fd - 1 : g_files[e].used

syscall_file_open(path, writable) ==
    \E good \in Good :
    LET files == UNION {fat32_find_file(name, good) : name \in path_to_fat83(path)}
    IN  \/ /\ files = {} \/ \A fd \in Fds : ~FreeFd(fd)
           /\ Fails
        \/ \E file \in files, fd \in Fds :
              /\ FreeFd(fd)
              /\ g_files' = [g_files EXCEPT ![fd] =
                                [used |-> TRUE, writable |-> writable,
                                 file |-> file, offset |-> 0]]
              /\ Return(fd, <<>>)
              /\ UNCHANGED disk

\* Bytes between the offset and the end of the file, at most len.
ToTransfer(f, len) ==
    LET remaining == f.file.size - f.offset IN IF len < remaining THEN len ELSE remaining

\* Nothing is asked for, or the offset is at the end of the file.
NothingToDo(f, len) == len = 0 \/ f.offset >= f.file.size

Nothing == Return(0, <<>>) /\ UNCHANGED <<disk, g_files>>

\* The last Fails is a kmalloc that returned NULL, at any time.
syscall_file_read(fd, len) ==
    \/ ~IsOpen(fd) /\ Fails
    \/ IsOpen(fd) /\ NothingToDo(g_files[fd], len) /\ Nothing
    \/ /\ IsOpen(fd) /\ ~NothingToDo(g_files[fd], len)
       /\ \/ Fails
          \/ \E good \in Good :
                LET f == g_files[fd]
                    n == ToTransfer(f, len)
                    all_data == fat32_read_file(disk, f.file, good)
                IN  IF ~all_data.ok
                      THEN Fails
                      ELSE /\ Return(n, SubSeq(all_data.data, f.offset + 1, f.offset + n))
                           /\ g_files' = [g_files EXCEPT ![fd].offset = @ + n]
                           /\ UNCHANGED disk

\* memcpy(all_data + offset, buffer, n)
Overwritten(all_data, offset, buffer, n) ==
    [i \in DOMAIN all_data |->
        IF i - offset \in 1 .. n THEN buffer[i - offset] ELSE all_data[i]]

MayWrite(fd) == IsOpen(fd) /\ g_files[fd].writable

\* fat32_write_file of the changed data, and what follows it.
WriteBack(fd, all_data, buffer, n, good) ==
    LET f == g_files[fd]
        written == fat32_write_file(disk, f.file,
                      Overwritten(all_data, f.offset, buffer, n), good)
    IN  /\ disk' = written.disk
        /\ IF written.ok
             THEN /\ Return(n, <<>>)
                  /\ g_files' = [g_files EXCEPT ![fd].offset = @ + n]
             ELSE /\ Return(-1, <<>>)
                  /\ UNCHANGED g_files

syscall_file_write(fd, buffer) ==
    \/ ~MayWrite(fd) /\ Fails
    \/ MayWrite(fd) /\ NothingToDo(g_files[fd], Len(buffer)) /\ Nothing
    \/ /\ MayWrite(fd) /\ ~NothingToDo(g_files[fd], Len(buffer))
       /\ \/ Fails
          \/ \E good \in Good :
                LET all_data == fat32_read_file(disk, g_files[fd].file, good)
                    n == ToTransfer(g_files[fd], Len(buffer))
                IN  IF ~all_data.ok
                      THEN Fails
                      ELSE \E good_write \in GoodWrite :
                              WriteBack(fd, all_data.data, buffer, n, good_write)

syscall_file_close(fd) ==
    IF ~IsOpen(fd) THEN Fails
    ELSE /\ g_files' = [g_files EXCEPT ![fd] = Unused]
         /\ Return(0, <<>>)
         /\ UNCHANGED disk

AnyFd == -1 .. FILE_MAX_FD

Next ==
    \/ \E path \in Paths, writable \in BOOLEAN : syscall_file_open(path, writable)
    \/ \E fd \in AnyFd :
          \/ \E len \in Lengths : syscall_file_read(fd, len)
          \/ \E buffer \in Buffers : syscall_file_write(fd, buffer)
          \/ syscall_file_close(fd)

Spec == Init /\ [][Next]_vars
-----------------------------------------------------------------------------
(* Properties *)

\* The files of the volume; behind an end mark there is none.
AllEntries ==
    UNION {{RootDir[s][i] : i \in DOMAIN RootDir[s]} : s \in DOMAIN RootDir}
Files == {e \in AllEntries : IsNamed(e)}

\* The clusters of a file in order, as many as its size needs; a file is
\* intact if the table links that many.
Chain(file) ==
    LET next[k \in Nat] ==
          IF k = 0 THEN file.first_cluster
          ELSE IF EndsChain(next[k - 1]) THEN EOC ELSE Fat[next[k - 1]]
    IN  [k \in 1 .. (file.size + ClusterSize - 1) \div ClusterSize |-> next[k - 1]]
IntactFiles == {f \in Files : \A k \in DOMAIN Chain(f) : ~EndsChain(Chain(f)[k])}
Intact(file) == file \in IntactFiles

\* Where the bytes of the intact files, counted from 1, are on the disk.
Places ==
    [f \in IntactFiles |-> [i \in 1 .. f.size |->
        [sector |-> DataStart
                      + (Chain(f)[(i - 1) \div ClusterSize + 1] - 2) * SectorsPerCluster
                      + (((i - 1) % ClusterSize) \div BytesPerSector),
         pos |-> (i - 1) % BytesPerSector]]]

FileBytes(file) ==
    [i \in 1 .. file.size |->
        IF Intact(file) THEN disk[Places[file][i].sector][Places[file][i].pos] ELSE 0]

\* A path names a file if it is the file's name with its extension, up to
\* the case of its letters.
Trimmed(s) == SelectSeq(s, LAMBDA c : c # " ")
IsNameOf(path, file) ==
    LET upper == [i \in DOMAIN path |-> to_upper_ascii(path[i])]
        base == Trimmed(SubSeq(file.name, 1, NAME_LEN))
        ext == Trimmed(SubSeq(file.name, NAME_LEN + 1, NAME_LEN + EXT_LEN))
    IN  \/ ext = <<>> /\ upper = base
        \/ upper = base \o <<".">> \o ext

Store == INSTANCE FileStore WITH
            PathNames <- IsNameOf, Readable <- Intact,
            Descriptors <- Fds, NoFile <- Unused,
            content <- [f \in Files |-> FileBytes(f)],
            fds <- [fd \in Fds |->
                      IF ~g_files[fd].used THEN Unused
                      ELSE [file |-> g_files[fd].file, offset |-> g_files[fd].offset,
                            writable |-> g_files[fd].writable]]

\* Programs see byte strings: what is read is what is stored at the
\* descriptor's place, a write replaces just that part, a call that returns
\* -1 moves no descriptor and only a failed write changes a file, by a part
\* of its data from the front.  A file whose chain is too short is never
\* read or changed.
ImplementsFileStore == Store!StoreSpec

\* A byte of the disk changes only if it belongs to a file that is open for
\* writing, behind the descriptor's offset: other files, the rest of a file's
\* last sector and the sectors of no file keep what they have, whichever
\* command fails (fat32_write_file reads a sector it does not fill).
WritesStayInside ==
    [][\A s \in Sectors, b \in 0 .. BytesPerSector - 1 :
          disk'[s][b] # disk[s][b] =>
             \E fd \in Fds :
                /\ MayWrite(fd)
                /\ Intact(g_files[fd].file)
                /\ \E i \in g_files[fd].offset + 1 .. g_files[fd].file.size :
                      Places[g_files[fd].file][i] = [sector |-> s, pos |-> b]]_vars

\* Without a failing command the driver reads every intact file as a whole
\* and writes it as a whole, and reports a chain that is too short.
DriverComplete ==
    LET enough == 2 * Cardinality(Sectors) * SectorsPerCluster IN
    \A f \in Files :
        LET r == fat32_read_file(disk, f, enough)
            w == fat32_write_file(disk, f, FileBytes(f), enough)
        IN  /\ r.ok = Intact(f)
            /\ Intact(f) => r.data = FileBytes(f) /\ w = [ok |-> TRUE, disk |-> disk]
=============================================================================
