------------------------------ MODULE FileStore ------------------------------
(***************************************************************************)
(* What the file system calls promise to programs: files are byte strings  *)
(* of a fixed length, a descriptor is a place in a file, and every call    *)
(* either does its work or returns -1.  Only a failed write may leave      *)
(* something behind, a part of what it was given, from the front.          *)
(***************************************************************************)
EXTENDS Integers, Sequences

CONSTANTS
    Files,             \* the files of the volume
    PathNames(_, _),   \* PathNames(path, f): path is a name of file f
    Readable(_),       \* is the file intact on the volume?
    Descriptors,
    Paths, Lengths, Buffers,
    NoFile

VARIABLES
    content,           \* the bytes of every readable file
    fds,               \* per descriptor, [file, offset, writable] or NoFile
    ret                \* what the last call returned

fsvars == <<content, fds, ret>>

Failed == [value |-> -1, data |-> <<>>]
Returned(n, bytes) == [value |-> n, data |-> bytes]

\* As many bytes as are asked for and as the file still has.
Portion(len, f, offset) ==
    IF len < Len(content[f]) - offset THEN len ELSE Len(content[f]) - offset

Patched(bytes, offset, new) ==
    [i \in DOMAIN bytes |->
        IF i - offset \in DOMAIN new THEN new[i - offset] ELSE bytes[i]]

Fail == ret' = Failed /\ UNCHANGED <<content, fds>>

Open(path, writable) ==
    \E f \in Files, fd \in Descriptors :
        /\ PathNames(path, f)
        /\ fds[fd] = NoFile /\ \A e \in Descriptors : e < fd => fds[e] # NoFile
        /\ fds' = [fds EXCEPT ![fd] = [file |-> f, offset |-> 0, writable |-> writable]]
        /\ ret' = Returned(fd, <<>>)
        /\ UNCHANGED content

Read(fd, len) ==
    /\ fds[fd] # NoFile
    /\ LET f == fds[fd].file
           offset == fds[fd].offset
           n == Portion(len, f, offset)
       IN  /\ n = 0 \/ Readable(f)
           /\ ret' = Returned(n, SubSeq(content[f], offset + 1, offset + n))
           /\ fds' = [fds EXCEPT ![fd].offset = offset + n]
    /\ UNCHANGED content

Write(fd, buffer) ==
    /\ fds[fd] # NoFile /\ fds[fd].writable
    /\ LET f == fds[fd].file
           offset == fds[fd].offset
           n == Portion(Len(buffer), f, offset)
           Store(k) == content' = [content EXCEPT ![f] =
                          Patched(@, offset, SubSeq(buffer, 1, k))]
       IN  \/ /\ n = 0 \/ Readable(f)
              /\ Store(n)
              /\ ret' = Returned(n, <<>>)
              /\ fds' = [fds EXCEPT ![fd].offset = offset + n]
           \/ /\ Readable(f)
              /\ \E k \in 0 .. n : Store(k)
              /\ ret' = Failed
              /\ UNCHANGED fds

Close(fd) ==
    /\ fds[fd] # NoFile
    /\ fds' = [fds EXCEPT ![fd] = NoFile]
    /\ ret' = Returned(0, <<>>)
    /\ UNCHANGED content

StoreInit ==
    /\ fds = [fd \in Descriptors |-> NoFile]
    /\ ret = Returned(0, <<>>)

StoreNext ==
    \/ Fail
    \/ \E path \in Paths, writable \in BOOLEAN : Open(path, writable)
    \/ \E fd \in Descriptors :
          \/ \E len \in Lengths : Read(fd, len)
          \/ \E buffer \in Buffers : Write(fd, buffer)
          \/ Close(fd)

StoreSpec == StoreInit /\ [][StoreNext]_fsvars
=============================================================================
