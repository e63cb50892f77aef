-------------------------------- MODULE FAT32 --------------------------------
(***************************************************************************)
(* The FAT32 driver of FAT32_Main.c on a volume whose allocation table and *)
(* root directory are fixed (no function in use changes them).             *)
(*                                                                         *)
(* Every disk command may fail, and the first failure ends the function    *)
(* that met it.  "good" is the number of commands that succeed before one  *)
(* fails, so that a function's result is determined by the volume and by   *)
(* "good".  The commands are those of disk_read and disk_write, one per    *)
(* sector.  A sector is a function from byte positions to bytes.           *)
(***************************************************************************)
EXTENDS Integers, Sequences, SequencesExt, FiniteSetsExt

CONSTANTS
    BytesPerSector, SectorsPerCluster, MaxClusters,   \* of the bpb
    DataStart,         \* data_start_lba()
    EOC,               \* 0x0FFFFFF8
    Fat,               \* the allocation table
    RootCluster,
    RootDir,           \* per sector of the root directory, its entries
    Byte

ASSUME FAT32Assumption ==
    /\ {BytesPerSector, SectorsPerCluster, MaxClusters, DataStart} \subseteq Nat \ {0}
    /\ EOC \in Nat /\ EOC > 2
    /\ \A c \in DOMAIN Fat : c \in 2 .. EOC - 1 /\ Fat[c] \in Nat
    /\ RootCluster \in DOMAIN Fat

ClusterSize == SectorsPerCluster * BytesPerSector
Sectors == DataStart .. DataStart + Cardinality(DOMAIN Fat) * SectorsPerCluster - 1

cluster_to_lba(cluster) ==
    IF cluster < 2 THEN 0 ELSE DataStart + (cluster - 2) * SectorsPerCluster

\* A failed disk command looks like the end of the chain.
fat_get_next_cluster(cluster, good) ==
    IF cluster < 2 \/ cluster >= EOC \/ good = 0 THEN EOC ELSE Fat[cluster]

EndsChain(next) == next < 2 \/ next >= EOC

\* The directory entries fat32_find_file compares: not deleted (0xE5), no
\* part of a long name, no volume label.
IsNamed(entry) == entry.kind = "file"

\* fat32_find_file: the set of the entry found; empty for "false".
fat32_find_file(name, good) ==
    LET find[c \in Nat, cluster \in Nat, sec \in Nat, g \in Nat] ==
          LET entries == RootDir[cluster_to_lba(cluster) + sec]
              stops == {i \in DOMAIN entries :
                          \/ entries[i].kind = "end"
                          \/ IsNamed(entries[i]) /\ entries[i].name = name}
              next == fat_get_next_cluster(cluster, g)
          IN  IF sec = SectorsPerCluster
                THEN IF EndsChain(next) \/ c + 1 = MaxClusters
                       THEN {} ELSE find[c + 1, next, 0, g - 1]
                ELSE IF cluster_to_lba(cluster) = 0 \/ g = 0 THEN {}
                ELSE IF stops = {} THEN find[c, cluster, sec + 1, g - 1]
                ELSE {entries[i] : i \in {j \in {Min(stops)} : IsNamed(entries[j])}}
    IN  find[0, RootCluster, 0, good]

\* The n bytes at the start of a cluster.
ClusterBytes(disk, cluster, n) ==
    [i \in 1 .. n |->
        disk[cluster_to_lba(cluster) + ((i - 1) \div BytesPerSector)]
            [(i - 1) % BytesPerSector]]

\* Faulty form: a chain that ends early is taken for the whole file.
fat32_read_file_short(disk, file, good) ==
    LET read[cluster \in Nat, left \in Nat, g \in Nat] ==
          LET n == IF left > ClusterSize THEN ClusterSize ELSE left
              next == fat_get_next_cluster(cluster, g - SectorsPerCluster)
              rest == IF EndsChain(next)
                        THEN [ok |-> TRUE, data |-> [i \in 1 .. left - n |-> 0]]
                        ELSE read[next, left - n, g - SectorsPerCluster - 1]
          IN  IF left = 0 THEN [ok |-> TRUE, data |-> <<>>]
              ELSE IF cluster_to_lba(cluster) = 0 \/ g < SectorsPerCluster
                THEN [ok |-> FALSE, data |-> <<>>]
              ELSE [ok |-> rest.ok, data |-> ClusterBytes(disk, cluster, n) \o rest.data]
    IN  read[file.first_cluster, file.size, good]

fat32_read_file(disk, file, good) ==
    LET read[cluster \in Nat, left \in Nat, g \in Nat] ==
          LET n == IF left > ClusterSize THEN ClusterSize ELSE left
              next == fat_get_next_cluster(cluster, g - SectorsPerCluster)
              rest == IF EndsChain(next)
                        THEN [ok |-> left = n, data |-> <<>>]
                        ELSE read[next, left - n, g - SectorsPerCluster - 1]
          IN  IF left = 0 THEN [ok |-> TRUE, data |-> <<>>]
              ELSE IF cluster_to_lba(cluster) = 0 \/ g < SectorsPerCluster
                THEN [ok |-> FALSE, data |-> <<>>]
              ELSE [ok |-> rest.ok, data |-> ClusterBytes(disk, cluster, n) \o rest.data]
    IN  read[file.first_cluster, file.size, good]

\* The sectors fat32_write_file writes, in order, each with the number of the
\* buffer's bytes it stores there, and whether it got to the end.
SectorWrites(file, good) ==
    LET writes[c \in Nat, cluster \in Nat, sec \in Nat, left \in Nat, g \in Nat] ==
          LET n == IF left > BytesPerSector THEN BytesPerSector ELSE left
              cost == IF n = BytesPerSector THEN 1 ELSE 2
              next == fat_get_next_cluster(cluster, g)
              rest == writes[c, cluster, sec + 1, left - n, g - cost]
          IN  IF left = 0 THEN [ok |-> TRUE, list |-> <<>>]
              ELSE IF sec = SectorsPerCluster
                THEN IF EndsChain(next) \/ c + 1 = MaxClusters
                       THEN [ok |-> FALSE, list |-> <<>>]
                       ELSE writes[c + 1, next, 0, left, g - 1]
              ELSE IF cluster_to_lba(cluster) = 0 \/ g < cost
                THEN [ok |-> FALSE, list |-> <<>>]
              ELSE [ok |-> rest.ok,
                    list |-> <<[lba |-> cluster_to_lba(cluster) + sec, n |-> n,
                                from |-> file.size - left]>> \o rest.list]
    IN  writes[0, file.first_cluster, 0, file.size, good]

\* Faulty form: the last sector is written without reading it first.
StoreSector_no_read(disk, w, buffer) ==
    [disk EXCEPT ![w.lba] =
        [i \in DOMAIN @ |-> IF i < w.n THEN buffer[w.from + i + 1] ELSE 0]]

\* One disk_write; a sector that is not filled was read before.
StoreSector(disk, w, buffer) ==
    [disk EXCEPT ![w.lba] =
        [i \in DOMAIN @ |-> IF i < w.n THEN buffer[w.from + i + 1] ELSE @[i]]]

fat32_write_file(disk, file, buffer, good) ==
    LET w == SectorWrites(file, good)
    IN  [ok |-> w.ok,
         disk |-> FoldLeft(LAMBDA d, e : StoreSector(d, e, buffer), disk, w.list)]
=============================================================================
