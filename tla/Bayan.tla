------------------------------- MODULE Bayan -------------------------------
(***************************************************************************)
(* The duplicate finder of HW_8: option_process reads the options, a       *)
(* FileScanner lists the files of the directories asked for, and a         *)
(* DuplicateFinder groups the files of one size by the hashes of their     *)
(* blocks, which it reads one round of blocks at a time and only of files  *)
(* that another one still agrees with.                                     *)
(*                                                                         *)
(* The file system does not change during a run, but looking at it may     *)
(* fail at any time.  A FileInfo is a pair <<i, f>>: file f as listed for  *)
(* the i-th directory to scan, for a file is listed once for each.         *)
(***************************************************************************)
EXTENDS Integers, Sequences, SequencesExt, FiniteSetsExt, FiniteSets

CONSTANTS
    Files, Dirs,    \* the file system: regular files and directories,
    Home,           \* the directory each lies in, itself for a root,
    StartsWith,     \* <<d, e>>: the full path of d starts with that of e
    Digest,         \* of a hash algorithm and a block: a sequence of digits
    Cases           \* bound: the command lines and file contents to start from

AtEnd == "end"      \* what a directory iterator at its end stands on

ASSUME FileSystemAssumption ==
    /\ IsFiniteSet(Files) /\ Files \cap Dirs = {} /\ AtEnd \notin Files \cup Dirs
    /\ Home \in [Files \cup Dirs -> Dirs]

(* A path starts with itself, with the path of the directory it lies in,   *)
(* and with whatever a path it starts with starts with.                    *)
ASSUME PathAssumption ==
    /\ StartsWith \subseteq Dirs \X Dirs
    /\ \A d \in Dirs : <<d, d>> \in StartsWith /\ <<d, Home[d]>> \in StartsWith
    /\ \A p, q \in StartsWith : p[2] = q[1] => <<p[1], q[2]>> \in StartsWith

ASSUME CasesAssumption ==
    \A c \in Cases :
        /\ c.content \in [Files -> Seq(Nat)]
        /\ Len(c.argv.scan_dirs) \in Nat
        /\ c.argv.block_size \in Int /\ c.argv.min_file_size \in Int

(* Every run of bytes of a file has a digest, a text of whatever length.   *)
ASSUME DigestAssumption ==
    \A a \in {"crc32", "md5"} :
        /\ \A b \in DOMAIN Digest[a] : Digest[a][b] \in Seq(Nat)
        /\ \A c \in Cases, f \in Files : \A m, n \in 1 .. Len(c.content[f]) :
              m <= n => SubSeq(c.content[f], m, n) \in DOMAIN Digest[a]

VARIABLES
    argv,           \* the options given, and whether the masks become regexes
    content,        \* the bytes of each file
    faulty,         \* may looking at the file system fail?
    pc, status,     \* where the program is, and its ProcessStatus
    scan,           \* index of the directory being scanned
    unvisited,      \* entries the directory iterator still has before it
    entry,          \* the one it stands on
    files,          \* the FileInfos listed
    todo,           \* sizes whose files are still to be compared
    group,          \* the files of one size that are still compared
    block_idx,      \* the block to be read next
    hashes,         \* the hashes_ of all FileInfos: those computed so far
    duplicate_groups

input == <<argv, content, faulty>>
scanner == <<scan, unvisited, entry, files>>
finder == <<todo, group, block_idx, hashes, duplicate_groups>>
vars == <<input, pc, status, scanner, finder>>

Init ==
    /\ \E c \in Cases : argv = c.argv /\ content = c.content /\ faulty = c.faulty
    /\ pc = "options" /\ status = "SUCCESS"
    /\ scan = 0 /\ unvisited = {} /\ entry = AtEnd /\ files = {}
    /\ todo = {} /\ group = {} /\ block_idx = 0 /\ hashes = <<>>
    /\ duplicate_groups = {}

End(s) == pc' = "done" /\ status' = s

-----------------------------------------------------------------------------
(* option_process.  The help wins over missing and bad values, which are   *)
(* looked at only by notify; a block_size of 0 is accepted.                *)
OptionProcess ==
    /\ pc = "options"
    /\ CASE argv.help -> End("HELP_REQUESTED")
         [] ~argv.help /\ (\/ argv.scan_dirs = <<>>
                           \/ argv.block_size < 0 \/ argv.min_file_size < 0
                           \/ argv.hash_algorithm \notin {"crc32", "md5"}) ->
                End("OPTION_ERROR")
         [] OTHER -> pc' = "constructing" /\ UNCHANGED status
    /\ UNCHANGED <<input, scanner, finder>>

-----------------------------------------------------------------------------
(***************************************************************************)
(*                              FileScanner                                *)
(***************************************************************************)

(* The constructor makes a regular expression of each mask, without regard *)
(* to case: only ".", "*" and "?" are translated, and what else is left in *)
(* it may be none, which ends the program.                                 *)
ConstructScanner ==
    /\ pc = "constructing"
    /\ IF argv.masks_compile THEN pc' = "scanning" /\ UNCHANGED status ELSE End("FILE_ERROR")
    /\ UNCHANGED <<input, scanner, finder>>

Entries(d) == {e \in Files \cup Dirs : Home[e] = d /\ e # d}

\* Mutant of is_excluded: only the directory named itself is excluded.
ExcludedByName(d) == d \in argv.exclude_dirs

(* A directory is excluded if it is spelt as one of exclude_dirs or if its *)
(* path starts with the canonical path of one, which a relative path never *)
(* does.                                                                   *)
is_excluded(d) ==
    \E e \in argv.exclude_dirs : d = e \/ (argv.absolute /\ <<d, e>> \in StartsWith)

(* A mask is the set of file names its regular expression matches.         *)
matches_masks(f) == argv.file_masks = {} \/ \E mask \in argv.file_masks : f \in mask

Size(f) == Len(content[f])

Listed(e) == e \in Files /\ Size(e) >= argv.min_file_size /\ matches_masks(e)

(* scan_directories goes on to the next directory, and skips one that does *)
(* not exist or is excluded.                                               *)
NextDirectory ==
    /\ pc = "scanning" /\ scan < Len(argv.scan_dirs)
    /\ scan' = scan + 1
    /\ LET dir == argv.scan_dirs[scan']
       IN  IF dir \notin Dirs \/ is_excluded(dir)
           THEN UNCHANGED <<pc, unvisited, entry>>
           ELSE /\ pc' = "iterating" /\ unvisited' = Entries(dir)
                /\ entry' \in IF Entries(dir) = {} THEN {AtEnd} ELSE Entries(dir)
    /\ UNCHANGED <<input, status, files, finder>>

(* scan_directory_recursive finds an entry in an excluded directory: it    *)
(* asks the iterator not to go down and continues without moving it on.    *)
SkipExcluded ==
    /\ pc = "iterating" /\ entry # AtEnd
    /\ argv.scan_level /\ is_excluded(Home[entry])
    /\ UNCHANGED vars

\* Mutant of Visit: the iterator stays on a file that is not listed.
VisitWaits ==
    /\ pc = "iterating" /\ entry # AtEnd
    /\ ~(argv.scan_level /\ is_excluded(Home[entry]))
    /\ IF Listed(entry) /\ argv.block_size = 0
       THEN End("killed") /\ UNCHANGED scanner
       ELSE LET below == IF argv.scan_level /\ entry \in Dirs THEN Entries(entry) ELSE {}
                past  == IF Listed(entry) \/ entry \in Dirs THEN {entry} ELSE {}
            IN  /\ files' = files \cup IF Listed(entry) THEN {<<scan, entry>>} ELSE {}
                /\ unvisited' = (unvisited \ past) \cup below
                /\ entry' \in IF unvisited' = {} THEN {AtEnd} ELSE unvisited'
                /\ UNCHANGED <<pc, status, scan>>
    /\ UNCHANGED <<input, finder>>

(* The loops over the entries of one directory, and below it if scan_level *)
(* is set, in an order the file system chooses.  A FileInfo divides by     *)
(* block_size, a trap if it is 0.                                          *)
Visit ==
    /\ pc = "iterating" /\ entry # AtEnd
    /\ ~(argv.scan_level /\ is_excluded(Home[entry]))
    /\ IF Listed(entry) /\ argv.block_size = 0
       THEN End("killed") /\ UNCHANGED scanner
       ELSE LET below == IF argv.scan_level /\ entry \in Dirs THEN Entries(entry) ELSE {}
            IN  /\ files' = files \cup IF Listed(entry) THEN {<<scan, entry>>} ELSE {}
                /\ unvisited' = (unvisited \ {entry}) \cup below
                /\ entry' \in IF unvisited' = {} THEN {AtEnd} ELSE unvisited'
                /\ UNCHANGED <<pc, status, scan>>
    /\ UNCHANGED <<input, finder>>

EndOfDirectory ==
    /\ pc = "iterating" /\ entry = AtEnd
    /\ pc' = "scanning"
    /\ UNCHANGED <<input, status, scanner, finder>>

(* A filesystem_error ends the scan of this directory only; between two    *)
(* directories it ends the program.                                        *)
ScanFails ==
    /\ faulty
    /\ \/ /\ pc = "iterating" /\ pc' = "scanning"
          /\ unvisited' = {} /\ entry' = AtEnd
          /\ UNCHANGED <<status, scan, files>>
       \/ /\ pc = "scanning" /\ scan < Len(argv.scan_dirs)
          /\ End("FILE_ERROR") /\ UNCHANGED scanner
    /\ UNCHANGED <<input, finder>>

-----------------------------------------------------------------------------
(***************************************************************************)
(*                            DuplicateFinder                              *)
(***************************************************************************)
OfSize(n) == {i \in files : Size(i[2]) = n}

\* Mutant of num_blocks: the last block is left out if it is not full.
WholeBlocks(size) == size \div argv.block_size

num_blocks(size) == (size + argv.block_size - 1) \div argv.block_size

(* The bytes compute_block_hash reads: fewer than block_size at the end.   *)
BlockOf(f, k) ==
    SubSeq(content[f], k * argv.block_size + 1, Min({Size(f), (k + 1) * argv.block_size}))

(* The text of the digest: in decimal for crc32, so that its length varies.*)
compute_hash(block) == Digest[argv.hash_algorithm][block]

compute_block_hash(i, k) == compute_hash(BlockOf(i[2], k))

(* hashes after compute_block_hash of block k of some files.               *)
WithHashes(read, k) ==
    [x \in DOMAIN hashes \cup (read \X {k}) |->
        IF x \in read \X {k} THEN compute_block_hash(x[1], k) ELSE hashes[x]]

get_hashes(i) == [k \in 1 .. num_blocks(Size(i[2])) |-> hashes[<<i, k - 1>>]]

\* Mutant of StartFinder: sizes of a single file are compared too.
StartWithAll ==
    /\ pc = "scanning" /\ scan = Len(argv.scan_dirs)
    /\ IF files = {} THEN End("SUCCESS") /\ UNCHANGED todo
       ELSE pc' = "grouping" /\ UNCHANGED status /\ todo' = {Size(i[2]) : i \in files}
    /\ UNCHANGED <<input, scanner, group, block_idx, hashes, duplicate_groups>>

StartFinder ==
    /\ pc = "scanning" /\ scan = Len(argv.scan_dirs)
    /\ IF files = {} THEN End("SUCCESS") /\ UNCHANGED todo
       ELSE /\ pc' = "grouping" /\ UNCHANGED status
            /\ todo' = {n \in {Size(i[2]) : i \in files} : Cardinality(OfSize(n)) >= 2}
    /\ UNCHANGED <<input, scanner, group, block_idx, hashes, duplicate_groups>>

(* find_duplicates takes the next size of which there are two files.       *)
NextSize ==
    /\ pc = "grouping" /\ group = {} /\ todo # {}
    /\ \E n \in todo :
          /\ todo' = todo \ {n} /\ group' = OfSize(n) /\ block_idx' = 0
          /\ pc' = IF num_blocks(n) = 0 THEN "reporting" ELSE "reading"
    /\ UNCHANGED <<input, status, scanner, hashes, duplicate_groups>>

\* Mutant of Surviving: files that agree with no other stay in the group.
AllSurvive(k) == group

(* The files that another one of the group agrees with in block k, now     *)
(* back in one group whatever their hash.                                  *)
Surviving(k) ==
    {i \in group : \E j \in group \ {i} : compute_block_hash(i, k) = compute_block_hash(j, k)}

(* A round of find_duplicates_in_group: block block_idx of every file of   *)
(* the group is read and hashed.  A file that does not open ends the       *)
(* program, some of the others read.                                       *)
ReadRound ==
    /\ pc = "reading"
    /\ \/ /\ hashes' = WithHashes(group, block_idx)
          /\ group' = Surviving(block_idx)
          /\ block_idx' = block_idx + 1
          /\ pc' = IF group' = {} \/ block_idx' = num_blocks(Size((CHOOSE i \in group : TRUE)[2]))
                   THEN "reporting" ELSE "reading"
          /\ UNCHANGED status
       \/ /\ faulty /\ block_idx = 0
          /\ \E read \in SUBSET group :
                /\ read # group
                /\ hashes' = WithHashes(read, block_idx)
          /\ End("FILE_ERROR")
          /\ UNCHANGED <<group, block_idx>>
    /\ UNCHANGED <<input, scanner, todo, duplicate_groups>>

(* Files whose hashes, strung together, are equal; a group of one too.     *)
GroupsByHash ==
    {{j \in group : FlattenSeq(get_hashes(j)) = FlattenSeq(get_hashes(i))} : i \in group}

Report ==
    /\ pc = "reporting"
    /\ duplicate_groups' = duplicate_groups \cup GroupsByHash
    /\ group' = {} /\ block_idx' = 0
    /\ pc' = "grouping"
    /\ UNCHANGED <<input, status, scanner, todo, hashes>>

(* process_files prints the groups.                                        *)
Finish ==
    /\ pc = "grouping" /\ group = {} /\ todo = {}
    /\ End("SUCCESS")
    /\ UNCHANGED <<input, scanner, finder>>

Next ==
    \/ OptionProcess \/ ConstructScanner
    \/ NextDirectory \/ SkipExcluded \/ Visit \/ EndOfDirectory \/ ScanFails
    \/ StartFinder \/ NextSize \/ ReadRound \/ Report \/ Finish

Spec == Init /\ [][Next]_vars
LiveSpec == Spec /\ WF_vars(Next)

-----------------------------------------------------------------------------
(***************************************************************************)
(*                              Properties                                 *)
(***************************************************************************)

(* Types, and: the iterator stands on an entry it has before it; only      *)
(* sizes of two or more files are compared, and only files of one size,    *)
(* whose earlier blocks have all been read (bayan.cpp:354, 483, 508).      *)
TypeOK ==
    /\ pc \in {"options", "constructing", "scanning", "iterating", "grouping", "reading",
               "reporting", "done"}
    /\ status \in {"SUCCESS", "HELP_REQUESTED", "OPTION_ERROR", "FILE_ERROR", "killed"}
    /\ scan \in 0 .. Len(argv.scan_dirs)
    /\ unvisited \subseteq Files \cup Dirs /\ entry \in unvisited \cup {AtEnd}
    /\ files \subseteq (1 .. scan) \X Files
    /\ \A n \in todo : Cardinality(OfSize(n)) >= 2
    /\ group \subseteq files /\ \A g \in duplicate_groups : g \subseteq files
    /\ \A i, j \in group : Size(i[2]) = Size(j[2])
    /\ \A i \in group : block_idx \in 0 .. num_blocks(Size(i[2]))
    /\ group \X (0 .. block_idx - 1) \subseteq DOMAIN hashes

(* The directories a file or directory lies in, at any depth: they are in  *)
(* every set that has its directory and the directory of each of its own.  *)
Above(e) ==
    {d \in Dirs : \A S \in SUBSET Dirs :
        (Home[e] \in S /\ \A x \in S : Home[x] \in S) => d \in S}

(* The files that the options ask for, exclusions left aside.              *)
AskedFor ==
    {i \in (1 .. Len(argv.scan_dirs)) \X Files :
        LET dir == argv.scan_dirs[i[1]]
        IN  /\ IF argv.scan_level THEN dir \in Above(i[2]) ELSE dir = Home[i[2]]
            /\ Size(i[2]) >= argv.min_file_size
            /\ argv.file_masks # {} => \E mask \in argv.file_masks : i[2] \in mask}

(* Only files asked for are listed, and with absolute paths none below an  *)
(* excluded directory; once a scan without errors is over, every file      *)
(* asked for is listed whose path does not start, as a text, with the path *)
(* of an excluded directory (bayan.cpp:346-459).                           *)
ListedAsAsked ==
    /\ files \subseteq AskedFor
    /\ argv.absolute => \A i \in files : Above(i[2]) \cap argv.exclude_dirs = {}
    /\ (pc \in {"grouping", "reading", "reporting"} /\ ~faulty) =>
          {i \in AskedFor : \A d \in Above(i[2]), e \in argv.exclude_dirs :
                                <<d, e>> \notin StartsWith} \subseteq files

SameContent(i, j) == content[i[2]] = content[j[2]]

(* The digests of the algorithm are of one length, and differ if the       *)
(* blocks do.                                                              *)
Faithful(digest) ==
    /\ IsInjective(digest)
    /\ \A a, b \in DOMAIN digest : Len(digest[a]) = Len(digest[b])

(* A program that ends well has printed all FileInfos of one content       *)
(* together, and if digests are faithful the groups of two or more are     *)
(* exactly the sets of files of equal content, although the files of       *)
(* different hashes go on in one group after each round                    *)
(* (bayan.cpp:519-545).                                                    *)
GroupsAreClasses ==
    (pc = "done" /\ status = "SUCCESS") =>
        LET classes == {{j \in files : SameContent(i, j)} : i \in files}
            several(sets) == {g \in sets : Cardinality(g) >= 2}
        IN  /\ \A c \in several(classes) : \E g \in duplicate_groups : c \subseteq g
            /\ Faithful(Digest[argv.hash_algorithm]) =>
                  several(duplicate_groups) = several(classes)

(* The blocks of j before the k-th have been read and are those of i.      *)
AgreeBefore(i, j, k) ==
    \A m \in 0 .. k - 1 : <<j, m>> \in DOMAIN hashes /\ BlockOf(j[2], m) = BlockOf(i[2], m)

(* "the file block is read only when necessary" (HW_8/README.md:58): of a  *)
(* file with a peer of its size that agrees with it in all blocks before,  *)
(* for as long as the hashes tell blocks apart (bayan.cpp:483, 522).  That *)
(* holds of the first two blocks, and of all if no more than three files   *)
(* are of that size.  From the third block of four files on the code reads *)
(* more: after two blocks 111, 121, 211 and 221 are different, and with a  *)
(* block_size of 1 the third of each is read, since the files that agreed  *)
(* in the first block with one and in the second with another were merged  *)
(* into one group (bayan.cpp:519-545).                                     *)
BlocksReadWhenNeeded ==
    \A x \in DOMAIN hashes :
        LET peers == OfSize(Size(x[1][2]))
        IN  (/\ IsInjective(Digest[argv.hash_algorithm])
             /\ x[2] <= 1 \/ Cardinality(peers) <= 3) =>
                \E j \in peers \ {x[1]} : AgreeBefore(x[1], j, x[2])

(* Going down from a directory to scan one comes to an excluded directory  *)
(* that is not empty.                                                      *)
NestedExclusion ==
    /\ argv.scan_level
    /\ \E e \in Files \cup Dirs :
          /\ is_excluded(Home[e]) /\ Home[e] # e
          /\ \E d \in Above(Home[e]) : d \in Range(argv.scan_dirs) /\ ~is_excluded(d)

(* Every run ends, unless a recursive scan comes to a directory that is    *)
(* excluded and not empty, where it never moves on (bayan.cpp:358-362).    *)
RunEnds == ~NestedExclusion ~> pc = "done"

(* "Duplicate files will be detected without false positives"              *)
(* (HW_8/README.md:70): a group has two files of one content.  A file that *)
(* has lost its peer to a later block comes out as a group of one.         *)
NoFalsePositives ==
    (pc = "done" /\ status = "SUCCESS") =>
        \A g \in duplicate_groups : \E i, j \in g : i # j /\ SameContent(i, j)
=============================================================================
