---------------------------- MODULE BayanProofs ----------------------------
(***************************************************************************)
(* Theorems about Bayan, for any file system, command lines and contents.  *)
(***************************************************************************)
EXTENDS Bayan, BracesProofs

-----------------------------------------------------------------------------
(* What integer division gives.                                            *)
LEMMA DivisionIs ==
    ASSUME NEW a \in Nat, NEW b \in Nat \ {0}
    PROVE  /\ a \div b \in Nat
           /\ b * (a \div b) <= a
           /\ a < b * (a \div b) + b
OBVIOUS

(* A file has a number of blocks.                                          *)
LEMMA BlocksAreNumbered ==
    ASSUME NEW s \in Nat, NEW b \in Nat \ {0}
    PROVE  (s + b - 1) \div b \in Nat
<1>1. s + b - 1 \in Nat
  OBVIOUS
<1> QED BY <1>1, DivisionIs

-----------------------------------------------------------------------------
(***************************************************************************)
(*                                Types                                    *)
(***************************************************************************)

Algorithms == {"crc32", "md5"}

(* What is known of every command line and file contents.                  *)
InputOK ==
    /\ content \in [Files -> Seq(Nat)]
    /\ Len(argv.scan_dirs) \in Nat
    /\ argv.block_size \in Int /\ argv.min_file_size \in Int
    /\ \A a \in Algorithms, f \in Files : \A m, n \in 1 .. Len(content[f]) :
          m <= n => SubSeq(content[f], m, n) \in DOMAIN Digest[a]

(* Options that notify accepts, which the later phases go on with.         *)
OptionsOK ==
    /\ argv.block_size >= 0 /\ argv.min_file_size >= 0
    /\ argv.hash_algorithm \in Algorithms

(* TypeOK, and what the position of the program says of the rest.          *)
TypeInv ==
    /\ InputOK
    /\ TypeOK
    /\ pc \notin {"options", "done"} => OptionsOK
    /\ pc = "iterating" => scan \in 1 .. Len(argv.scan_dirs)
    /\ pc = "iterating" /\ entry = AtEnd => unvisited = {}
    /\ files # {} => argv.block_size \in Nat \ {0}
    /\ todo # {} => pc \in {"grouping", "reading", "reporting", "done"}
    /\ group # {} => pc \in {"reading", "reporting", "done"}
    /\ pc = "reading" =>
          group # {} /\ \A i \in group : block_idx < num_blocks(Size(i[2]))

(* The inputs are never written.                                           *)
LEMMA InputStays ==
    ASSUME InputOK, [Next]_vars
    PROVE  InputOK' /\ argv' = argv /\ content' = content /\ faulty' = faulty
<1>1. argv' = argv /\ content' = content /\ faulty' = faulty
  BY DEF Next, OptionProcess, ConstructScanner, NextDirectory, SkipExcluded, Visit,
         EndOfDirectory, ScanFails, StartFinder, NextSize, ReadRound, Report, Finish,
         vars, input
<1> QED BY <1>1 DEF InputOK

(* The program starts with types respected.                                *)
LEMMA TypeInit ==
    ASSUME Init
    PROVE  TypeInv
<1>1. InputOK
  <2>1. PICK c \in Cases : argv = c.argv /\ content = c.content
    BY DEF Init
  <2> QED BY <2>1, CasesAssumption, DigestAssumption DEF InputOK, Algorithms
<1>2. TypeOK
  <2>1. /\ pc = "options" /\ status = "SUCCESS" /\ scan = 0 /\ unvisited = {}
        /\ entry = AtEnd /\ files = {} /\ todo = {} /\ group = {} /\ block_idx = 0
        /\ duplicate_groups = {}
    BY DEF Init
  <2>2. scan \in 0 .. Len(argv.scan_dirs)
    BY <1>1, <2>1 DEF InputOK
  <2> QED BY <2>1, <2>2, Zenon DEF TypeOK
<1> QED BY <1>1, <1>2 DEF Init, TypeInv


(* TypeOK in two parts.                                                    *)
ScannerTypes ==
    /\ pc \in {"options", "constructing", "scanning", "iterating", "grouping", "reading",
               "reporting", "done"}
    /\ status \in {"SUCCESS", "HELP_REQUESTED", "OPTION_ERROR", "FILE_ERROR", "killed"}
    /\ scan \in 0 .. Len(argv.scan_dirs)
    /\ unvisited \subseteq Files \cup Dirs /\ entry \in unvisited \cup {AtEnd}
    /\ files \subseteq (1 .. scan) \X Files

FinderTypes ==
    /\ \A n \in todo : Cardinality(OfSize(n)) >= 2
    /\ group \subseteq files /\ \A g \in duplicate_groups : g \subseteq files
    /\ \A i, j \in group : Size(i[2]) = Size(j[2])
    /\ \A i \in group : block_idx \in 0 .. num_blocks(Size(i[2]))
    /\ group \X (0 .. block_idx - 1) \subseteq DOMAIN hashes

LEMMA TypeOKParts == TypeOK <=> ScannerTypes /\ FinderTypes
BY DEF TypeOK, ScannerTypes, FinderTypes

(* What TypeInv says of the position of the program.                       *)
Phases ==
    /\ pc \notin {"options", "done"} => OptionsOK
    /\ pc = "iterating" => scan \in 1 .. Len(argv.scan_dirs)
    /\ pc = "iterating" /\ entry = AtEnd => unvisited = {}
    /\ files # {} => argv.block_size \in Nat \ {0}
    /\ todo # {} => pc \in {"grouping", "reading", "reporting", "done"}
    /\ group # {} => pc \in {"reading", "reporting", "done"}

Unread ==
    pc = "reading" => group # {} /\ \A i \in group : block_idx < num_blocks(Size(i[2]))

LEMMA TypeInvParts ==
    TypeInv <=> InputOK /\ ScannerTypes /\ FinderTypes /\ Phases /\ Unread
BY TypeOKParts DEF TypeInv, Phases, Unread

(* Nothing is said of the finder but while it works: a step that leaves    *)
(* it, the contents, and the files listed alone keeps what is.             *)
LEMMA FinderStays ==
    ASSUME FinderTypes, argv' = argv, content' = content, files' = files,
           UNCHANGED finder
    PROVE  FinderTypes'
BY DEF FinderTypes, finder, OfSize, Size, num_blocks

(* What the options end in, and what they have to be to go on.             *)
LEMMA OptionProcessIs ==
    ASSUME InputOK, OptionProcess
    PROVE  /\ pc = "options" /\ UNCHANGED <<input, scanner, finder>>
           /\ \/ pc' = "done" /\ status' \in {"HELP_REQUESTED", "OPTION_ERROR"}
              \/ pc' = "constructing" /\ status' = status /\ OptionsOK
<1>1. pc = "options" /\ UNCHANGED <<input, scanner, finder>>
  BY DEF OptionProcess
<1> DEFINE refused == \/ argv.scan_dirs = <<>>
                      \/ argv.block_size < 0 \/ argv.min_file_size < 0
                      \/ argv.hash_algorithm \notin {"crc32", "md5"}
<1>2. CASE argv.help
  BY <1>1, <1>2, Zenon DEF OptionProcess, End
<1>3. CASE ~argv.help /\ refused
  BY <1>1, <1>3, Zenon DEF OptionProcess, End
<1>4. CASE ~argv.help /\ ~refused
  <2>1. pc' = "constructing" /\ UNCHANGED status
    BY <1>4, Zenon DEF OptionProcess
  <2>2. OptionsOK
    BY <1>4 DEF OptionsOK, Algorithms, InputOK
  <2> QED BY <1>1, <2>1, <2>2
<1> QED BY <1>2, <1>3, <1>4

(* The options keep TypeInv.                                               *)
LEMMA OptionsTypes ==
    ASSUME TypeInv, OptionProcess, InputOK'
    PROVE  TypeInv'
<1>1. InputOK /\ ScannerTypes /\ FinderTypes /\ Phases
  BY TypeInvParts
<1>2. /\ pc = "options" /\ UNCHANGED <<input, scanner, finder>>
      /\ \/ pc' = "done" /\ status' \in {"HELP_REQUESTED", "OPTION_ERROR"}
         \/ pc' = "constructing" /\ status' = status /\ OptionsOK
  BY <1>1, OptionProcessIs
<1>3. FinderTypes'
  BY <1>1, <1>2, FinderStays DEF input, scanner
<1>4. ScannerTypes'
  BY <1>1, <1>2 DEF ScannerTypes, input, scanner
<1>5. Phases'
  BY <1>1, <1>2 DEF Phases, OptionsOK, input, scanner, finder
<1>6. Unread'
  BY <1>2 DEF Unread
<1> QED BY <1>3, <1>4, <1>5, <1>6, TypeInvParts, PTL

(* The constructor of the scanner keeps TypeInv.                           *)
LEMMA ConstructTypes ==
    ASSUME TypeInv, ConstructScanner, InputOK'
    PROVE  TypeInv'
<1>1. InputOK /\ ScannerTypes /\ FinderTypes /\ Phases
  BY TypeInvParts
<1>2. /\ pc = "constructing" /\ UNCHANGED <<input, scanner, finder>>
      /\ \/ pc' = "done" /\ status' = "FILE_ERROR"
         \/ pc' = "scanning" /\ status' = status
  BY DEF ConstructScanner, End
<1>3. FinderTypes'
  BY <1>1, <1>2, FinderStays DEF input, scanner
<1>4. ScannerTypes'
  BY <1>1, <1>2 DEF ScannerTypes, input, scanner
<1>5. Phases'
  BY <1>1, <1>2 DEF Phases, OptionsOK, input, scanner, finder
<1>6. Unread'
  BY <1>2 DEF Unread
<1> QED BY <1>3, <1>4, <1>5, <1>6, TypeInvParts, PTL

(* Going on to the next directory keeps TypeInv.                           *)
LEMMA NextDirectoryTypes ==
    ASSUME TypeInv, NextDirectory, InputOK'
    PROVE  TypeInv'
<1>1. InputOK /\ ScannerTypes /\ FinderTypes /\ Phases
  BY TypeInvParts
<1> DEFINE dir == argv.scan_dirs[scan + 1]
           inside == Entries(dir)
<1>2. /\ pc = "scanning" /\ scan < Len(argv.scan_dirs) /\ scan' = scan + 1
      /\ UNCHANGED <<input, status, files, finder>>
      /\ \/ UNCHANGED <<pc, unvisited, entry>>
         \/ pc' = "iterating" /\ unvisited' = inside
            /\ entry' \in IF inside = {} THEN {AtEnd} ELSE inside
  BY DEF NextDirectory
<1>3. inside \subseteq Files \cup Dirs /\ AtEnd \notin inside
  BY FileSystemAssumption DEF Entries
<1>4. FinderTypes'
  BY <1>1, <1>2, FinderStays DEF input
<1>5. scan' \in 1 .. Len(argv.scan_dirs) /\ scan' = scan + 1 /\ scan \in Nat
  BY <1>1, <1>2 DEF ScannerTypes, InputOK
<1>6. ScannerTypes'
  <2> HIDE DEF inside
  <2>1. files' \subseteq (1 .. scan') \X Files
    BY <1>1, <1>2, <1>5 DEF ScannerTypes
  <2>2. scan' \in 0 .. Len(argv'.scan_dirs)
    BY <1>1, <1>2, <1>5 DEF input, InputOK
  <2>3. unvisited' \subseteq Files \cup Dirs /\ entry' \in unvisited' \cup {AtEnd}
    BY <1>1, <1>2, <1>3 DEF ScannerTypes
  <2> QED BY <1>1, <1>2, <2>1, <2>2, <2>3 DEF ScannerTypes
<1>7. Phases'
  <2> HIDE DEF inside
  <2>1. pc' = "iterating" => scan' \in 1 .. Len(argv'.scan_dirs)
    BY <1>2, <1>5 DEF input
  <2>2. pc' = "iterating" /\ entry' = AtEnd => unvisited' = {}
    BY <1>2, <1>3
  <2> QED BY <1>1, <1>2, <2>1, <2>2 DEF Phases, OptionsOK, input, finder
<1>8. Unread'
  BY <1>2 DEF Unread
<1> QED BY <1>4, <1>6, <1>7, <1>8, TypeInvParts, PTL

(* What Visit does.                                                        *)
LEMMA VisitIs ==
    ASSUME Visit
    PROVE  /\ pc = "iterating" /\ entry # AtEnd /\ UNCHANGED <<input, finder>>
           /\ ~(argv.scan_level /\ is_excluded(Home[entry]))
           /\ \/ /\ Listed(entry) /\ argv.block_size = 0
                 /\ pc' = "done" /\ status' = "killed" /\ UNCHANGED scanner
              \/ /\ ~(Listed(entry) /\ argv.block_size = 0)
                 /\ files' = files \cup (IF Listed(entry) THEN {<<scan, entry>>} ELSE {})
                 /\ unvisited' = (unvisited \ {entry}) \cup
                       (IF argv.scan_level /\ entry \in Dirs THEN Entries(entry) ELSE {})
                 /\ entry' \in IF unvisited' = {} THEN {AtEnd} ELSE unvisited'
                 /\ UNCHANGED <<pc, status, scan>>
BY Zenon DEF Visit, End

(* A visit keeps TypeInv.                                                  *)
LEMMA VisitTypes ==
    ASSUME TypeInv, Visit, InputOK'
    PROVE  TypeInv'
<1>1. InputOK /\ ScannerTypes /\ FinderTypes /\ Phases
  BY TypeInvParts
<1>2. /\ pc = "iterating" /\ entry # AtEnd /\ UNCHANGED <<input, finder>>
  BY VisitIs
<1>3. Unread'
  <2>1. pc' # "reading"
    BY <1>2, VisitIs
  <2> QED BY <2>1 DEF Unread
<1>4. CASE pc' = "done" /\ status' = "killed" /\ UNCHANGED scanner
  <2>1. FinderTypes'
    BY <1>1, <1>2, <1>4, FinderStays DEF input, scanner
  <2>2. ScannerTypes'
    BY <1>1, <1>2, <1>4 DEF ScannerTypes, input, scanner
  <2>3. Phases'
    BY <1>1, <1>2, <1>4 DEF Phases, OptionsOK, input, scanner, finder
  <2> QED BY <1>3, <2>1, <2>2, <2>3, TypeInvParts, PTL
<1>5. CASE /\ ~(Listed(entry) /\ argv.block_size = 0)
           /\ files' = files \cup (IF Listed(entry) THEN {<<scan, entry>>} ELSE {})
           /\ unvisited' = (unvisited \ {entry}) \cup
                 (IF argv.scan_level /\ entry \in Dirs THEN Entries(entry) ELSE {})
           /\ entry' \in IF unvisited' = {} THEN {AtEnd} ELSE unvisited'
           /\ UNCHANGED <<pc, status, scan>>
  <2>1. todo = {} /\ group = {}
    BY <1>1, <1>2 DEF Phases
  <2>2. files \subseteq files'
    BY <1>5
  <2>3. FinderTypes'
    <3>1. \A g \in duplicate_groups : g \subseteq files'
      BY <1>1, <2>2 DEF FinderTypes
    <3> QED BY <1>2, <2>1, <3>1 DEF FinderTypes, finder
  <2>4. unvisited' \subseteq Files \cup Dirs /\ AtEnd \notin unvisited'
    BY <1>1, <1>5, FileSystemAssumption DEF ScannerTypes, Entries
  <2>5. scan \in 1 .. Len(argv.scan_dirs) /\ Len(argv.scan_dirs) \in Nat
    BY <1>1, <1>2 DEF Phases, InputOK
  <2>6. Listed(entry) => argv.block_size \in Nat \ {0}
    BY <1>1, <1>2, <1>5 DEF Phases, OptionsOK, InputOK
  <2>7. files' \subseteq (1 .. scan) \X Files
    <3>1. files \subseteq (1 .. scan) \X Files
      BY <1>1 DEF ScannerTypes
    <3>2. Listed(entry) => <<scan, entry>> \in (1 .. scan) \X Files
      BY <2>5 DEF Listed
    <3> QED BY <1>5, <3>1, <3>2
  <2>8. ScannerTypes'
    <3>1. entry' \in unvisited' \cup {AtEnd}
      BY <1>5
    <3> QED BY <1>1, <1>2, <1>5, <2>4, <2>7, <3>1 DEF ScannerTypes, input
  <2>9. Phases'
    <3>1. files' # {} => argv.block_size \in Nat \ {0}
      BY <1>1, <1>5, <2>6 DEF Phases
    <3>2. pc' = "iterating" /\ entry' = AtEnd => unvisited' = {}
      BY <1>5, <2>4
    <3> QED BY <1>1, <1>2, <1>5, <2>1, <3>1, <3>2 DEF Phases, OptionsOK, input, finder
  <2> QED BY <1>3, <2>3, <2>8, <2>9, TypeInvParts, PTL
<1> QED BY <1>4, <1>5, VisitIs, Zenon

(* The end of a directory and a failing scan keep TypeInv.                 *)
LEMMA EndOfScanTypes ==
    ASSUME TypeInv, EndOfDirectory \/ ScanFails, InputOK'
    PROVE  TypeInv'
<1>1. InputOK /\ ScannerTypes /\ FinderTypes /\ Phases
  BY TypeInvParts
<1>2. /\ UNCHANGED <<input, scan, files, finder>>
      /\ \/ pc = "iterating" /\ pc' = "scanning" /\ UNCHANGED status
         \/ pc = "scanning" /\ pc' = "done" /\ status' = "FILE_ERROR"
      /\ \/ UNCHANGED <<unvisited, entry>>
         \/ unvisited' = {} /\ entry' = AtEnd
  BY DEF EndOfDirectory, ScanFails, End, scanner
<1>3. FinderTypes'
  BY <1>1, <1>2, FinderStays DEF input, scanner
<1>4. ScannerTypes'
  BY <1>1, <1>2 DEF ScannerTypes, input, scanner
<1>5. Phases'
  BY <1>1, <1>2 DEF Phases, OptionsOK, input, scanner, finder
<1>6. Unread'
  BY <1>2 DEF Unread
<1> QED BY <1>3, <1>4, <1>5, <1>6, TypeInvParts, PTL

(* The finder starts with TypeInv kept.                                    *)
LEMMA StartTypes ==
    ASSUME TypeInv, StartFinder, InputOK'
    PROVE  TypeInv'
<1>1. InputOK /\ ScannerTypes /\ FinderTypes /\ Phases
  BY TypeInvParts
<1>2. /\ pc = "scanning" /\ UNCHANGED <<input, scanner>>
      /\ UNCHANGED <<group, block_idx, hashes, duplicate_groups>>
      /\ \/ pc' = "done" /\ status' = "SUCCESS" /\ UNCHANGED todo
         \/ /\ pc' = "grouping" /\ UNCHANGED status
            /\ todo' = {n \in {Size(i[2]) : i \in files} : Cardinality(OfSize(n)) >= 2}
  BY DEF StartFinder, End
<1>3. todo = {} /\ group = {}
  BY <1>1, <1>2 DEF Phases
<1>4. FinderTypes'
  <2>1. files' = files /\ content' = content
    BY <1>2 DEF input, scanner
  <2>2. \A n \in todo' : Cardinality(OfSize(n)) >= 2
    BY <1>2, <1>3
  <2>3. \A n : OfSize(n)' = OfSize(n)
    BY <2>1 DEF OfSize, Size
  <2>4. \A n \in todo' : Cardinality(OfSize(n)') >= 2
    BY <2>2, <2>3
  <2> QED BY <1>1, <1>2, <1>3, <2>1, <2>4 DEF FinderTypes
<1>5. ScannerTypes'
  BY <1>1, <1>2 DEF ScannerTypes, input, scanner
<1>6. Phases'
  BY <1>1, <1>2, <1>3 DEF Phases, OptionsOK, input, scanner
<1>7. Unread'
  BY <1>2 DEF Unread
<1> QED BY <1>4, <1>5, <1>6, <1>7, TypeInvParts, PTL

(* The blocks of a listed file are numbered.                               *)
LEMMA ListedBlocks ==
    ASSUME TypeInv, NEW i \in files
    PROVE  /\ i[2] \in Files /\ Size(i[2]) \in Nat
           /\ argv.block_size \in Nat \ {0} /\ num_blocks(Size(i[2])) \in Nat
<1>1. i[2] \in Files
  BY TypeInvParts DEF ScannerTypes
<1>2. Size(i[2]) \in Nat
  BY <1>1, TypeInvParts DEF InputOK, Size
<1>3. argv.block_size \in Nat \ {0}
  BY TypeInvParts DEF Phases
<1>4. num_blocks(Size(i[2])) \in Nat
  BY <1>2, <1>3, BlocksAreNumbered DEF num_blocks
<1> QED BY <1>1, <1>2, <1>3, <1>4

(* Taking the next size keeps TypeInv.                                     *)
LEMMA NextSizeTypes ==
    ASSUME TypeInv, NextSize, InputOK'
    PROVE  TypeInv'
<1>1. InputOK /\ ScannerTypes /\ FinderTypes /\ Phases
  BY TypeInvParts
<1>2. PICK n \in todo :
         /\ todo' = todo \ {n} /\ group' = OfSize(n) /\ block_idx' = 0
         /\ pc' = IF num_blocks(n) = 0 THEN "reporting" ELSE "reading"
  BY DEF NextSize
<1>3. pc = "grouping" /\ UNCHANGED <<input, status, scanner, hashes, duplicate_groups>>
  BY DEF NextSize
<1>4. files' = files /\ content' = content /\ argv' = argv
  BY <1>3 DEF input, scanner
<1>5. /\ \A m : OfSize(m)' = OfSize(m)
      /\ \A f : Size(f)' = Size(f)
      /\ \A s : num_blocks(s)' = num_blocks(s)
  BY <1>4 DEF OfSize, Size, num_blocks
<1>6. \A i \in group' : /\ i \in files /\ Size(i[2]) = n /\ num_blocks(n) \in Nat
  BY <1>2, ListedBlocks DEF OfSize
<1>7. FinderTypes'
  <2>1. \A m \in todo' : Cardinality(OfSize(m)') >= 2
    BY <1>1, <1>2, <1>5 DEF FinderTypes
  <2>2. group' \subseteq files'
    BY <1>4, <1>6
  <2>3. \A i, j \in group' : Size(i[2])' = Size(j[2])'
    BY <1>5, <1>6
  <2>4. \A i \in group' : block_idx' \in 0 .. num_blocks(Size(i[2]))'
    BY <1>2, <1>5, <1>6
  <2>5. group' \X (0 .. block_idx' - 1) \subseteq DOMAIN hashes'
    BY <1>2
  <2> QED BY <1>1, <1>3, <1>4, <2>1, <2>2, <2>3, <2>4, <2>5 DEF FinderTypes
<1>8. ScannerTypes'
  BY <1>1, <1>2, <1>3 DEF ScannerTypes, input, scanner
<1>9. Phases'
  BY <1>1, <1>2, <1>3 DEF Phases, OptionsOK, input, scanner
<1>10. Unread'
  <2>1. Cardinality(OfSize(n)) >= 2
    BY <1>1, <1>2 DEF FinderTypes
  <2>2. group' # {}
    BY <1>2, <2>1, FS_EmptySet
  <2>3. pc' = "reading" => \A i \in group' : block_idx' < num_blocks(Size(i[2]))'
    BY <1>2, <1>5, <1>6
  <2> QED BY <2>2, <2>3 DEF Unread
<1> QED BY <1>7, <1>8, <1>9, <1>10, TypeInvParts, PTL

(* The hashes read are added to those there are.                           *)
LEMMA WithHashesIs ==
    ASSUME NEW read, NEW k
    PROVE  /\ DOMAIN WithHashes(read, k) = DOMAIN hashes \cup (read \X {k})
           /\ \A i \in read : WithHashes(read, k)[<<i, k>>] = compute_block_hash(i, k)
           /\ \A x \in DOMAIN hashes \ (read \X {k}) : WithHashes(read, k)[x] = hashes[x]
BY DEF WithHashes

(* What a round of reading does.                                           *)
LEMMA ReadRoundIs ==
    ASSUME ReadRound
    PROVE  /\ pc = "reading" /\ UNCHANGED <<input, scanner, todo, duplicate_groups>>
           /\ \/ /\ hashes' = WithHashes(group, block_idx)
                 /\ group' = Surviving(block_idx)
                 /\ block_idx' = block_idx + 1
                 /\ \/ pc' = "reporting"
                       /\ (\/ group' = {}
                           \/ block_idx' = num_blocks(Size((CHOOSE i \in group : TRUE)[2])))
                    \/ /\ pc' = "reading" /\ group' # {}
                       /\ block_idx' # num_blocks(Size((CHOOSE i \in group : TRUE)[2]))
                 /\ UNCHANGED status
              \/ /\ \E read \in SUBSET group : hashes' = WithHashes(read, block_idx)
                 /\ pc' = "done" /\ status' = "FILE_ERROR" /\ block_idx = 0
                 /\ UNCHANGED <<group, block_idx>>
BY Zenon DEF ReadRound, End

(* A round of reading keeps TypeInv.                                       *)
LEMMA ReadRoundTypes ==
    ASSUME TypeInv, ReadRound, InputOK'
    PROVE  TypeInv'
<1>1. InputOK /\ ScannerTypes /\ FinderTypes /\ Phases /\ Unread
  BY TypeInvParts
<1>2. /\ pc = "reading" /\ UNCHANGED <<input, scanner, todo, duplicate_groups>>
      /\ pc' \in {"reading", "reporting", "done"}
      /\ status' = status \/ status' = "FILE_ERROR"
  BY ReadRoundIs
<1>3. files' = files /\ content' = content /\ argv' = argv /\ scan' = scan
      /\ unvisited' = unvisited /\ entry' = entry
  BY <1>2 DEF input, scanner
<1>4. /\ \A m : OfSize(m)' = OfSize(m)
      /\ \A f : Size(f)' = Size(f)
      /\ \A s : num_blocks(s)' = num_blocks(s)
  BY <1>3 DEF OfSize, Size, num_blocks
<1>5. ScannerTypes'
  BY <1>1, <1>2, <1>3 DEF ScannerTypes
<1>6. Phases'
  BY <1>1, <1>2, <1>3 DEF Phases, OptionsOK
<1>7. \A i \in group : /\ Size(i[2]) \in Nat /\ num_blocks(Size(i[2])) \in Nat
                       /\ block_idx \in Nat /\ block_idx < num_blocks(Size(i[2]))
  BY <1>1, <1>2, ListedBlocks DEF FinderTypes, Unread
<1>8. /\ \A m \in todo' : Cardinality(OfSize(m)') >= 2
      /\ \A g \in duplicate_groups' : g \subseteq files'
  BY <1>1, <1>2, <1>3, <1>4 DEF FinderTypes
<1>9. CASE /\ hashes' = WithHashes(group, block_idx)
           /\ group' = Surviving(block_idx)
           /\ block_idx' = block_idx + 1
           /\ \/ pc' = "reporting"
              \/ /\ pc' = "reading" /\ group' # {}
                 /\ block_idx' # num_blocks(Size((CHOOSE i \in group : TRUE)[2]))
  <2>1. group' \subseteq group
    BY <1>9 DEF Surviving
  <2>2. block_idx \in Nat
    BY <1>1, <1>2, <1>7 DEF Unread
  <2>3. FinderTypes'
    <3>1. group' \subseteq files'
      BY <1>1, <1>3, <2>1 DEF FinderTypes
    <3>2. \A i, j \in group' : Size(i[2])' = Size(j[2])'
      BY <1>1, <1>4, <2>1 DEF FinderTypes
    <3>3. \A i \in group' : block_idx' \in 0 .. num_blocks(Size(i[2]))'
      BY <1>4, <1>7, <1>9, <2>1
    <3>4. group' \X (0 .. block_idx' - 1) \subseteq DOMAIN hashes'
      <4>1. DOMAIN hashes' = DOMAIN hashes \cup (group \X {block_idx})
        BY <1>9, WithHashesIs
      <4>2. group \X (0 .. block_idx - 1) \subseteq DOMAIN hashes
        BY <1>1 DEF FinderTypes
      <4>3. 0 .. block_idx' - 1 = (0 .. block_idx - 1) \cup {block_idx}
        BY <1>9, <2>2
      <4> QED BY <2>1, <4>1, <4>2, <4>3
    <3> QED BY <1>8, <3>1, <3>2, <3>3, <3>4 DEF FinderTypes
  <2>4. Unread'
    <3> SUFFICES ASSUME pc' = "reading"
                 PROVE  group' # {} /\ \A i \in group' : block_idx' < num_blocks(Size(i[2]))'
      BY DEF Unread
    <3> DEFINE first == CHOOSE i \in group : TRUE
    <3>1. first \in group
      BY <1>1, <1>2 DEF Unread
    <3>2. block_idx' # num_blocks(Size(first[2])) /\ group' # {}
      BY <1>9
    <3> HIDE DEF first
    <3>3. \A i \in group : Size(i[2]) = Size(first[2])
      BY <1>1, <3>1 DEF FinderTypes
    <3> QED BY <1>4, <1>7, <1>9, <2>1, <3>2, <3>3
  <2> QED BY <1>5, <1>6, <2>3, <2>4, TypeInvParts, PTL
<1>10. CASE /\ \E read \in SUBSET group : hashes' = WithHashes(read, block_idx)
            /\ pc' = "done" /\ UNCHANGED <<group, block_idx>>
  <2>1. DOMAIN hashes \subseteq DOMAIN hashes'
    <3>1. PICK read \in SUBSET group : hashes' = WithHashes(read, block_idx)
      BY <1>10
    <3>2. DOMAIN WithHashes(read, block_idx) = DOMAIN hashes \cup (read \X {block_idx})
      BY WithHashesIs
    <3> QED BY <3>1, <3>2
  <2>2. FinderTypes'
    <3>1. group' \X (0 .. block_idx' - 1) \subseteq DOMAIN hashes'
      BY <1>1, <1>10, <2>1 DEF FinderTypes
    <3> QED BY <1>1, <1>3, <1>4, <1>8, <1>10, <3>1 DEF FinderTypes
  <2>3. Unread'
    BY <1>10 DEF Unread
  <2> QED BY <1>5, <1>6, <2>2, <2>3, TypeInvParts, PTL
<1> QED BY <1>9, <1>10, ReadRoundIs, Zenon

(* A report, and the end, keep TypeInv.                                    *)
LEMMA ReportTypes ==
    ASSUME TypeInv, Report \/ Finish, InputOK'
    PROVE  TypeInv'
<1>1. InputOK /\ ScannerTypes /\ FinderTypes /\ Phases
  BY TypeInvParts
<1>2. /\ UNCHANGED <<input, scanner, todo, hashes>>
      /\ \/ /\ pc = "reporting" /\ pc' = "grouping" /\ status' = status
            /\ duplicate_groups' = duplicate_groups \cup GroupsByHash
         \/ /\ pc = "grouping" /\ pc' = "done" /\ status' = "SUCCESS" /\ group = {}
            /\ duplicate_groups' = duplicate_groups
      /\ group' = {}
  BY DEF Report, Finish, finder, End
<1>3. files' = files /\ content' = content /\ argv' = argv
  BY <1>2 DEF input, scanner
<1>4. \A m : OfSize(m)' = OfSize(m)
  BY <1>3 DEF OfSize, Size
<1>5. \A g \in GroupsByHash : g \subseteq files
  BY <1>1 DEF GroupsByHash, FinderTypes
<1>6. FinderTypes'
  <2>1. \A n \in todo' : Cardinality(OfSize(n)') >= 2
    BY <1>1, <1>2, <1>4 DEF FinderTypes
  <2>2. \A g \in duplicate_groups' : g \subseteq files'
    BY <1>1, <1>2, <1>3, <1>5 DEF FinderTypes
  <2> QED BY <1>2, <2>1, <2>2 DEF FinderTypes
<1>7. ScannerTypes'
  BY <1>1, <1>2 DEF ScannerTypes, input, scanner
<1>8. Phases'
  BY <1>1, <1>2 DEF Phases, OptionsOK, input, scanner
<1>9. Unread'
  BY <1>2 DEF Unread
<1> QED BY <1>6, <1>7, <1>8, <1>9, TypeInvParts, PTL

(* TypeInv is inductive.                                                   *)
LEMMA TypeStep ==
    ASSUME TypeInv, [Next]_vars
    PROVE  TypeInv'
<1>1. InputOK'
  BY InputStays, TypeInvParts
<1>2. CASE UNCHANGED vars
  <2>1. /\ argv' = argv /\ content' = content /\ pc' = pc /\ status' = status
        /\ scan' = scan /\ unvisited' = unvisited /\ entry' = entry /\ files' = files
        /\ todo' = todo /\ group' = group /\ block_idx' = block_idx /\ hashes' = hashes
        /\ duplicate_groups' = duplicate_groups
    BY <1>2 DEF vars, input, scanner, finder
  <2> QED BY <1>1, <2>1 DEF TypeInv, TypeOK, OptionsOK, OfSize, Size, num_blocks
<1>3. ASSUME OptionProcess \/ ConstructScanner \/ NextDirectory PROVE TypeInv'
  BY <1>1, <1>3, OptionsTypes, ConstructTypes, NextDirectoryTypes
<1>4. ASSUME Visit \/ EndOfDirectory \/ ScanFails \/ StartFinder PROVE TypeInv'
  BY <1>1, <1>4, VisitTypes, EndOfScanTypes, StartTypes
<1>5. ASSUME NextSize \/ ReadRound \/ Report \/ Finish PROVE TypeInv'
  BY <1>1, <1>5, NextSizeTypes, ReadRoundTypes, ReportTypes
<1>6. CASE SkipExcluded
  BY <1>2, <1>6 DEF SkipExcluded
<1> QED BY <1>2, <1>3, <1>4, <1>5, <1>6 DEF Next

(* The invariant that every other one is proved from.                      *)
THEOREM TypeInvHolds == Spec => []TypeInv
<1>1. Init => TypeInv
  BY TypeInit
<1>2. TypeInv /\ [Next]_vars => TypeInv'
  BY TypeStep
<1> QED BY <1>1, <1>2, PTL DEF Spec

(* Types are respected: the iterator stands on an entry it has before it,  *)
(* and only sizes of two or more files are compared, of files whose        *)
(* earlier blocks have been read (bayan.cpp:354, 483, 508).                *)
THEOREM TypeCorrect == Spec => []TypeOK
<1>1. TypeInv => TypeOK
  BY DEF TypeInv
<1> QED BY <1>1, TypeInvHolds, PTL

-----------------------------------------------------------------------------
(***************************************************************************)
(*                         Reading when needed                             *)
(***************************************************************************)

(* A set of two elements or more has another one beside each of its own.   *)
LEMMA TwoOrMore ==
    ASSUME NEW S, Cardinality(S) >= 2, NEW i \in S
    PROVE  \E j \in S : j # i
<1> SUFFICES ASSUME \A j \in S : j = i PROVE FALSE
  OBVIOUS
<1>1. S = {i}
  OBVIOUS
<1>2. Cardinality({i}) = 1
  BY FS_Singleton
<1> QED BY <1>1, <1>2

(* Multiples of a number in order.                                         *)
LEMMA MultiplesInOrder ==
    ASSUME NEW j \in Nat, NEW k \in Nat, NEW b \in Nat, j <= k
    PROVE  j * b \in Nat /\ k * b \in Nat /\ j * b <= k * b
OBVIOUS

(* The multiple after one.                                                 *)
LEMMA NextMultiple ==
    ASSUME NEW k \in Nat, NEW b \in Nat
    PROVE  /\ k * b \in Nat /\ (k + 1) * b \in Nat
           /\ (k + 1) * b = k * b + b /\ k * b = b * k
OBVIOUS

(* A block of a file begins in it.                                         *)
LEMMA BlockBegins ==
    ASSUME NEW s \in Nat, NEW b \in Nat \ {0}, NEW k \in Nat, k < (s + b - 1) \div b
    PROVE  k * b \in Nat /\ (k + 1) * b \in Nat /\ k * b + 1 <= s /\ k * b + 1 <= (k + 1) * b
<1> DEFINE q == (s + b - 1) \div b
           kb == k * b
           next == (k + 1) * b
           qb == q * b
<1>1. q \in Nat /\ b * q <= s + b - 1
  <2>1. s + b - 1 \in Nat
    OBVIOUS
  <2> QED BY <2>1, DivisionIs
<1>2. k + 1 <= q
  BY <1>1
<1> HIDE DEF q
<1>3. k + 1 \in Nat
  OBVIOUS
<1>4. next <= qb /\ qb \in Nat
  BY <1>1, <1>2, <1>3, MultiplesInOrder
<1>5. qb = b * q
  BY <1>1, NextMultiple
<1>6. kb \in Nat /\ next \in Nat /\ next = kb + b
  BY NextMultiple
<1>7. qb <= s + b - 1
  BY <1>1, <1>5
<1>8. kb + 1 <= s /\ kb + 1 <= next
  <2> HIDE DEF kb, next, qb
  <2> QED BY <1>4, <1>6, <1>7
<1> QED BY <1>6, <1>8

(* The smaller of two numbers.                                             *)
LEMMA SmallerIs ==
    ASSUME NEW m \in Nat, NEW n \in Nat
    PROVE  Min({m, n}) \in Nat /\ Min({m, n}) = (IF m <= n THEN m ELSE n)
<1> DEFINE s == IF m <= n THEN m ELSE n
<1>1. s \in {m, n} /\ \A y \in {m, n} : s =< y
  OBVIOUS
<1>2. \A x \in {m, n} : (\A y \in {m, n} : x =< y) => x = s
  OBVIOUS
<1>3. Min({m, n}) = s
  <2> HIDE DEF s
  <2> QED BY <1>1, <1>2, Zenon DEF Min
<1>4. s \in Nat
  OBVIOUS
<1> QED BY <1>3, <1>4

(* Where the block read of a file begins and ends.                         *)
LEMMA BlockIs ==
    ASSUME TypeInv, NEW i \in files, NEW k \in Nat, k < num_blocks(Size(i[2]))
    PROVE  \E m, n \in 1 .. Size(i[2]) :
              /\ m = k * argv.block_size + 1 /\ m <= n
              /\ n = (IF Size(i[2]) <= (k + 1) * argv.block_size
                      THEN Size(i[2]) ELSE (k + 1) * argv.block_size)
              /\ BlockOf(i[2], k) = SubSeq(content[i[2]], m, n)
<1> DEFINE s == Size(i[2])
           b == argv.block_size
           m == k * b + 1
           next == (k + 1) * b
           n == IF s <= next THEN s ELSE next
<1>1. s \in Nat /\ b \in Nat \ {0}
  BY ListedBlocks
<1>2. k < (s + b - 1) \div b
  BY DEF num_blocks
<1>3. m \in Nat /\ next \in Nat /\ 1 <= m /\ m <= s /\ m <= next
  <2> HIDE DEF s, b
  <2>1. k * b \in Nat /\ (k + 1) * b \in Nat /\ k * b + 1 <= s /\ k * b + 1 <= (k + 1) * b
    BY <1>1, <1>2, BlockBegins
  <2> QED BY <2>1
<1>4. Min({s, next}) = n
  <2> HIDE DEF s, next
  <2> QED BY <1>1, <1>3, SmallerIs
<1>5. BlockOf(i[2], k) = SubSeq(content[i[2]], m, n)
  BY <1>4 DEF BlockOf
<1>6. m \in 1 .. s /\ n \in 1 .. s /\ m <= n
  <2> HIDE DEF s, next, m
  <2> QED BY <1>1, <1>3
<1> QED BY <1>5, <1>6

(* Every block read has a digest.                                          *)
LEMMA BlockHasDigest ==
    ASSUME TypeInv, argv.hash_algorithm \in Algorithms,
           NEW i \in files, NEW k \in Nat, k < num_blocks(Size(i[2]))
    PROVE  BlockOf(i[2], k) \in DOMAIN Digest[argv.hash_algorithm]
<1>1. i[2] \in Files /\ InputOK
  BY ListedBlocks, TypeInvParts
<1>2. PICK m, n \in 1 .. Size(i[2]) :
         m <= n /\ BlockOf(i[2], k) = SubSeq(content[i[2]], m, n)
  BY BlockIs
<1> QED BY <1>1, <1>2 DEF InputOK, Size

(* A finite set with two elements has two or more.                         *)
LEMMA TwoAreTwo ==
    ASSUME NEW S, IsFiniteSet(S), NEW i \in S, NEW j \in S, i # j
    PROVE  Cardinality(S) >= 2
<1>1. {i, j} \in SUBSET S
  OBVIOUS
<1>2. IsFiniteSet({i}) /\ Cardinality({i}) = 1
  BY FS_Singleton
<1>3. j \notin {i} /\ {i} \cup {j} = {i, j}
  OBVIOUS
<1>4. Cardinality({i} \cup {j}) = 2
  BY <1>2, <1>3, FS_AddElement
<1>5. Cardinality({i, j}) <= Cardinality(S)
  BY <1>1, FS_Subset
<1>6. Cardinality(S) \in Nat
  BY FS_CardinalityType
<1> QED BY <1>3, <1>4, <1>5, <1>6

(* There are finitely many files of a size.                                *)
LEMMA FewOfSize ==
    ASSUME TypeInv, NEW n
    PROVE  IsFiniteSet(OfSize(n))
<1>1. files \subseteq (1 .. scan) \X Files /\ scan \in Nat
  BY TypeInvParts DEF ScannerTypes, InputOK
<1>2. IsFiniteSet(1 .. scan)
  BY <1>1, FS_Interval
<1>3. IsFiniteSet((1 .. scan) \X Files)
  BY <1>2, FileSystemAssumption, FS_Product
<1>4. OfSize(n) \in SUBSET ((1 .. scan) \X Files)
  BY <1>1 DEF OfSize
<1> QED BY <1>3, <1>4, FS_Subset

(* A finite set with four elements has more than three.                    *)
LEMMA FourAreFour ==
    ASSUME NEW S, IsFiniteSet(S), NEW a \in S, NEW b \in S, NEW c \in S, NEW d \in S,
           a # b, a # c, a # d, b # c, b # d, c # d
    PROVE  ~(Cardinality(S) <= 3)
<1>1. IsFiniteSet({a}) /\ Cardinality({a}) = 1
  BY FS_Singleton
<1> DEFINE two == {a} \cup {b}
<1>2. IsFiniteSet(two) /\ Cardinality(two) = 2
  <2>1. b \notin {a}
    OBVIOUS
  <2> QED BY <1>1, <2>1, FS_AddElement
<1> DEFINE three == two \cup {c}
<1>3. c \notin two /\ d \notin three /\ three \cup {d} \in SUBSET S
  OBVIOUS
<1>4. IsFiniteSet(three) /\ Cardinality(three) = 3
  <2> HIDE DEF two
  <2>1. IsFiniteSet(two \cup {c}) /\ Cardinality(two \cup {c}) = Cardinality(two) + 1
    BY <1>2, <1>3, FS_AddElement
  <2> QED BY <1>2, <2>1
<1> HIDE DEF three
<1>5. Cardinality(three \cup {d}) = 4
  <2>1. Cardinality(three \cup {d}) = Cardinality(three) + 1
    BY <1>3, <1>4, FS_AddElement
  <2> QED BY <1>4, <2>1
<1>6. 4 <= Cardinality(S) /\ Cardinality(S) \in Nat
  BY <1>3, <1>5, FS_Subset, FS_CardinalityType
<1> QED BY <1>6

(* While blocks are read, every file compared has a peer in the group,     *)
(* with the same hash of the block before, and if no more than three files *)
(* are of their size all that are compared have had the same hashes: two   *)
(* that differ in a block would each need a peer of their own there.       *)
Peers ==
    pc = "reading" =>
        \A i \in group : \E j \in group \ {i} :
            block_idx > 0 =>
                compute_block_hash(i, block_idx - 1) = compute_block_hash(j, block_idx - 1)

Alike ==
    pc = "reading" =>
        \A i, j \in group :
            Cardinality(OfSize(Size(i[2]))) <= 3 =>
                \A m \in 0 .. block_idx - 1 : compute_block_hash(i, m) = compute_block_hash(j, m)

ReadInv == TypeInv /\ Peers /\ Alike /\ BlocksReadWhenNeeded

(* Contents and options give the hashes, and stay.                         *)
LEMMA HashesStay ==
    ASSUME InputOK, [Next]_vars
    PROVE  /\ argv' = argv /\ content' = content
           /\ \A f : Size(f)' = Size(f)
           /\ \A s : num_blocks(s)' = num_blocks(s)
           /\ \A f, k : BlockOf(f, k)' = BlockOf(f, k)
           /\ \A i, k : compute_block_hash(i, k)' = compute_block_hash(i, k)
<1>1. argv' = argv /\ content' = content
  BY InputStays
<1> QED BY <1>1 DEF Size, num_blocks, BlockOf, compute_block_hash, compute_hash

(* A file about to be read has a peer that agrees with it so far.          *)
LEMMA PeerOfRead ==
    ASSUME TypeInv, Peers, Alike, pc = "reading", NEW i \in group,
           IsInjective(Digest[argv.hash_algorithm]),
           block_idx <= 1 \/ Cardinality(OfSize(Size(i[2]))) <= 3
    PROVE  \E j \in OfSize(Size(i[2])) \ {i} : AgreeBefore(i, j, block_idx)
<1> DEFINE table == Digest[argv.hash_algorithm]
<1>1. PICK j \in group \ {i} :
         block_idx > 0 => compute_block_hash(i, block_idx - 1)
                            = compute_block_hash(j, block_idx - 1)
  BY DEF Peers
<1>2. FinderTypes /\ Phases /\ Unread /\ group \subseteq files
  BY TypeInvParts DEF FinderTypes
<1>3. Size(j[2]) = Size(i[2]) /\ i \in files /\ j \in files /\ j \in OfSize(Size(i[2])) \ {i}
  BY <1>1, <1>2 DEF FinderTypes, OfSize
<1>4. block_idx \in Nat /\ block_idx < num_blocks(Size(i[2])) /\ num_blocks(Size(i[2])) \in Nat
  BY <1>2, <1>3, ListedBlocks DEF FinderTypes, Unread
<1>5. ASSUME NEW m \in 0 .. block_idx - 1
      PROVE  <<j, m>> \in DOMAIN hashes /\ BlockOf(j[2], m) = BlockOf(i[2], m)
  <2>1. m \in Nat /\ m < num_blocks(Size(i[2]))
    BY <1>4
  <2>2. <<j, m>> \in DOMAIN hashes
    BY <1>1, <1>2 DEF FinderTypes
  <2>3. argv.hash_algorithm \in Algorithms
    BY <1>2 DEF Phases, OptionsOK
  <2>4. BlockOf(i[2], m) \in DOMAIN table /\ BlockOf(j[2], m) \in DOMAIN table
    BY <1>3, <2>1, <2>3, BlockHasDigest
  <2>5. compute_block_hash(i, m) = compute_block_hash(j, m)
    <3>1. CASE block_idx <= 1
      <4>1. m = block_idx - 1 /\ block_idx > 0
        BY <1>4, <3>1
      <4> QED BY <1>1, <4>1
    <3>2. CASE Cardinality(OfSize(Size(i[2]))) <= 3
      BY <1>1, <3>2 DEF Alike
    <3> QED BY <3>1, <3>2
  <2>6. table[BlockOf(i[2], m)] = table[BlockOf(j[2], m)]
    BY <2>5 DEF compute_block_hash, compute_hash
  <2> QED BY <2>2, <2>4, <2>6 DEF IsInjective
<1> QED BY <1>3, <1>5 DEF AgreeBefore

Few == \A n : IsFiniteSet(OfSize(n))

LEMMA FewOfEachSize == TypeInv => Few
BY FewOfSize DEF Few

(* The files of a size, finitely many, are not fewer after a step.         *)
LEMMA SizeGrows ==
    ASSUME TypeInv, [Next]_vars, files \subseteq files', NEW n
    PROVE  /\ OfSize(n) \subseteq OfSize(n)'
           /\ Cardinality(OfSize(n)') <= 3 => Cardinality(OfSize(n)) <= 3
<1>1. TypeInv' /\ \A f : Size(f)' = Size(f)
  BY TypeStep, HashesStay, TypeInvParts
<1>2. OfSize(n) \subseteq OfSize(n)'
  BY <1>1 DEF OfSize
<1>3. IsFiniteSet(OfSize(n)) /\ IsFiniteSet(OfSize(n)')
  <2>1. Few'
    BY <1>1, FewOfEachSize, PTL
  <2> QED BY <2>1, FewOfSize, Zenon DEF Few
<1>4. Cardinality(OfSize(n)) <= Cardinality(OfSize(n)')
  BY <1>2, <1>3, FS_Subset
<1>5. Cardinality(OfSize(n)) \in Nat /\ Cardinality(OfSize(n)') \in Nat
  BY <1>3, FS_CardinalityType
<1> QED BY <1>2, <1>4, <1>5

(* What has been read stays read when needed while nothing is read.        *)
LEMMA NeededStays ==
    ASSUME ReadInv, [Next]_vars, hashes' = hashes, files \subseteq files'
    PROVE  BlocksReadWhenNeeded'
<1>1. TypeInv /\ InputOK /\ BlocksReadWhenNeeded
  BY TypeInvParts DEF ReadInv
<1>2. /\ argv' = argv /\ \A f : Size(f)' = Size(f)
      /\ \A f, k : BlockOf(f, k)' = BlockOf(f, k)
  BY <1>1, HashesStay
<1>3. \A i, j, k : AgreeBefore(i, j, k)' <=> AgreeBefore(i, j, k)
  BY <1>2 DEF AgreeBefore
<1>4. ASSUME NEW n
      PROVE  /\ OfSize(n) \subseteq OfSize(n)'
             /\ Cardinality(OfSize(n)') <= 3 => Cardinality(OfSize(n)) <= 3
  BY <1>1, SizeGrows
<1> SUFFICES ASSUME NEW x \in DOMAIN hashes, IsInjective(Digest[argv.hash_algorithm]),
                    NEW n, n = Size(x[1][2]), x[2] <= 1 \/ Cardinality(OfSize(n)') <= 3
             PROVE  \E j \in OfSize(n)' \ {x[1]} : AgreeBefore(x[1], j, x[2])
  BY <1>2, <1>3 DEF BlocksReadWhenNeeded
<1>5. x[2] <= 1 \/ Cardinality(OfSize(n)) <= 3
  BY <1>4
<1>6. PICK j \in OfSize(n) \ {x[1]} : AgreeBefore(x[1], j, x[2])
  BY <1>1, <1>5 DEF BlocksReadWhenNeeded
<1> QED BY <1>4, <1>6

(* Only a round of reading writes hashes.                                  *)
LEMMA OnlyRoundsRead ==
    ASSUME [Next]_vars, ~ReadRound
    PROVE  hashes' = hashes
BY DEF Next, OptionProcess, ConstructScanner, NextDirectory, SkipExcluded, Visit,
       EndOfDirectory, ScanFails, StartFinder, NextSize, Report, Finish, vars, finder

(* Files once listed stay listed, and no file is listed but by a visit.    *)
LEMMA ListedStay ==
    ASSUME [Next]_vars
    PROVE  files \subseteq files' /\ (~Visit => files' = files)
<1>1. ASSUME ~Visit PROVE files' = files
  BY <1>1 DEF Next, OptionProcess, ConstructScanner, NextDirectory, SkipExcluded,
         EndOfDirectory, ScanFails, StartFinder, NextSize, ReadRound, Report, Finish,
         vars, scanner
<1>2. ASSUME Visit PROVE files \subseteq files'
  BY <1>2, VisitIs DEF scanner
<1> QED BY <1>1, <1>2

(* A round of reading reads only files that have a peer.                   *)
LEMMA RoundReadsNeeded ==
    ASSUME ReadInv, ReadRound
    PROVE  BlocksReadWhenNeeded'
<1>1. TypeInv /\ Peers /\ Alike /\ InputOK /\ BlocksReadWhenNeeded /\ [Next]_vars
  BY TypeInvParts DEF ReadInv, Next
<1>2. /\ argv' = argv /\ \A f : Size(f)' = Size(f)
      /\ \A f, k : BlockOf(f, k)' = BlockOf(f, k)
  BY <1>1, HashesStay
<1>3. pc = "reading" /\ files' = files
  BY ReadRoundIs DEF scanner
<1>4. PICK read \in SUBSET group : hashes' = WithHashes(read, block_idx)
  BY ReadRoundIs, Zenon
<1>5. DOMAIN hashes' = DOMAIN hashes \cup (read \X {block_idx})
  <2>1. DOMAIN WithHashes(read, block_idx) = DOMAIN hashes \cup (read \X {block_idx})
    BY WithHashesIs
  <2> QED BY <1>4, <2>1
<1>6. \A i, j, k : AgreeBefore(i, j, k) => AgreeBefore(i, j, k)'
  BY <1>2, <1>5 DEF AgreeBefore
<1>7. \A n : OfSize(n)' = OfSize(n)
  BY <1>2, <1>3 DEF OfSize
<1> SUFFICES ASSUME NEW x \in DOMAIN hashes', IsInjective(Digest[argv.hash_algorithm]),
                    x[2] <= 1 \/ Cardinality(OfSize(Size(x[1][2]))) <= 3
             PROVE  \E j \in OfSize(Size(x[1][2])) \ {x[1]} : AgreeBefore(x[1], j, x[2])
  BY <1>2, <1>6, <1>7 DEF BlocksReadWhenNeeded
<1>8. CASE x \in DOMAIN hashes
  BY <1>1, <1>8 DEF BlocksReadWhenNeeded
<1>9. CASE x \in read \X {block_idx}
  <2>1. x[1] \in group /\ x[2] = block_idx
    BY <1>9
  <2> QED BY <1>1, <1>3, <2>1, PeerOfRead
<1> QED BY <1>5, <1>8, <1>9

(* Only the next size and a round of reading lead to reading.              *)
LEMMA OnlyFinderReads ==
    ASSUME TypeInv, pc' = "reading"
    PROVE  /\ ~OptionProcess /\ ~ConstructScanner /\ ~NextDirectory /\ ~Visit
           /\ ~EndOfDirectory /\ ~ScanFails /\ ~StartFinder /\ ~Report /\ ~Finish
<1>1. ~OptionProcess
  BY OptionProcessIs, TypeInvParts
<1>2. ~Visit
  BY VisitIs
<1> QED BY <1>1, <1>2 DEF ConstructScanner, NextDirectory, EndOfDirectory, ScanFails,
           StartFinder, Report, Finish, End

(* Two files compared that differ in the block just read have two more of  *)
(* their size beside them.                                                 *)
LEMMA DifferentAreFour ==
    ASSUME TypeInv, NEW k, NEW i \in Surviving(k), NEW j \in Surviving(k),
           Cardinality(OfSize(Size(i[2]))) <= 3
    PROVE  compute_block_hash(i, k) = compute_block_hash(j, k)
<1> SUFFICES ASSUME compute_block_hash(i, k) # compute_block_hash(j, k) PROVE FALSE
  OBVIOUS
<1>1. PICK a \in group \ {i} : compute_block_hash(i, k) = compute_block_hash(a, k)
  BY DEF Surviving
<1>2. PICK b \in group \ {j} : compute_block_hash(j, k) = compute_block_hash(b, k)
  BY DEF Surviving
<1>3. i \in group /\ j \in group
  BY DEF Surviving
<1> DEFINE peers == OfSize(Size(i[2]))
<1>4. i \in peers /\ j \in peers /\ a \in peers /\ b \in peers
  BY <1>1, <1>2, <1>3, TypeInvParts DEF FinderTypes, OfSize
<1>5. i # a /\ j # b /\ i # j /\ i # b /\ a # j /\ a # b
  BY <1>1, <1>2
<1>6. IsFiniteSet(peers)
  BY FewOfSize
<1> HIDE DEF peers
<1>7. ~(Cardinality(peers) <= 3)
  BY <1>4, <1>5, <1>6, FourAreFour
<1> QED BY <1>7 DEF peers

(* A step keeps Alike.                                                     *)
LEMMA AlikeStep ==
    ASSUME ReadInv, [Next]_vars
    PROVE  Alike'
<1>1. TypeInv /\ Alike /\ InputOK
  BY TypeInvParts DEF ReadInv
<1>2. /\ \A i, k : compute_block_hash(i, k)' = compute_block_hash(i, k)
      /\ \A f : Size(f)' = Size(f)
  BY <1>1, HashesStay
<1>3. ASSUME files' = files PROVE \A n : OfSize(n)' = OfSize(n)
  BY <1>2, <1>3 DEF OfSize
<1> SUFFICES ASSUME pc' = "reading", NEW i \in group', NEW j \in group',
                    NEW n, n = Size(i[2]), Cardinality(OfSize(n)') <= 3,
                    NEW m \in 0 .. block_idx' - 1
             PROVE  compute_block_hash(i, m) = compute_block_hash(j, m)
  BY <1>2 DEF Alike
<1>4. CASE NextSize
  <2>1. block_idx' = 0
    BY <1>4 DEF NextSize
  <2> QED BY <2>1
<1>5. CASE ReadRound
  <2>1. /\ group' = Surviving(block_idx) /\ block_idx' = block_idx + 1 /\ pc = "reading"
        /\ files' = files
    BY <1>5, ReadRoundIs, Zenon DEF scanner
  <2>2. i \in group /\ j \in group
    BY <2>1 DEF Surviving
  <2>3. block_idx \in Nat
    BY <1>1, <2>2, ListedBlocks, TypeInvParts DEF FinderTypes
  <2>4. Cardinality(OfSize(Size(i[2]))) <= 3
    BY <1>3, <2>1, Zenon
  <2>5. CASE m = block_idx
    BY <1>1, <2>1, <2>4, <2>5, DifferentAreFour
  <2>6. CASE m \in 0 .. block_idx - 1
    BY <1>1, <2>1, <2>2, <2>4, <2>6 DEF Alike
  <2> QED BY <2>1, <2>3, <2>5, <2>6
<1>6. CASE UNCHANGED vars
  <2>1. pc' = pc /\ group' = group /\ block_idx' = block_idx /\ files' = files
    BY <1>6 DEF vars, finder, scanner
  <2>2. Cardinality(OfSize(Size(i[2]))) <= 3
    BY <1>3, <2>1, Zenon
  <2> QED BY <1>1, <2>1, <2>2 DEF Alike
<1> QED BY <1>1, <1>4, <1>5, <1>6, OnlyFinderReads DEF Next, SkipExcluded

(* Every file compared still has a peer after a step.                      *)
LEMMA PeersStep ==
    ASSUME ReadInv, [Next]_vars
    PROVE  Peers'
<1>1. TypeInv /\ Peers /\ InputOK
  BY TypeInvParts DEF ReadInv
<1>2. \A i, k : compute_block_hash(i, k)' = compute_block_hash(i, k)
  BY <1>1, HashesStay
<1> SUFFICES ASSUME pc' = "reading", NEW i \in group'
             PROVE  \E j \in group' \ {i} :
                       block_idx' > 0 => compute_block_hash(i, block_idx' - 1)
                                          = compute_block_hash(j, block_idx' - 1)
  BY <1>2 DEF Peers
<1>3. CASE NextSize
  <2>1. PICK n \in todo : group' = OfSize(n) /\ block_idx' = 0
    BY <1>3 DEF NextSize
  <2>2. Cardinality(OfSize(n)) >= 2
    BY <1>1, <2>1, TypeInvParts DEF FinderTypes
  <2>3. PICK j \in group' : j # i
    BY <2>1, <2>2, TwoOrMore
  <2> QED BY <2>1, <2>3
<1>4. CASE ReadRound
  <2>1. group' = Surviving(block_idx) /\ block_idx' = block_idx + 1 /\ pc = "reading"
    BY <1>4, ReadRoundIs, Zenon
  <2>2. block_idx \in Nat
    <3>1. PICK g \in group : TRUE
      BY <1>1, <2>1 DEF TypeInv
    <3>2. FinderTypes /\ g \in files
      BY <1>1, <3>1, TypeInvParts DEF FinderTypes
    <3> QED BY <1>1, <3>1, <3>2, ListedBlocks DEF FinderTypes
  <2>3. block_idx' - 1 = block_idx
    BY <2>1, <2>2
  <2>4. PICK j \in group \ {i} :
           i \in group /\ compute_block_hash(i, block_idx) = compute_block_hash(j, block_idx)
    BY <2>1 DEF Surviving
  <2>5. j \in Surviving(block_idx)
    BY <2>4 DEF Surviving
  <2> QED BY <2>1, <2>3, <2>4, <2>5
<1>5. CASE UNCHANGED vars
  <2>1. pc' = pc /\ group' = group /\ block_idx' = block_idx
    BY <1>5 DEF vars, finder
  <2> QED BY <1>1, <2>1 DEF Peers
<1> QED BY <1>1, <1>3, <1>4, <1>5, OnlyFinderReads DEF Next, SkipExcluded

(* ReadInv is an invariant.                                                *)
THEOREM ReadInvHolds == Spec => []ReadInv
<1>1. Init => ReadInv
  <2> SUFFICES ASSUME Init PROVE ReadInv
    OBVIOUS
  <2>1. TypeInv /\ pc = "options" /\ hashes = <<>>
    BY TypeInit DEF Init
  <2> QED BY <2>1 DEF ReadInv, Peers, Alike, BlocksReadWhenNeeded
<1>2. ReadInv /\ [Next]_vars => ReadInv'
  <2> SUFFICES ASSUME ReadInv, [Next]_vars PROVE ReadInv'
    OBVIOUS
  <2>1. TypeInv'
    BY TypeStep DEF ReadInv
  <2>2. Peers'
    BY PeersStep
  <2>3. Alike'
    BY AlikeStep
  <2>4. BlocksReadWhenNeeded'
    BY RoundReadsNeeded, NeededStays, OnlyRoundsRead, ListedStay
  <2> QED BY <2>1, <2>2, <2>3, <2>4 DEF ReadInv
<1> QED BY <1>1, <1>2, PTL DEF Spec

(* Whatever the digests that tell blocks apart, the first two blocks of a  *)
(* file, and all of one of three files of its size, are read only while a  *)
(* peer of its size agrees with it in every block before.                  *)
THEOREM NoBlockReadInVain == Spec => []BlocksReadWhenNeeded
<1>1. ReadInv => BlocksReadWhenNeeded
  BY DEF ReadInv
<1> QED BY <1>1, ReadInvHolds, PTL

-----------------------------------------------------------------------------
(***************************************************************************)
(*                          Listing as asked                               *)
(***************************************************************************)

(* The directory of an entry, and that of any directory above it, are      *)
(* above it.                                                               *)
LEMMA AboveIs ==
    ASSUME NEW e \in Files \cup Dirs
    PROVE  /\ Above(e) \subseteq Dirs
           /\ Home[e] \in Above(e)
           /\ \A d \in Above(e) : Home[d] \in Above(e)
BY FileSystemAssumption DEF Above

(* And nothing else: a set with both is above it.                          *)
LEMMA AboveLeast ==
    ASSUME NEW e \in Files \cup Dirs, NEW S \in SUBSET Dirs,
           Home[e] \in S, \A x \in S : Home[x] \in S
    PROVE  Above(e) \subseteq S
BY DEF Above

(* What is above a directory is above what lies in it.                     *)
LEMMA AboveChild ==
    ASSUME NEW e \in Files \cup Dirs, NEW d \in Above(Home[e])
    PROVE  d \in Above(e)
<1>1. Home[e] \in Dirs /\ Home[e] \in Files \cup Dirs
  BY FileSystemAssumption
<1>2. Above(Home[e]) \subseteq Above(e)
  BY <1>1, AboveIs, AboveLeast
<1> QED BY <1>2

(* On the way down from a directory to what lies below it there is an      *)
(* entry of the directory.                                                 *)
LEMMA EntryOnTheWay ==
    ASSUME NEW f \in Files, NEW dir \in Above(f)
    PROVE  f \in Entries(dir) \/ \E d \in Above(f) : d \in Entries(dir)
<1> SUFFICES ASSUME f \notin Entries(dir), \A d \in Above(f) : d \notin Entries(dir)
             PROVE  FALSE
  OBVIOUS
<1> DEFINE S == Above(f) \ {dir}
<1>1. /\ Above(f) \subseteq Dirs /\ Home[f] \in Above(f)
      /\ \A d \in Above(f) : Home[d] \in Above(f)
  BY AboveIs
<1>2. Home[f] \in S
  <2>1. f # dir
    BY <1>1, FileSystemAssumption
  <2> QED BY <1>1, <2>1 DEF Entries
<1>3. \A x \in S : Home[x] \in S
  BY <1>1 DEF Entries
<1>4. Above(f) \subseteq S
  <2>1. S \in SUBSET Dirs
    BY <1>1
  <2> HIDE DEF S
  <2> QED BY <1>2, <1>3, <2>1, AboveLeast
<1> QED BY <1>4

(* A path starts with the paths of all directories above.                  *)
LEMMA StartsWithAbove ==
    ASSUME NEW f \in Files, NEW d \in Above(f)
    PROVE  <<Home[f], d>> \in StartsWith
<1> DEFINE S == {x \in Dirs : <<Home[f], x>> \in StartsWith}
<1>1. Home[f] \in S
  BY FileSystemAssumption, PathAssumption
<1>2. ASSUME NEW x \in S PROVE Home[x] \in S
  <2>1. x \in Dirs /\ <<Home[f], x>> \in StartsWith /\ <<x, Home[x]>> \in StartsWith
    BY PathAssumption
  <2>2. \A p, q \in StartsWith : p[2] = q[1] => <<p[1], q[2]>> \in StartsWith
    BY PathAssumption
  <2>3. <<Home[f], Home[x]>> \in StartsWith
    BY <2>1, <2>2
  <2>4. Home[x] \in Dirs
    BY <2>1, FileSystemAssumption
  <2> QED BY <2>3, <2>4
<1>3. Above(f) \subseteq S
  <2> HIDE DEF S
  <2>1. S \in SUBSET Dirs
    BY DEF S
  <2> QED BY <1>1, <1>2, <2>1, AboveLeast
<1> QED BY <1>3

(* A directory that is not excluded lies in none that is, if paths are     *)
(* absolute.                                                               *)
LEMMA NotExcludedAbove ==
    ASSUME NEW f \in Files, ~is_excluded(Home[f]), argv.absolute
    PROVE  Above(f) \cap argv.exclude_dirs = {}
<1>1. \A e \in argv.exclude_dirs : <<Home[f], e>> \notin StartsWith
  BY DEF is_excluded
<1> QED BY <1>1, StartsWithAbove

(* A directory is excluded only if its path starts with that of an         *)
(* excluded one.                                                           *)
LEMMA ExcludedStarts ==
    ASSUME NEW d \in Dirs, is_excluded(d)
    PROVE  \E e \in argv.exclude_dirs : <<d, e>> \in StartsWith
BY PathAssumption DEF is_excluded

(* Where the iterator is: every entry it has before it lies below the      *)
(* directory being scanned, which is not excluded.                         *)
Scanning ==
    pc = "iterating" =>
        LET dir == argv.scan_dirs[scan]
        IN  /\ dir \in Dirs /\ ~is_excluded(dir)
            /\ \A e \in unvisited : IF argv.scan_level THEN dir \in Above(e) ELSE Home[e] = dir

(* A file to be listed whose path starts with that of no excluded          *)
(* directory.                                                              *)
Wanted ==
    {i \in AskedFor : \A d \in Above(i[2]), e \in argv.exclude_dirs : <<d, e>> \notin StartsWith}

(* It still lies before the iterator, or below an entry that does.         *)
Coming(i) ==
    /\ pc = "iterating" /\ i[1] = scan
    /\ \/ i[2] \in unvisited
       \/ argv.scan_level /\ \E d \in Above(i[2]) : d \in unvisited

(* The files of the directories scanned so far are listed.                 *)
Complete ==
    (pc # "done" /\ ~faulty) =>
        \A i \in Wanted : i[1] <= scan => i \in files \/ Coming(i)

ListInv ==
    /\ TypeInv /\ Scanning /\ Complete
    /\ files \subseteq AskedFor
    /\ argv.absolute => \A i \in files : Above(i[2]) \cap argv.exclude_dirs = {}
    /\ pc \in {"grouping", "reading", "reporting"} => scan = Len(argv.scan_dirs)

(* What is asked for stays.                                                *)
LEMMA AskedStays ==
    ASSUME InputOK, [Next]_vars
    PROVE  /\ argv' = argv /\ faulty' = faulty
           /\ AskedFor' = AskedFor /\ Wanted' = Wanted
           /\ \A d : is_excluded(d)' <=> is_excluded(d)
<1>1. argv' = argv /\ content' = content /\ faulty' = faulty
  BY InputStays
<1>2. AskedFor' = AskedFor
  BY <1>1 DEF AskedFor, Size
<1>3. Wanted' = Wanted
  BY <1>1, <1>2 DEF Wanted
<1>4. \A d : is_excluded(d)' <=> is_excluded(d)
  BY <1>1 DEF is_excluded
<1> QED BY <1>1, <1>2, <1>3, <1>4

(* The parts of ListInv that a step has to keep.                           *)
LEMMA ListInvStep ==
    ASSUME ListInv, [Next]_vars, Scanning', Complete', files' \subseteq AskedFor,
           argv.absolute => \A i \in files' : Above(i[2]) \cap argv.exclude_dirs = {},
           pc' \in {"grouping", "reading", "reporting"} => scan' = Len(argv.scan_dirs)
    PROVE  ListInv'
<1>1. TypeInv' /\ InputOK
  BY TypeStep, TypeInvParts DEF ListInv
<1>2. argv' = argv /\ AskedFor' = AskedFor
  BY <1>1, AskedStays
<1> QED BY <1>1, <1>2 DEF ListInv

(* A step outside of the scan keeps ListInv.                               *)
LEMMA OtherStepsList ==
    ASSUME ListInv, [Next]_vars, UNCHANGED scanner,
           pc # "iterating", pc' # "iterating", pc # "done",
           pc' \in {"grouping", "reading", "reporting"} => scan = Len(argv.scan_dirs)
    PROVE  ListInv'
<1>1. InputOK /\ Complete
  BY TypeInvParts DEF ListInv
<1>2. faulty' = faulty /\ Wanted' = Wanted
  BY <1>1, AskedStays
<1>3. scan' = scan /\ files' = files
  BY DEF scanner
<1>4. Scanning'
  BY DEF Scanning
<1>5. Complete'
  BY <1>1, <1>2, <1>3 DEF Complete, Coming
<1> QED BY <1>3, <1>4, <1>5, ListInvStep DEF ListInv

(* Steps that are none of the scan.                                        *)
LEMMA OptionsFinderList ==
    ASSUME ListInv, \/ OptionProcess \/ ConstructScanner \/ StartFinder \/ NextSize
                    \/ ReadRound \/ Report \/ Finish
    PROVE  ListInv'
<1>1. TypeInv /\ [Next]_vars /\ InputOK
  BY TypeInvParts DEF ListInv, Next
<1>2. CASE OptionProcess
  <2>1. UNCHANGED scanner /\ pc = "options" /\ pc' \in {"done", "constructing"}
    BY <1>1, <1>2, OptionProcessIs
  <2> QED BY <1>1, <2>1, OtherStepsList
<1>3. CASE ReadRound
  <2>1. UNCHANGED scanner /\ pc = "reading" /\ pc' \in {"reading", "reporting", "done"}
    BY <1>3, ReadRoundIs
  <2>2. scan = Len(argv.scan_dirs)
    BY <2>1 DEF ListInv
  <2> QED BY <1>1, <2>1, <2>2, OtherStepsList
<1>4. CASE ConstructScanner
  <2>1. UNCHANGED scanner /\ pc = "constructing" /\ pc' \in {"scanning", "done"}
    BY <1>4 DEF ConstructScanner, End
  <2> QED BY <1>1, <2>1, OtherStepsList
<1>5. CASE StartFinder
  <2>1. /\ UNCHANGED scanner /\ pc = "scanning" /\ pc' \in {"grouping", "done"}
        /\ scan = Len(argv.scan_dirs)
    BY <1>5 DEF StartFinder, End
  <2> QED BY <1>1, <2>1, OtherStepsList
<1>6. CASE NextSize \/ Report \/ Finish
  <2>1. /\ UNCHANGED scanner /\ pc \in {"grouping", "reporting"}
        /\ pc' \in {"grouping", "reading", "reporting", "done"}
    BY <1>6 DEF NextSize, Report, Finish, End
  <2>2. scan = Len(argv.scan_dirs)
    BY <2>1 DEF ListInv
  <2> QED BY <1>1, <2>1, <2>2, OtherStepsList
<1> QED BY <1>2, <1>3, <1>4, <1>5, <1>6

(* Going on to the next directory keeps ListInv.                           *)
LEMMA NextDirectoryList ==
    ASSUME ListInv, NextDirectory
    PROVE  ListInv'
<1>1. TypeInv /\ [Next]_vars /\ InputOK /\ Complete /\ ScannerTypes
  BY TypeInvParts DEF ListInv, Next
<1>2. /\ argv' = argv /\ faulty' = faulty /\ Wanted' = Wanted
      /\ \A d : is_excluded(d)' <=> is_excluded(d)
  BY <1>1, AskedStays
<1> DEFINE dir == argv.scan_dirs[scan + 1]
           refused == dir \notin Dirs \/ is_excluded(dir)
<1>3. /\ pc = "scanning" /\ scan < Len(argv.scan_dirs) /\ scan' = scan + 1 /\ files' = files
      /\ \/ refused /\ pc' = pc
         \/ ~refused /\ pc' = "iterating" /\ unvisited' = Entries(dir)
  BY DEF NextDirectory
<1>4. scan \in Nat
  BY <1>1 DEF ScannerTypes, InputOK
<1>5. ~faulty => \A i \in Wanted : i[1] <= scan => i \in files
  BY <1>1, <1>3 DEF Complete, Coming
<1>6. ASSUME NEW i \in Wanted, i[1] = scan + 1
      PROVE  /\ i[2] \in Files /\ Above(i[2]) \subseteq Dirs
             /\ dir \in Above(i[2]) /\ (~argv.scan_level => dir = Home[i[2]])
             /\ ~refused
  <2>1. /\ i[2] \in Files
        /\ IF argv.scan_level THEN dir \in Above(i[2]) ELSE dir = Home[i[2]]
    BY <1>6 DEF Wanted, AskedFor
  <2>2. Above(i[2]) \subseteq Dirs /\ Home[i[2]] \in Above(i[2])
    BY <2>1, AboveIs
  <2>3. dir \in Above(i[2])
    BY <2>1, <2>2
  <2>4. \A e \in argv.exclude_dirs : <<dir, e>> \notin StartsWith
    BY <2>3 DEF Wanted
  <2>5. dir \in Dirs
    BY <2>2, <2>3
  <2>6. ~is_excluded(dir)
    <3> HIDE DEF dir
    <3> QED BY <2>4, <2>5, ExcludedStarts
  <2> QED BY <2>1, <2>2, <2>3, <2>5, <2>6
<1>7. CASE refused /\ pc' = pc
  <2>1. \A i \in Wanted : i[1] # scan + 1
    BY <1>6, <1>7
  <2>2. \A i \in Wanted : i[1] \in Nat
    BY <1>1 DEF Wanted, AskedFor, InputOK
  <2>3. Complete'
    <3> HIDE DEF refused, dir
    <3> SUFFICES ASSUME ~faulty, NEW i \in Wanted, i[1] <= scan + 1 PROVE i \in files
      BY <1>2, <1>3 DEF Complete
    <3>1. i[1] <= scan
      BY <1>4, <2>1, <2>2
    <3> QED BY <1>5, <3>1
  <2>4. Scanning' /\ pc' = "scanning"
    BY <1>3, <1>7 DEF Scanning
  <2> QED BY <1>1, <1>3, <2>3, <2>4, ListInvStep DEF ListInv
<1>8. CASE ~refused /\ pc' = "iterating" /\ unvisited' = Entries(dir)
  <2>1. Scanning'
    <3>1. argv'.scan_dirs[scan'] = dir
      BY <1>2, <1>3
    <3>2. dir \in Dirs /\ ~is_excluded(dir)
      BY <1>8
    <3>3. \A e \in Entries(dir) : Home[e] = dir /\ dir \in Above(e)
      BY AboveIs DEF Entries
    <3> HIDE DEF dir
    <3> QED BY <1>2, <1>8, <3>1, <3>2, <3>3 DEF Scanning, is_excluded
  <2>2. Complete'
    <3> HIDE DEF refused
    <3> SUFFICES ASSUME ~faulty, NEW i \in Wanted, i[1] <= scan + 1
                 PROVE  i \in files \/ Coming(i)'
      BY <1>2, <1>3 DEF Complete
    <3>1. CASE i[1] <= scan
      BY <1>5, <3>1
    <3>2. CASE i[1] = scan + 1
      <4>1. /\ i[2] \in Files /\ dir \in Above(i[2])
            /\ ~argv.scan_level => dir = Home[i[2]]
        BY <1>6, <3>2
      <4>2. CASE argv.scan_level
        <5>1. i[2] \in Entries(dir) \/ \E d \in Above(i[2]) : d \in Entries(dir)
          <6> HIDE DEF dir
          <6> QED BY <4>1, EntryOnTheWay
        <5> QED BY <1>2, <1>3, <1>8, <3>2, <4>2, <5>1 DEF Coming
      <4>3. CASE ~argv.scan_level
        <5>1. i[2] # dir
          BY <4>1, <1>8, AboveIs, FileSystemAssumption
        <5>2. i[2] \in Entries(dir)
          BY <4>1, <4>3, <5>1 DEF Entries
        <5> QED BY <1>3, <1>8, <3>2, <5>2 DEF Coming
      <4> QED BY <4>2, <4>3
    <3>3. i[1] \in Nat
      BY <1>1 DEF Wanted, AskedFor, InputOK
    <3> QED BY <1>4, <3>1, <3>2, <3>3
  <2> QED BY <1>1, <1>3, <1>8, <2>1, <2>2, ListInvStep DEF ListInv
<1> QED BY <1>3, <1>7, <1>8

(* The file a visit lists is asked for, and lies in no excluded directory. *)
LEMMA VisitLists ==
    ASSUME ListInv, Visit, Listed(entry)
    PROVE  /\ <<scan, entry>> \in AskedFor
           /\ argv.absolute => Above(entry) \cap argv.exclude_dirs = {}
<1> DEFINE dir == argv.scan_dirs[scan]
<1>1. /\ pc = "iterating" /\ entry # AtEnd
      /\ ~(argv.scan_level /\ is_excluded(Home[entry]))
  BY VisitIs
<1>2. ScannerTypes /\ Scanning /\ scan \in 1 .. Len(argv.scan_dirs)
  BY <1>1, TypeInvParts DEF ListInv, Phases
<1>3. entry \in unvisited /\ entry \in Files
  BY <1>1, <1>2 DEF ScannerTypes, Listed
<1>4. /\ dir \in Dirs /\ ~is_excluded(dir)
      /\ IF argv.scan_level THEN dir \in Above(entry) ELSE dir = Home[entry]
  BY <1>1, <1>2, <1>3 DEF Scanning
<1>5. ~is_excluded(Home[entry])
  BY <1>1, <1>4
<1>6. argv.absolute => Above(entry) \cap argv.exclude_dirs = {}
  BY <1>3, <1>5, NotExcludedAbove
<1>7. /\ Size(entry) >= argv.min_file_size
      /\ argv.file_masks # {} => \E mask \in argv.file_masks : entry \in mask
  BY DEF Listed, matches_masks
<1>8. <<scan, entry>> \in AskedFor
  BY <1>2, <1>3, <1>4, <1>7 DEF AskedFor
<1> QED BY <1>6, <1>8

(* A visit keeps what is still to come.                                    *)
LEMMA VisitComing ==
    ASSUME ListInv, Visit, NEW i \in Wanted, Coming(i), i \notin files', pc' # "done"
    PROVE  Coming(i)'
<1>1. /\ pc = "iterating" /\ entry # AtEnd /\ argv' = argv
      /\ files' = files \cup (IF Listed(entry) THEN {<<scan, entry>>} ELSE {})
      /\ unvisited' = (unvisited \ {entry}) \cup
            (IF argv.scan_level /\ entry \in Dirs THEN Entries(entry) ELSE {})
      /\ pc' = pc /\ scan' = scan
  BY VisitIs DEF input
<1>2. /\ i[2] \in Files /\ i = <<i[1], i[2]>>
      /\ Size(i[2]) >= argv.min_file_size
      /\ argv.file_masks # {} => \E mask \in argv.file_masks : i[2] \in mask
  BY DEF Wanted, AskedFor
<1>3. i[1] = scan
  BY DEF Coming
<1>4. i[2] # entry
  <2> SUFFICES ASSUME i[2] = entry PROVE FALSE
    OBVIOUS
  <2>1. Listed(entry)
    BY <1>2 DEF Listed, matches_masks
  <2>2. i = <<scan, entry>>
    BY <1>2, <1>3
  <2> QED BY <1>1, <2>1, <2>2
<1>5. CASE i[2] \in unvisited
  BY <1>1, <1>3, <1>4, <1>5 DEF Coming
<1>6. CASE argv.scan_level /\ \E d \in Above(i[2]) : d \in unvisited
  <2>1. PICK d \in Above(i[2]) : d \in unvisited
    BY <1>6
  <2>2. CASE d # entry
    BY <1>1, <1>3, <1>6, <2>1, <2>2 DEF Coming
  <2>3. CASE d = entry
    <3>1. entry \in Dirs
      BY <1>2, <2>1, <2>3, AboveIs
    <3>2. i[2] \in Entries(entry) \/ \E c \in Above(i[2]) : c \in Entries(entry)
      BY <1>2, <2>1, <2>3, EntryOnTheWay
    <3> QED BY <1>1, <1>3, <1>6, <3>1, <3>2 DEF Coming
  <2> QED BY <2>2, <2>3
<1> QED BY <1>5, <1>6 DEF Coming

(* A visit keeps ListInv.                                                  *)
LEMMA VisitList ==
    ASSUME ListInv, Visit
    PROVE  ListInv'
<1>1. TypeInv /\ [Next]_vars /\ InputOK /\ Complete /\ ScannerTypes /\ Scanning
  BY TypeInvParts DEF ListInv, Next
<1>2. argv' = argv /\ faulty' = faulty /\ Wanted' = Wanted
  BY <1>1, AskedStays
<1>3. pc = "iterating" /\ entry # AtEnd /\ pc' \in {"iterating", "done"}
  BY VisitIs
<1>4. /\ scan' = scan
      /\ unvisited' \subseteq unvisited \cup
            (IF argv.scan_level /\ entry \in Dirs THEN Entries(entry) ELSE {})
      /\ files' \subseteq files \cup (IF Listed(entry) THEN {<<scan, entry>>} ELSE {})
      /\ files \subseteq files'
  BY VisitIs DEF scanner
<1>5. entry \in unvisited
  BY <1>1, <1>3 DEF ScannerTypes
<1>6. Scanning'
  <2> SUFFICES ASSUME pc' = "iterating",
                      NEW e \in unvisited', e \notin unvisited
               PROVE  argv.scan_level /\ argv.scan_dirs[scan] \in Above(e)
    BY <1>1, <1>2, <1>3, <1>4 DEF Scanning, is_excluded
  <2>1. argv.scan_level /\ e \in Entries(entry)
    BY <1>4
  <2>2. argv.scan_dirs[scan] \in Above(entry)
    BY <1>1, <1>3, <1>5, <2>1 DEF Scanning
  <2> QED BY <2>1, <2>2, AboveChild DEF Entries
<1>7. Complete'
  <2> SUFFICES ASSUME ~faulty, pc' # "done", NEW i \in Wanted, i[1] <= scan, i \notin files'
               PROVE  Coming(i)'
    BY <1>2, <1>4 DEF Complete
  <2>1. Coming(i)
    BY <1>1, <1>3, <1>4 DEF Complete
  <2> QED BY <2>1, VisitComing
<1>8. /\ files' \subseteq AskedFor
      /\ argv.absolute => \A i \in files' : Above(i[2]) \cap argv.exclude_dirs = {}
  BY <1>4, VisitLists DEF ListInv
<1> QED BY <1>1, <1>3, <1>6, <1>7, <1>8, ListInvStep

(* The end of a directory and a failing scan keep ListInv.                 *)
LEMMA EndOfScanList ==
    ASSUME ListInv, EndOfDirectory \/ ScanFails
    PROVE  ListInv'
<1>1. TypeInv /\ [Next]_vars /\ InputOK /\ Complete /\ ScannerTypes /\ Phases
  BY TypeInvParts DEF ListInv, Next
<1>2. argv' = argv /\ faulty' = faulty /\ Wanted' = Wanted
  BY <1>1, AskedStays
<1>3. /\ scan' = scan /\ files' = files /\ pc' \in {"scanning", "done"}
      /\ faulty \/ (pc = "iterating" /\ entry = AtEnd)
  BY DEF EndOfDirectory, ScanFails, End, scanner
<1>4. Scanning'
  BY <1>3 DEF Scanning
<1>5. Complete'
  <2> SUFFICES ASSUME ~faulty, NEW i \in Wanted, i[1] <= scan PROVE i \in files
    BY <1>2, <1>3 DEF Complete
  <2>1. pc = "iterating" /\ unvisited = {}
    BY <1>1, <1>3 DEF Phases
  <2> QED BY <1>1, <2>1 DEF Complete, Coming
<1> QED BY <1>1, <1>3, <1>4, <1>5, ListInvStep DEF ListInv

(* ListInv is an invariant.                                                *)
THEOREM ListInvHolds == Spec => []ListInv
<1>1. Init => ListInv
  <2> SUFFICES ASSUME Init PROVE ListInv
    OBVIOUS
  <2>1. TypeInv /\ pc = "options" /\ files = {} /\ scan = 0
    BY TypeInit DEF Init
  <2>2. \A i \in Wanted : ~(i[1] <= scan)
    <3>1. InputOK
      BY <2>1, TypeInvParts
    <3>2. \A i \in Wanted : i[1] \in 1 .. Len(argv.scan_dirs)
      BY DEF Wanted, AskedFor
    <3> QED BY <2>1, <3>1, <3>2 DEF InputOK
  <2> QED BY <2>1, <2>2 DEF ListInv, Scanning, Complete
<1>2. ListInv /\ [Next]_vars => ListInv'
  <2> SUFFICES ASSUME ListInv, [Next]_vars PROVE ListInv'
    OBVIOUS
  <2>1. ASSUME UNCHANGED vars PROVE ListInv'
    <3>1. InputOK /\ Scanning /\ Complete
      BY TypeInvParts DEF ListInv
    <3>2. /\ argv' = argv /\ faulty' = faulty /\ Wanted' = Wanted /\ pc' = pc
          /\ scan' = scan /\ files' = files /\ unvisited' = unvisited
      BY <2>1, <3>1, AskedStays DEF vars, scanner
    <3>3. Scanning'
      BY <3>1, <3>2 DEF Scanning, is_excluded
    <3>4. Complete'
      BY <3>1, <3>2 DEF Complete, Coming
    <3> QED BY <3>2, <3>3, <3>4, ListInvStep DEF ListInv
  <2>2. ASSUME NextDirectory \/ Visit PROVE ListInv'
    BY <2>2, NextDirectoryList, VisitList
  <2>3. ASSUME EndOfDirectory \/ ScanFails PROVE ListInv'
    BY <2>3, EndOfScanList
  <2>4. ASSUME \/ OptionProcess \/ ConstructScanner \/ StartFinder \/ NextSize
               \/ ReadRound \/ Report \/ Finish
        PROVE  ListInv'
    BY <2>4, OptionsFinderList
  <2> QED BY <2>1, <2>2, <2>3, <2>4 DEF Next, SkipExcluded
<1> QED BY <1>1, <1>2, PTL DEF Spec

(* Only files asked for are listed, and with absolute paths none below an  *)
(* excluded directory; once a scan without errors is over, every file      *)
(* asked for is listed whose path does not start with that of an excluded  *)
(* directory (bayan.cpp:346-459).                                          *)
THEOREM FilesListedAsAsked == Spec => []ListedAsAsked
<1>1. ListInv => ListedAsAsked
  <2> SUFFICES ASSUME ListInv PROVE ListedAsAsked
    OBVIOUS
  <2>1. InputOK
    BY TypeInvParts DEF ListInv
  <2>2. (pc \in {"grouping", "reading", "reporting"} /\ ~faulty) => Wanted \subseteq files
    <3> SUFFICES ASSUME pc \in {"grouping", "reading", "reporting"}, ~faulty, NEW i \in Wanted
                 PROVE  i \in files
      OBVIOUS
    <3>1. i[1] \in 1 .. Len(argv.scan_dirs) /\ scan = Len(argv.scan_dirs)
      BY DEF Wanted, AskedFor, ListInv
    <3>2. i[1] <= scan
      BY <2>1, <3>1 DEF InputOK
    <3> QED BY <3>2 DEF ListInv, Complete, Coming
  <2> QED BY <2>2 DEF ListInv, ListedAsAsked, Wanted
<1> QED BY <1>1, ListInvHolds, PTL

-----------------------------------------------------------------------------
(***************************************************************************)
(*                  Hashes strung together, and contents                   *)
(***************************************************************************)

(* f gives what the first n of some texts are, strung together.            *)
GivesText(f, seqs, n) ==
    f = [i \in 1 .. n |-> IF i = 1 THEN seqs[i] ELSE f[i - 1] \o seqs[i]]

(* There is such a function for every number of texts, by induction.       *)
LEMMA SomethingGivesText ==
    ASSUME NEW seqs
    PROVE  \A n \in Nat : \E f : GivesText(f, seqs, n)
<1> DEFINE Bad == {n \in Nat : ~ \E f : GivesText(f, seqs, n)}
<1>1. ASSUME Bad # {} PROVE FALSE
  <2>1. PICK n \in Bad : \A m \in Bad : n <= m
    BY <1>1, LeastNat
  <2>2. CASE n = 0
    <3>1. GivesText([i \in 1 .. 0 |-> 0], seqs, 0)
      BY DEF GivesText
    <3> QED BY <2>2, <3>1
  <2>3. CASE n > 0
    <3>1. PICK e : GivesText(e, seqs, n - 1)
      <4>1. n - 1 \in Nat /\ n - 1 \notin Bad
        BY <2>1, <2>3
      <4> QED BY <4>1
    <3> DEFINE last == IF n = 1 THEN seqs[1] ELSE e[n - 1] \o seqs[n]
               f == [i \in 1 .. n |-> IF i = n THEN last ELSE e[i]]
    <3>2. ASSUME NEW i \in 1 .. n
          PROVE  f[i] = IF i = 1 THEN seqs[i] ELSE f[i - 1] \o seqs[i]
      <4>1. CASE i = n
        <5>1. i # 1 => f[i - 1] = e[n - 1]
          BY <2>3, <4>1
        <5>2. f[i] = last
          BY <4>1
        <5> QED BY <4>1, <5>1, <5>2
      <4>2. CASE i < n
        <5>1. i \in 1 .. n - 1 /\ f[i] = e[i]
          BY <2>3, <4>2
        <5>2. i # 1 => f[i - 1] = e[i - 1]
          BY <2>3, <4>2
        <5>3. e[i] = IF i = 1 THEN seqs[i] ELSE e[i - 1] \o seqs[i]
          BY <3>1, <5>1 DEF GivesText
        <5> QED BY <5>1, <5>2, <5>3
      <4> QED BY <4>1, <4>2
    <3>3. f = [i \in 1 .. n |-> f[i]]
      OBVIOUS
    <3> HIDE DEF f
    <3>4. f = [i \in 1 .. n |-> IF i = 1 THEN seqs[i] ELSE f[i - 1] \o seqs[i]]
      BY <3>2, <3>3
    <3>5. GivesText(f, seqs, n)
      BY <3>4 DEF GivesText
    <3> QED BY <3>5
  <2> QED BY <2>1, <2>2, <2>3
<1> QED BY <1>1

StringsTogether(f, seqs, n) ==
    f[1] = seqs[1] /\ \A i \in 2 .. n : f[i] = f[i - 1] \o seqs[i]

(* FlattenSeq strings texts together one by one.                           *)
LEMMA FlattenIs ==
    ASSUME NEW seqs, NEW n \in Nat, Len(seqs) = n, n # 0
    PROVE  \E f : FlattenSeq(seqs) = f[n] /\ StringsTogether(f, seqs, n)
<1> DEFINE Body(f) == [i \in 1 .. n |-> IF i = 1 THEN seqs[i] ELSE f[i - 1] \o seqs[i]]
           flat == CHOOSE f : f = Body(f)
<1>1. \E f : f = Body(f)
  BY SomethingGivesText DEF GivesText
<1>2. FlattenSeq(seqs) = flat[n]
  BY DEF FlattenSeq
<1>3. flat = Body(flat)
  <2> HIDE DEF Body
  <2> QED BY <1>1
<1>4. ASSUME NEW f, f = Body(f)
      PROVE  StringsTogether(f, seqs, n)
  <2>1. \A i \in 1 .. n :
            Body(f)[i] = IF i = 1 THEN seqs[i] ELSE f[i - 1] \o seqs[i]
    OBVIOUS
  <2>2. 1 \in 1 .. n /\ \A i \in 2 .. n : i \in 1 .. n /\ i # 1
    OBVIOUS
  <2> HIDE DEF Body
  <2>3. f[1] = seqs[1]
    BY <1>4, <2>1, <2>2
  <2>4. \A i \in 2 .. n : f[i] = f[i - 1] \o seqs[i]
    BY <1>4, <2>1, <2>2
  <2> QED BY <2>3, <2>4 DEF StringsTogether
<1> HIDE DEF Body, flat
<1> QED BY <1>2, <1>3, <1>4

(* Two texts of equal parts in front are equal in both parts.              *)
LEMMA PartsOfText ==
    ASSUME NEW S, NEW a \in Seq(S), NEW b \in Seq(S), NEW c \in Seq(S), NEW d \in Seq(S),
           Len(a) = Len(c), a \o b = c \o d
    PROVE  a = c /\ b = d
<1> DEFINE ab == a \o b
           cd == c \o d
<1>1. /\ Len(ab) = Len(a) + Len(b)
      /\ \A i \in 1 .. Len(a) + Len(b) : ab[i] = IF i <= Len(a) THEN a[i] ELSE b[i - Len(a)]
  BY ConcatProperties
<1>2. /\ Len(cd) = Len(c) + Len(d)
      /\ \A i \in 1 .. Len(c) + Len(d) : cd[i] = IF i <= Len(c) THEN c[i] ELSE d[i - Len(c)]
  BY ConcatProperties
<1>3. ab = cd
  OBVIOUS
<1>4. /\ Len(a) \in Nat /\ Len(b) \in Nat /\ Len(c) \in Nat /\ Len(d) \in Nat
      /\ Len(a) = Len(c)
  BY LenProperties
<1> HIDE DEF ab, cd
<1>5. Len(b) = Len(d)
  BY <1>1, <1>2, <1>3, <1>4
<1>6. ASSUME NEW i \in 1 .. Len(a) PROVE a[i] = c[i]
  <2>1. i \in 1 .. Len(a) + Len(b) /\ i <= Len(a)
    BY <1>4
  <2> QED BY <1>1, <1>2, <1>3, <1>4, <1>5, <2>1
<1>7. ASSUME NEW i \in 1 .. Len(b) PROVE b[i] = d[i]
  <2> DEFINE k == Len(a) + i
  <2>1. k \in 1 .. Len(a) + Len(b) /\ ~(k <= Len(a)) /\ k - Len(a) = i
    BY <1>4
  <2> HIDE DEF k
  <2>2. ab[k] = b[i] /\ cd[k] = d[i]
    BY <1>1, <1>2, <1>4, <1>5, <2>1
  <2> QED BY <1>3, <2>2
<1>8. a = c
  BY <1>4, <1>6, SeqEqual
<1>9. b = d
  BY <1>5, <1>7, SeqEqual
<1> QED BY <1>8, <1>9

(* Texts strung together to the same lengths.                              *)
LEMMA LengthsOfText ==
    ASSUME NEW S, NEW n \in Nat, n >= 1, NEW s, NEW t, NEW f, NEW g,
           \A i \in 1 .. n : s[i] \in Seq(S) /\ t[i] \in Seq(S) /\ Len(s[i]) = Len(t[i]),
           StringsTogether(f, s, n), StringsTogether(g, t, n)
    PROVE  \A i \in 1 .. n : f[i] \in Seq(S) /\ g[i] \in Seq(S) /\ Len(f[i]) = Len(g[i])
<1> DEFINE Same(i) == f[i] \in Seq(S) /\ g[i] \in Seq(S) /\ Len(f[i]) = Len(g[i])
           Bad == {i \in 1 .. n : ~Same(i)}
<1>1. ASSUME Bad # {} PROVE FALSE
  <2>0. Bad \subseteq Nat
    OBVIOUS
  <2>1. PICK m \in Bad : \A i \in Bad : m <= i
    <3> HIDE DEF Bad
    <3> QED BY <1>1, <2>0, LeastNat
  <2>2. Same(1)
    <3>1. 1 \in 1 .. n
      OBVIOUS
    <3>2. s[1] \in Seq(S) /\ t[1] \in Seq(S) /\ Len(s[1]) = Len(t[1])
      BY <3>1
    <3> QED BY <3>2 DEF StringsTogether
  <2>3. m \in 1 .. n /\ ~Same(m)
    BY <2>1
  <2>4. m # 1
    BY <2>2, <2>3
  <2>5. m - 1 \in 1 .. n /\ m \in 2 .. n /\ m - 1 < m
    BY <2>3, <2>4
  <2>6. Same(m - 1)
    <3>1. m - 1 \notin Bad
      BY <2>1, <2>5
    <3> QED BY <2>5, <3>1
  <2>7. f[m] = f[m - 1] \o s[m] /\ g[m] = g[m - 1] \o t[m]
    BY <2>5 DEF StringsTogether
  <2>8. s[m] \in Seq(S) /\ t[m] \in Seq(S) /\ Len(s[m]) = Len(t[m])
    BY <2>3
  <2> DEFINE fm == f[m - 1]
             gm == g[m - 1]
             sm == s[m]
             tm == t[m]
  <2>9. /\ fm \in Seq(S) /\ gm \in Seq(S) /\ sm \in Seq(S) /\ tm \in Seq(S)
        /\ Len(fm) = Len(gm) /\ Len(sm) = Len(tm)
    BY <2>6, <2>8
  <2> HIDE DEF fm, gm, sm, tm
  <2>10. fm \o sm \in Seq(S) /\ Len(fm \o sm) = Len(fm) + Len(sm)
    BY ONLY <2>9, ConcatProperties
  <2>11. gm \o tm \in Seq(S) /\ Len(gm \o tm) = Len(gm) + Len(tm)
    BY ONLY <2>9, ConcatProperties
  <2>12. f[m] = fm \o sm /\ g[m] = gm \o tm
    BY <2>7 DEF fm, gm, sm, tm
  <2>13. Same(m)
    BY <2>9, <2>10, <2>11, <2>12
  <2> QED BY <2>3, <2>13
<1> QED BY <1>1

(* Going back from equal texts, all that they were made of is equal.       *)
LEMMA BackFromText ==
    ASSUME NEW n \in Nat, n >= 1, NEW f, NEW g, f[n] = g[n],
           \A i \in 2 .. n : f[i] = g[i] => f[i - 1] = g[i - 1]
    PROVE  \A i \in 1 .. n : f[i] = g[i]
<1> DEFINE Apart == {m \in 0 .. n - 1 : f[n - m] # g[n - m]}
<1>1. ASSUME Apart # {} PROVE FALSE
  <2>0. Apart \subseteq Nat
    OBVIOUS
  <2>1. PICK m \in Apart : \A i \in Apart : m <= i
    <3> HIDE DEF Apart
    <3> QED BY <1>1, <2>0, LeastNat
  <2>2. m \in 0 .. n - 1 /\ f[n - m] # g[n - m]
    BY <2>1
  <2>3. m # 0
    <3>1. n - 0 = n
      OBVIOUS
    <3> QED BY <2>2, <3>1
  <2>4. m - 1 \in 0 .. n - 1 /\ m - 1 < m
    BY <2>2, <2>3
  <2>5. m - 1 \notin Apart
    BY <2>1, <2>4
  <2> DEFINE i == n - (m - 1)
  <2>6. i \in 2 .. n /\ i - 1 = n - m
    BY <2>2, <2>3
  <2>7. f[i] = g[i]
    BY <2>4, <2>5
  <2> HIDE DEF i
  <2>8. f[i - 1] = g[i - 1]
    BY <2>6, <2>7
  <2> QED BY <2>2, <2>6, <2>8
<1>2. ASSUME NEW i \in 1 .. n PROVE f[i] = g[i]
  <2>1. n - i \in 0 .. n - 1 /\ n - (n - i) = i
    OBVIOUS
  <2>2. n - i \notin Apart
    BY <1>1
  <2>3. f[n - (n - i)] = g[n - (n - i)]
    BY <2>1, <2>2
  <2> QED BY <2>1, <2>3
<1> QED BY <1>2

(* Texts of the same lengths that are equal strung together are equal.     *)
LEMMA FlattenInjective ==
    ASSUME NEW S, NEW s, NEW t, NEW n \in Nat, Len(s) = n, Len(t) = n,
           \A i \in 1 .. n : s[i] \in Seq(S) /\ t[i] \in Seq(S) /\ Len(s[i]) = Len(t[i]),
           FlattenSeq(s) = FlattenSeq(t)
    PROVE  \A i \in 1 .. n : s[i] = t[i]
<1>1. CASE n = 0
  BY <1>1
<1>2. CASE n # 0
  <2>1. PICK f : FlattenSeq(s) = f[n] /\ StringsTogether(f, s, n)
    BY <1>2, FlattenIs
  <2>2. PICK g : FlattenSeq(t) = g[n] /\ StringsTogether(g, t, n)
    BY <1>2, FlattenIs
  <2>3. n >= 1
    BY <1>2
  <2>4. \A i \in 1 .. n : f[i] \in Seq(S) /\ g[i] \in Seq(S) /\ Len(f[i]) = Len(g[i])
    BY <2>1, <2>2, <2>3, LengthsOfText
  <2>5. ASSUME NEW i \in 2 .. n, f[i] = g[i]
        PROVE  f[i - 1] = g[i - 1] /\ s[i] = t[i]
    <3> DEFINE fi == f[i - 1]
               gi == g[i - 1]
               si == s[i]
               ti == t[i]
    <3>1. i \in 1 .. n /\ i - 1 \in 1 .. n
      BY <2>3
    <3>2. fi \in Seq(S) /\ gi \in Seq(S) /\ Len(fi) = Len(gi)
      BY <2>4, <3>1
    <3>3. si \in Seq(S) /\ ti \in Seq(S)
      BY <3>1
    <3>4. fi \o si = gi \o ti
      BY <2>1, <2>2, <2>5 DEF StringsTogether
    <3> HIDE DEF fi, gi, si, ti
    <3>5. fi = gi /\ si = ti
      BY <3>2, <3>3, <3>4, PartsOfText
    <3> QED BY <3>5 DEF fi, gi, si, ti
  <2>6. f[n] = g[n]
    BY <2>1, <2>2
  <2>7. \A i \in 1 .. n : f[i] = g[i]
    <3>1. \A i \in 2 .. n : f[i] = g[i] => f[i - 1] = g[i - 1]
      BY <2>5
    <3> QED BY <2>3, <2>6, <3>1, BackFromText
  <2>8. ASSUME NEW i \in 1 .. n PROVE s[i] = t[i]
    <3>1. CASE i = 1
      BY <2>1, <2>2, <2>7, <3>1 DEF StringsTogether
    <3>2. CASE i # 1
      <4>1. i \in 2 .. n
        BY <3>2
      <4> QED BY <2>5, <2>7, <4>1
    <3> QED BY <3>1, <3>2
  <2> QED BY <2>8
<1> QED BY <1>1, <1>2



(* Every position of a file lies in one of its blocks.                     *)
LEMMA BlockOfPosition ==
    ASSUME NEW s \in Nat, NEW b \in Nat \ {0}, NEW p \in 1 .. s
    PROVE  \E k \in Nat : /\ k < (s + b - 1) \div b
                          /\ k * b + 1 <= p /\ p <= (k + 1) * b
                          /\ k * b \in Nat /\ (k + 1) * b \in Nat
<1> DEFINE k == (p - 1) \div b
           q == (s + b - 1) \div b
<1>1. k \in Nat /\ b * k <= p - 1 /\ p - 1 < b * k + b
  <2>1. p - 1 \in Nat
    OBVIOUS
  <2> QED BY <2>1, DivisionIs
<1>2. q \in Nat /\ s + b - 1 < b * q + b
  <2>1. s + b - 1 \in Nat
    OBVIOUS
  <2> QED BY <2>1, DivisionIs
<1> HIDE DEF k, q
<1> DEFINE kb == k * b
           next == (k + 1) * b
           qb == q * b
<1>3. kb \in Nat /\ next \in Nat /\ next = kb + b /\ kb = b * k
  BY <1>1, NextMultiple
<1>4. qb \in Nat /\ qb = b * q
  BY <1>2, NextMultiple
<1>5. q <= k => qb <= kb
  BY <1>1, <1>2, MultiplesInOrder
<1>6. kb <= p - 1 /\ p - 1 < kb + b /\ s + b - 1 < qb + b
  BY <1>1, <1>2, <1>3, <1>4
<1>7. k < q /\ kb + 1 <= p /\ p <= next
  <2> HIDE DEF kb, next, qb
  <2>1. p \in Nat /\ s \in Nat /\ b \in Nat /\ p <= s
    OBVIOUS
  <2> QED BY ONLY <1>1, <1>2, <1>3, <1>4, <1>5, <1>6, <2>1
<1>8. k < (s + b - 1) \div b
  BY <1>7 DEF q
<1> QED BY <1>1, <1>3, <1>7, <1>8

(* What a part of a sequence has at a position.                            *)
LEMMA PartAt ==
    ASSUME NEW S, NEW s \in Seq(S), NEW m \in 1 .. Len(s), NEW n \in 1 .. Len(s), m <= n,
           NEW p \in m .. n
    PROVE  SubSeq(s, m, n)[p - m + 1] = s[p]
<1> DEFINE i == p - m + 1
<1>1. Len(s) \in Nat
  BY LenProperties
<1>2. i \in 1 .. n + 1 - m /\ m + i - 1 = p
  BY <1>1
<1>3. SubSeq(s, m, n)[i] = s[m + i - 1]
  BY <1>1, <1>2, SubSeqProperties
<1> QED BY <1>2, <1>3

(* Files of the same blocks have the same content.                         *)
LEMMA BlocksGiveContent ==
    ASSUME TypeInv, NEW i \in files, NEW j \in files, Size(i[2]) = Size(j[2]),
           \A k \in 0 .. num_blocks(Size(i[2])) - 1 : BlockOf(i[2], k) = BlockOf(j[2], k)
    PROVE  SameContent(i, j)
<1> DEFINE s == Size(i[2])
           b == argv.block_size
           ci == content[i[2]]
           cj == content[j[2]]
<1>1. s \in Nat /\ b \in Nat \ {0} /\ num_blocks(s) \in Nat
  BY ListedBlocks
<1>2. ci \in Seq(Nat) /\ cj \in Seq(Nat) /\ Len(ci) = s /\ Len(cj) = s
  <2>1. i[2] \in Files /\ j[2] \in Files /\ InputOK
    BY ListedBlocks, TypeInvParts
  <2> QED BY <2>1 DEF InputOK, Size
<1>3. ASSUME NEW p \in 1 .. s PROVE ci[p] = cj[p]
  <2>1. PICK k \in Nat : /\ k < (s + b - 1) \div b
                         /\ k * b + 1 <= p /\ p <= (k + 1) * b
                         /\ k * b \in Nat /\ (k + 1) * b \in Nat
    <3> HIDE DEF s, b
    <3> QED BY <1>1, BlockOfPosition
  <2>2. k < num_blocks(Size(i[2])) /\ k < num_blocks(Size(j[2]))
    BY <2>1 DEF num_blocks
  <2>3. PICK m, n \in 1 .. Size(i[2]) :
           /\ m = k * b + 1 /\ m <= n
           /\ n = (IF Size(i[2]) <= (k + 1) * b THEN Size(i[2]) ELSE (k + 1) * b)
           /\ BlockOf(i[2], k) = SubSeq(content[i[2]], m, n)
    BY <2>2, BlockIs
  <2>4. PICK mj, nj \in 1 .. Size(j[2]) :
           /\ mj = k * b + 1 /\ mj <= nj
           /\ nj = (IF Size(j[2]) <= (k + 1) * b THEN Size(j[2]) ELSE (k + 1) * b)
           /\ BlockOf(j[2], k) = SubSeq(content[j[2]], mj, nj)
    BY <2>2, BlockIs
  <2>5. mj = m /\ nj = n
    BY <2>3, <2>4
  <2>6. p \in m .. n
    BY <1>1, <2>1, <2>3
  <2>7. BlockOf(i[2], k) = BlockOf(j[2], k)
    BY <1>1, <2>2
  <2>8. SubSeq(ci, m, n) = SubSeq(cj, m, n)
    BY <2>3, <2>4, <2>5, <2>7
  <2> HIDE DEF ci, cj
  <2>9. SubSeq(ci, m, n)[p - m + 1] = ci[p] /\ SubSeq(cj, m, n)[p - m + 1] = cj[p]
    <3>1. m \in 1 .. Len(ci) /\ n \in 1 .. Len(ci) /\ m <= n
      BY <1>2, <2>3
    <3>2. m \in 1 .. Len(cj) /\ n \in 1 .. Len(cj)
      BY <1>2, <3>1
    <3>3. SubSeq(ci, m, n)[p - m + 1] = ci[p]
      BY ONLY <1>2, <2>6, <3>1, PartAt
    <3>4. SubSeq(cj, m, n)[p - m + 1] = cj[p]
      BY ONLY <1>2, <2>6, <3>1, <3>2, PartAt
    <3> QED BY <3>3, <3>4
  <2> QED BY <2>8, <2>9
<1>4. ci = cj
  <2> HIDE DEF ci, cj, s
  <2> QED BY <1>2, <1>3, SeqEqual
<1> QED BY <1>4 DEF SameContent


-----------------------------------------------------------------------------
(***************************************************************************)
(*                         Groups and classes                              *)
(***************************************************************************)

(* The files of the content of one.                                        *)
Class(i) == {j \in files : SameContent(i, j)}

(* Every hash kept is that of its block.                                   *)
HashesRight == \A x \in DOMAIN hashes : hashes[x] = compute_block_hash(x[1], x[2])

(* A group is reported when all its blocks have been read.                 *)
AllRead == pc = "reporting" => \A i \in group : block_idx = num_blocks(Size(i[2]))

(* With a file that has a peer, all files of its content are compared.     *)
Together == \A i \in group, j \in files : (i # j /\ SameContent(i, j)) => j \in group

(* The files of the content of a file that has a peer are still to be      *)
(* compared, are being compared, or are in a group.                        *)
Finding == pc \in {"grouping", "reading", "reporting"} \/ (pc = "done" /\ status = "SUCCESS")

IsFaithful == Faithful(Digest[argv.hash_algorithm])

Settled ==
    Finding =>
        \A i, j \in files : (i # j /\ SameContent(i, j)) =>
            \/ Size(i[2]) \in todo
            \/ Class(i) \subseteq group
            \/ \E g \in duplicate_groups : Class(i) \subseteq g /\ (IsFaithful => g = Class(i))

(* A group of two or more is all files of one content.                     *)
Exact ==
    IsFaithful =>
        \A g \in duplicate_groups : Cardinality(g) >= 2 => \E i \in files : g = Class(i)

(* Nothing is found before the files are listed, nothing is left to be     *)
(* compared at the end.                                                    *)
BeforeAndAfter ==
    /\ pc \in {"options", "constructing", "scanning", "iterating"} =>
          duplicate_groups = {} /\ hashes = <<>>
    /\ (pc = "done" /\ status = "SUCCESS") => todo = {} /\ group = {}
    /\ pc = "grouping" => group = {}

ClassInv ==
    TypeInv /\ HashesRight /\ AllRead /\ Together /\ Settled /\ Exact /\ BeforeAndAfter

(* Contents and classes stay while no file is listed.                      *)
LEMMA ClassesStay ==
    ASSUME InputOK, [Next]_vars
    PROVE  /\ \A i, j : SameContent(i, j)' <=> SameContent(i, j)
           /\ IsFaithful' <=> IsFaithful
           /\ files' = files => \A i : Class(i)' = Class(i)
<1>1. argv' = argv /\ content' = content
  BY InputStays
<1>2. \A i, j : SameContent(i, j)' <=> SameContent(i, j)
  BY <1>1 DEF SameContent
<1>3. IsFaithful' <=> IsFaithful
  BY <1>1 DEF IsFaithful
<1>4. files' = files => \A i : Class(i)' = Class(i)
  BY <1>1 DEF Class, SameContent
<1> QED BY <1>2, <1>3, <1>4

(* Files of the same content have the same size and the same hashes.       *)
LEMMA SameContentSame ==
    ASSUME NEW i, NEW j, SameContent(i, j)
    PROVE  /\ Size(i[2]) = Size(j[2])
           /\ \A k : compute_block_hash(i, k) = compute_block_hash(j, k)
BY DEF SameContent, Size, compute_block_hash, compute_hash, BlockOf

(* SameContent is an equivalence.                                          *)
LEMMA ContentEquivalence ==
    /\ \A i : SameContent(i, i)
    /\ \A i, j : SameContent(i, j) => SameContent(j, i)
    /\ \A i, j, k : SameContent(i, j) /\ SameContent(j, k) => SameContent(i, k)
BY DEF SameContent

(* The hashes of a file reported are those of its blocks.                  *)
LEMMA HashesOfReported ==
    ASSUME TypeInv, HashesRight, AllRead, pc = "reporting", NEW i \in group
    PROVE  /\ num_blocks(Size(i[2])) \in Nat
           /\ get_hashes(i) = [k \in 1 .. num_blocks(Size(i[2])) |-> compute_block_hash(i, k - 1)]
<1> DEFINE n == num_blocks(Size(i[2]))
<1>1. FinderTypes /\ i \in files
  BY TypeInvParts DEF FinderTypes
<1>2. n \in Nat /\ block_idx = n
  BY <1>1, ListedBlocks DEF AllRead
<1>3. ASSUME NEW k \in 1 .. n PROVE hashes[<<i, k - 1>>] = compute_block_hash(i, k - 1)
  <2>1. k - 1 \in 0 .. block_idx - 1
    BY <1>2
  <2>2. <<i, k - 1>> \in DOMAIN hashes
    BY <1>1, <2>1 DEF FinderTypes
  <2> QED BY <2>2 DEF HashesRight
<1> QED BY <1>2, <1>3 DEF get_hashes

(* Files reported of one content have the same text of hashes.             *)
LEMMA SameText ==
    ASSUME TypeInv, HashesRight, AllRead, pc = "reporting", NEW i \in group, NEW j \in group,
           SameContent(i, j)
    PROVE  FlattenSeq(get_hashes(j)) = FlattenSeq(get_hashes(i))
<1>1. get_hashes(i) = [k \in 1 .. num_blocks(Size(i[2])) |-> compute_block_hash(i, k - 1)]
  BY HashesOfReported
<1>2. get_hashes(j) = [k \in 1 .. num_blocks(Size(j[2])) |-> compute_block_hash(j, k - 1)]
  BY HashesOfReported
<1>3. Size(i[2]) = Size(j[2]) /\ \A k : compute_block_hash(i, k) = compute_block_hash(j, k)
  BY SameContentSame
<1>4. get_hashes(j) = get_hashes(i)
  BY <1>1, <1>2, <1>3
<1> QED BY <1>4

(* And files of one text of hashes are of one content, if the digests are  *)
(* faithful.                                                               *)
LEMMA SameTextSameContent ==
    ASSUME TypeInv, HashesRight, AllRead, pc = "reporting", NEW i \in group, NEW j \in group,
           IsFaithful, FlattenSeq(get_hashes(j)) = FlattenSeq(get_hashes(i))
    PROVE  SameContent(i, j)
<1> DEFINE n == num_blocks(Size(i[2]))
           table == Digest[argv.hash_algorithm]
           s == get_hashes(i)
           t == get_hashes(j)
<1>1. /\ FinderTypes /\ i \in files /\ j \in files /\ Size(j[2]) = Size(i[2])
      /\ argv.hash_algorithm \in Algorithms
  BY TypeInvParts DEF FinderTypes, Phases, OptionsOK
<1>2. /\ n \in Nat /\ s = [k \in 1 .. n |-> compute_block_hash(i, k - 1)]
      /\ t = [k \in 1 .. n |-> compute_block_hash(j, k - 1)]
  BY <1>1, HashesOfReported
<1>3. ASSUME NEW k \in 0 .. n - 1
      PROVE  BlockOf(i[2], k) \in DOMAIN table /\ BlockOf(j[2], k) \in DOMAIN table
  BY <1>1, <1>2, BlockHasDigest
<1>4. \A b \in DOMAIN table : table[b] \in Seq(Nat)
  BY <1>1, DigestAssumption DEF Algorithms
<1>5. /\ \A a, b \in DOMAIN table : Len(table[a]) = Len(table[b])
      /\ \A a, b \in DOMAIN table : table[a] = table[b] => a = b
  BY DEF IsFaithful, Faithful, IsInjective
<1> HIDE DEF n, table, s, t
<1>6. ASSUME NEW k \in 1 .. n
      PROVE  /\ s[k] \in Seq(Nat) /\ t[k] \in Seq(Nat) /\ Len(s[k]) = Len(t[k])
             /\ s[k] = t[k] => BlockOf(i[2], k - 1) = BlockOf(j[2], k - 1)
  <2>1. k - 1 \in 0 .. n - 1
    BY <1>2
  <2>2. BlockOf(i[2], k - 1) \in DOMAIN table /\ BlockOf(j[2], k - 1) \in DOMAIN table
    BY <1>3, <2>1
  <2>3. s[k] = table[BlockOf(i[2], k - 1)] /\ t[k] = table[BlockOf(j[2], k - 1)]
    BY <1>2 DEF compute_block_hash, compute_hash, table
  <2> QED BY <1>4, <1>5, <2>2, <2>3
<1>7. Len(s) = n /\ Len(t) = n
  BY <1>2
<1>8. FlattenSeq(s) = FlattenSeq(t)
  BY DEF s, t
<1>9. \A k \in 1 .. n : s[k] = t[k]
  <2>1. n \in Nat
    BY <1>2
  <2> DEFINE Digits == Nat
  <2>2. \A k \in 1 .. n : s[k] \in Seq(Digits) /\ t[k] \in Seq(Digits) /\ Len(s[k]) = Len(t[k])
    BY <1>6
  <2> HIDE DEF Digits
  <2> QED BY ONLY <1>7, <1>8, <2>1, <2>2, FlattenInjective
<1>10. ASSUME NEW k \in 0 .. n - 1 PROVE BlockOf(i[2], k) = BlockOf(j[2], k)
  <2>1. k + 1 \in 1 .. n /\ (k + 1) - 1 = k
    BY <1>2
  <2>2. BlockOf(i[2], (k + 1) - 1) = BlockOf(j[2], (k + 1) - 1)
    BY <1>6, <1>9, <2>1
  <2> QED BY <2>1, <2>2
<1> QED BY <1>1, <1>10, BlocksGiveContent DEF n


(* Every hash kept stays that of its block.                                *)
LEMMA HashesRightStep ==
    ASSUME TypeInv, HashesRight, [Next]_vars
    PROVE  HashesRight'
<1>1. \A i, k : compute_block_hash(i, k)' = compute_block_hash(i, k)
  BY HashesStay, TypeInvParts
<1>2. CASE ~ReadRound
  BY <1>1, <1>2, OnlyRoundsRead DEF HashesRight
<1>3. CASE ReadRound
  <2>1. PICK read \in SUBSET group : hashes' = WithHashes(read, block_idx)
    BY <1>3, ReadRoundIs, Zenon
  <2>2. /\ DOMAIN hashes' = DOMAIN hashes \cup (read \X {block_idx})
        /\ \A i \in read : hashes'[<<i, block_idx>>] = compute_block_hash(i, block_idx)
        /\ \A x \in DOMAIN hashes \ (read \X {block_idx}) : hashes'[x] = hashes[x]
    <3> DEFINE new == WithHashes(read, block_idx)
    <3>1. /\ DOMAIN new = DOMAIN hashes \cup (read \X {block_idx})
          /\ \A i \in read : new[<<i, block_idx>>] = compute_block_hash(i, block_idx)
          /\ \A x \in DOMAIN hashes \ (read \X {block_idx}) : new[x] = hashes[x]
      BY WithHashesIs
    <3> HIDE DEF new
    <3>2. hashes' = new
      BY <2>1 DEF new
    <3> QED BY <3>1, <3>2
  <2>3. ASSUME NEW x \in DOMAIN hashes' PROVE hashes'[x] = compute_block_hash(x[1], x[2])
    <3>1. CASE x \in read \X {block_idx}
      <4>1. x = <<x[1], block_idx>> /\ x[1] \in read /\ x[2] = block_idx
        BY <3>1
      <4>2. hashes'[<<x[1], block_idx>>] = compute_block_hash(x[1], block_idx)
        BY <2>2, <4>1
      <4> QED BY <4>1, <4>2
    <3>2. CASE x \notin read \X {block_idx}
      BY <2>2, <3>2 DEF HashesRight
    <3> QED BY <3>1, <3>2
  <2> QED BY <1>1, <2>3 DEF HashesRight
<1> QED BY <1>2, <1>3

(* Before the finder starts there is nothing to be kept.                   *)
LEMMA EarlyClasses ==
    ASSUME ClassInv, [Next]_vars,
           pc \in {"options", "constructing", "scanning", "iterating"}, UNCHANGED finder,
           \/ pc' \in {"options", "constructing", "scanning", "iterating"}
           \/ pc' = "done" /\ status' # "SUCCESS"
    PROVE  ClassInv'
<1>1. TypeInv /\ HashesRight /\ Phases
  BY TypeInvParts DEF ClassInv
<1>2. TypeInv' /\ HashesRight'
  BY <1>1, TypeStep, HashesRightStep
<1>3. /\ todo' = {} /\ group' = {} /\ duplicate_groups' = {} /\ hashes' = <<>>
  <2>1. todo = {} /\ group = {}
    BY <1>1 DEF Phases
  <2>2. duplicate_groups = {} /\ hashes = <<>>
    BY DEF ClassInv, BeforeAndAfter
  <2> QED BY <2>1, <2>2 DEF finder
<1>4. AllRead' /\ Together'
  BY <1>3 DEF AllRead, Together
<1>5. Settled'
  BY DEF Settled, Finding
<1>6. Exact'
  BY <1>3 DEF Exact
<1>7. BeforeAndAfter'
  BY <1>3 DEF BeforeAndAfter
<1> QED BY <1>2, <1>4, <1>5, <1>6, <1>7 DEF ClassInv

(* The options and the scan keep ClassInv.                                 *)
LEMMA ScanClasses ==
    ASSUME ClassInv, \/ OptionProcess \/ ConstructScanner \/ NextDirectory
                     \/ Visit \/ EndOfDirectory \/ ScanFails
    PROVE  ClassInv'
<1>1. [Next]_vars /\ InputOK
  BY TypeInvParts DEF Next, ClassInv
<1>2. CASE OptionProcess
  <2>1. /\ pc = "options" /\ UNCHANGED finder
        /\ \/ pc' = "constructing"
           \/ pc' = "done" /\ status' # "SUCCESS"
    BY <1>1, <1>2, OptionProcessIs
  <2> QED BY <1>1, <2>1, EarlyClasses
<1>3. CASE Visit
  <2>1. /\ pc = "iterating" /\ UNCHANGED finder
        /\ \/ pc' = "iterating"
           \/ pc' = "done" /\ status' # "SUCCESS"
    BY <1>3, VisitIs
  <2> QED BY <1>1, <2>1, EarlyClasses
<1>4. CASE ConstructScanner \/ NextDirectory
  <2>1. /\ pc \in {"constructing", "scanning"} /\ UNCHANGED finder
        /\ \/ pc' \in {"scanning", "iterating"}
           \/ pc' = "done" /\ status' # "SUCCESS"
    BY <1>4 DEF ConstructScanner, NextDirectory, End
  <2> QED BY <1>1, <2>1, EarlyClasses
<1>5. CASE EndOfDirectory \/ ScanFails
  <2>1. /\ pc \in {"iterating", "scanning"} /\ UNCHANGED finder
        /\ \/ pc' = "scanning"
           \/ pc' = "done" /\ status' # "SUCCESS"
    BY <1>5 DEF EndOfDirectory, ScanFails, End
  <2> QED BY <1>1, <2>1, EarlyClasses
<1> QED BY <1>2, <1>3, <1>4, <1>5

(* The finder starts with ClassInv kept.                                   *)
LEMMA StartClasses ==
    ASSUME ClassInv, StartFinder
    PROVE  ClassInv'
<1>1. TypeInv /\ HashesRight /\ Phases /\ InputOK /\ [Next]_vars
  BY TypeInvParts DEF ClassInv, Next
<1>2. TypeInv' /\ HashesRight'
  BY <1>1, TypeStep, HashesRightStep
<1>3. /\ pc = "scanning" /\ files' = files
      /\ UNCHANGED <<group, hashes, duplicate_groups>>
      /\ \/ pc' = "done" /\ files = {} /\ UNCHANGED todo
         \/ /\ pc' = "grouping"
            /\ todo' = {n \in {Size(i[2]) : i \in files} : Cardinality(OfSize(n)) >= 2}
  BY DEF StartFinder, End, scanner
<1>4. todo = {} /\ group' = {} /\ duplicate_groups' = {}
  BY <1>1, <1>3 DEF Phases, ClassInv, BeforeAndAfter
<1>5. AllRead' /\ Together'
  BY <1>4 DEF AllRead, Together
<1>6. Settled'
  <2> SUFFICES ASSUME NEW i \in files, NEW j \in files, i # j, SameContent(i, j)
               PROVE  Size(i[2]) \in todo'
    <3>1. /\ \A i, j : SameContent(i, j)' <=> SameContent(i, j)
          /\ \A f : Size(f)' = Size(f)
      BY <1>1, ClassesStay, HashesStay
    <3> QED BY <1>3, <3>1 DEF Settled
  <2> DEFINE n == Size(i[2])
  <2>1. i \in OfSize(n) /\ j \in OfSize(n)
    BY SameContentSame DEF OfSize
  <2>2. Cardinality(OfSize(n)) >= 2
    BY <1>1, <2>1, FewOfSize, TwoAreTwo
  <2> QED BY <1>3, <2>2
<1>7. Exact'
  BY <1>4 DEF Exact
<1>8. BeforeAndAfter'
  BY <1>3, <1>4 DEF BeforeAndAfter
<1> QED BY <1>2, <1>5, <1>6, <1>7, <1>8 DEF ClassInv


(* Taking the next size keeps ClassInv.                                    *)
LEMMA NextSizeClasses ==
    ASSUME ClassInv, NextSize
    PROVE  ClassInv'
<1>1. TypeInv /\ HashesRight /\ InputOK /\ [Next]_vars
  BY TypeInvParts DEF ClassInv, Next
<1>2. TypeInv' /\ HashesRight'
  BY <1>1, TypeStep, HashesRightStep
<1>3. /\ pc = "grouping" /\ files' = files /\ group = {}
      /\ UNCHANGED <<hashes, duplicate_groups>>
  BY DEF NextSize, scanner
<1>4. PICK n \in todo :
         /\ todo' = todo \ {n} /\ group' = OfSize(n) /\ block_idx' = 0
         /\ pc' = IF num_blocks(n) = 0 THEN "reporting" ELSE "reading"
  BY DEF NextSize
<1>5. /\ \A i, j : SameContent(i, j)' <=> SameContent(i, j)
      /\ IsFaithful' <=> IsFaithful
      /\ \A i : Class(i)' = Class(i)
      /\ \A f : Size(f)' = Size(f)
      /\ \A s : num_blocks(s)' = num_blocks(s)
  BY <1>1, <1>3, ClassesStay, HashesStay
<1>6. AllRead'
  BY <1>4, <1>5 DEF AllRead, OfSize
<1>7. \A i, j : SameContent(i, j) => Size(i[2]) = Size(j[2])
  BY SameContentSame
<1>8. Together'
  BY <1>3, <1>4, <1>5, <1>7 DEF Together, OfSize
<1>9. Settled'
  <2> SUFFICES ASSUME NEW i \in files, NEW j \in files, i # j, SameContent(i, j)
               PROVE  \/ Size(i[2]) \in todo'
                      \/ Class(i) \subseteq group'
                      \/ \E g \in duplicate_groups :
                            Class(i) \subseteq g /\ (IsFaithful => g = Class(i))
    BY <1>3, <1>5 DEF Settled
  <2>1. \/ Size(i[2]) \in todo
        \/ Class(i) \subseteq group
        \/ \E g \in duplicate_groups : Class(i) \subseteq g /\ (IsFaithful => g = Class(i))
    BY <1>3 DEF ClassInv, Settled, Finding
  <2>2. i \in Class(i)
    BY ContentEquivalence DEF Class
  <2>3. Size(i[2]) = n => Class(i) \subseteq group'
    BY <1>4, <1>7 DEF Class, OfSize
  <2> QED BY <1>3, <1>4, <2>1, <2>2, <2>3
<1>10. Exact'
  BY <1>3, <1>5 DEF ClassInv, Exact
<1>11. BeforeAndAfter'
  BY <1>4 DEF BeforeAndAfter
<1> QED BY <1>2, <1>6, <1>8, <1>9, <1>10, <1>11 DEF ClassInv

(* A round drops no file that has a peer of its content.                   *)
LEMMA PeersSurvive ==
    ASSUME TypeInv, Together, NEW i \in group, NEW j \in files, i # j, SameContent(i, j), NEW k
    PROVE  i \in Surviving(k) /\ j \in Surviving(k)
<1>1. j \in group
  BY DEF Together
<1>2. compute_block_hash(i, k) = compute_block_hash(j, k)
  BY SameContentSame
<1> QED BY <1>1, <1>2 DEF Surviving

(* A round of reading keeps ClassInv.                                      *)
LEMMA ReadRoundClasses ==
    ASSUME ClassInv, ReadRound
    PROVE  ClassInv'
<1>1. TypeInv /\ HashesRight /\ Together /\ InputOK /\ FinderTypes /\ Unread /\ [Next]_vars
  BY TypeInvParts DEF ClassInv, Next
<1>2. TypeInv' /\ HashesRight'
  BY <1>1, TypeStep, HashesRightStep
<1>3. /\ pc = "reading" /\ files' = files /\ todo' = todo
      /\ duplicate_groups' = duplicate_groups /\ group \subseteq files
  BY <1>1, ReadRoundIs DEF scanner, FinderTypes
<1>4. /\ \A i, j : SameContent(i, j)' <=> SameContent(i, j)
      /\ IsFaithful' <=> IsFaithful
      /\ \A i : Class(i)' = Class(i)
      /\ \A f : Size(f)' = Size(f)
      /\ \A s : num_blocks(s)' = num_blocks(s)
  BY <1>1, <1>3, ClassesStay, HashesStay
<1>5. Exact'
  BY <1>3, <1>4 DEF ClassInv, Exact
<1>6. CASE /\ group' = Surviving(block_idx)
           /\ block_idx' = block_idx + 1
           /\ \/ pc' = "reporting"
                 /\ (\/ group' = {}
                     \/ block_idx' = num_blocks(Size((CHOOSE i \in group : TRUE)[2])))
              \/ pc' = "reading"
  <2>1. group' \subseteq group
    BY <1>6 DEF Surviving
  <2>2. AllRead'
    <3> SUFFICES ASSUME pc' = "reporting", NEW i \in group'
                 PROVE  block_idx' = num_blocks(Size(i[2]))
      BY <1>4 DEF AllRead
    <3> DEFINE first == CHOOSE j \in group : TRUE
    <3>1. first \in group /\ i \in group
      BY <2>1
    <3>2. block_idx' = num_blocks(Size(first[2]))
      BY <1>6
    <3> HIDE DEF first
    <3>3. Size(i[2]) = Size(first[2])
      BY <1>1, <3>1 DEF FinderTypes
    <3> QED BY <3>2, <3>3
  <2>3. Together'
    <3> SUFFICES ASSUME NEW i \in group', NEW j \in files, i # j, SameContent(i, j)
                 PROVE  j \in group'
      BY <1>3, <1>4 DEF Together
    <3> QED BY <1>1, <1>6, <2>1, PeersSurvive
  <2>4. Settled'
    <3> SUFFICES ASSUME NEW i \in files, NEW j \in files, i # j, SameContent(i, j)
                 PROVE  \/ Size(i[2]) \in todo
                        \/ Class(i) \subseteq group'
                        \/ \E g \in duplicate_groups :
                              Class(i) \subseteq g /\ (IsFaithful => g = Class(i))
      BY <1>3, <1>4 DEF Settled
    <3>1. \/ Size(i[2]) \in todo
          \/ Class(i) \subseteq group
          \/ \E g \in duplicate_groups : Class(i) \subseteq g /\ (IsFaithful => g = Class(i))
      BY <1>3 DEF ClassInv, Settled, Finding
    <3>2. ASSUME Class(i) \subseteq group, NEW k \in Class(i) PROVE k \in group'
      <4>1. k \in files /\ SameContent(i, k) /\ i \in Class(i)
        BY ContentEquivalence DEF Class
      <4>2. i \in group /\ k \in group
        BY <3>2, <4>1
      <4>3. i \in Surviving(block_idx)
        BY <1>1, <4>2, PeersSurvive
      <4>4. k # i => k \in Surviving(block_idx)
        BY <1>1, <4>1, <4>2, PeersSurvive
      <4> QED BY <1>6, <4>3, <4>4
    <3> QED BY <3>1, <3>2
  <2>5. BeforeAndAfter'
    BY <1>6 DEF BeforeAndAfter
  <2> QED BY <1>2, <1>5, <2>2, <2>3, <2>4, <2>5 DEF ClassInv
<1>7. CASE pc' = "done" /\ status' = "FILE_ERROR" /\ UNCHANGED <<group, block_idx>>
  <2>1. AllRead' /\ Settled' /\ BeforeAndAfter'
    BY <1>7 DEF AllRead, Settled, Finding, BeforeAndAfter
  <2>2. Together'
    BY <1>1, <1>3, <1>4, <1>7 DEF Together
  <2> QED BY <1>2, <1>5, <2>1, <2>2 DEF ClassInv
<1> QED BY <1>6, <1>7, ReadRoundIs, Zenon


(* The group reported with a file.                                         *)
GroupOf(i) == {j \in group : FlattenSeq(get_hashes(j)) = FlattenSeq(get_hashes(i))}

(* A report makes a group of each text of hashes.                          *)
LEMMA GroupsByHashIs == GroupsByHash = {GroupOf(i) : i \in group}
BY DEF GroupsByHash, GroupOf

(* It has the files compared that are of the content of the file, and if   *)
(* the digests are faithful no others.                                     *)
LEMMA GroupOfIs ==
    ASSUME ClassInv, pc = "reporting", NEW i \in group
    PROVE  /\ i \in GroupOf(i) /\ GroupOf(i) \subseteq group
           /\ Class(i) \subseteq group => Class(i) \subseteq GroupOf(i)
           /\ IsFaithful => GroupOf(i) \subseteq Class(i)
<1>1. TypeInv /\ HashesRight /\ AllRead /\ group \subseteq files
  BY TypeInvParts DEF ClassInv, FinderTypes
<1>2. i \in GroupOf(i) /\ GroupOf(i) \subseteq group
  BY DEF GroupOf
<1>3. ASSUME Class(i) \subseteq group, NEW j \in Class(i) PROVE j \in GroupOf(i)
  <2>1. j \in group /\ SameContent(i, j)
    BY <1>3 DEF Class
  <2>2. FlattenSeq(get_hashes(j)) = FlattenSeq(get_hashes(i))
    BY <1>1, <2>1, SameText
  <2> QED BY <2>1, <2>2 DEF GroupOf
<1>4. ASSUME IsFaithful, NEW j \in GroupOf(i) PROVE j \in Class(i)
  <2>1. j \in group /\ FlattenSeq(get_hashes(j)) = FlattenSeq(get_hashes(i))
    BY DEF GroupOf
  <2>2. SameContent(i, j)
    BY <1>1, <1>4, <2>1, SameTextSameContent
  <2> QED BY <1>1, <2>1, <2>2 DEF Class
<1> QED BY <1>2, <1>3, <1>4

(* A report keeps ClassInv.                                                *)
LEMMA ReportClasses ==
    ASSUME ClassInv, Report
    PROVE  ClassInv'
<1>1. TypeInv /\ HashesRight /\ Together /\ InputOK /\ FinderTypes /\ [Next]_vars
  BY TypeInvParts DEF ClassInv, Next
<1>2. TypeInv' /\ HashesRight'
  BY <1>1, TypeStep, HashesRightStep
<1>3. /\ pc = "reporting" /\ pc' = "grouping" /\ files' = files /\ todo' = todo
      /\ group' = {} /\ duplicate_groups' = duplicate_groups \cup {GroupOf(i) : i \in group}
      /\ group \subseteq files
  BY <1>1, GroupsByHashIs DEF Report, scanner, FinderTypes
<1>4. /\ \A i, j : SameContent(i, j)' <=> SameContent(i, j)
      /\ IsFaithful' <=> IsFaithful
      /\ \A i : Class(i)' = Class(i)
      /\ \A f : Size(f)' = Size(f)
  BY <1>1, <1>3, ClassesStay, HashesStay
<1>5. AllRead' /\ Together' /\ BeforeAndAfter'
  BY <1>3 DEF AllRead, Together, BeforeAndAfter
<1>6. Settled'
  <2> SUFFICES ASSUME NEW i \in files, NEW j \in files, i # j, SameContent(i, j)
               PROVE  \/ Size(i[2]) \in todo
                      \/ \E g \in duplicate_groups' :
                            Class(i) \subseteq g /\ (IsFaithful => g = Class(i))
    BY <1>3, <1>4 DEF Settled
  <2>1. \/ Size(i[2]) \in todo
        \/ Class(i) \subseteq group
        \/ \E g \in duplicate_groups : Class(i) \subseteq g /\ (IsFaithful => g = Class(i))
    BY <1>3 DEF ClassInv, Settled, Finding
  <2>2. ASSUME Class(i) \subseteq group
        PROVE  \E g \in duplicate_groups' :
                  Class(i) \subseteq g /\ (IsFaithful => g = Class(i))
    <3>1. i \in group
      BY <2>2, ContentEquivalence DEF Class
    <3>2. Class(i) \subseteq GroupOf(i) /\ (IsFaithful => GroupOf(i) \subseteq Class(i))
      BY <1>3, <2>2, <3>1, GroupOfIs
    <3>3. GroupOf(i) \in duplicate_groups'
      BY <1>3, <3>1
    <3>4. IsFaithful => GroupOf(i) = Class(i)
      BY <3>2
    <3> QED BY <3>2, <3>3, <3>4, Zenon
  <2> QED BY <1>3, <2>1, <2>2
<1>7. Exact'
  <2> SUFFICES ASSUME IsFaithful, NEW g \in duplicate_groups', Cardinality(g) >= 2
               PROVE  \E i \in files : g = Class(i)
    BY <1>3, <1>4 DEF Exact
  <2>1. CASE g \in duplicate_groups
    BY <2>1 DEF ClassInv, Exact
  <2>2. CASE g \notin duplicate_groups
    <3>1. PICK i \in group : g = GroupOf(i)
      BY <1>3, <2>2
    <3>2. /\ i \in g /\ g \subseteq Class(i)
          /\ Class(i) \subseteq group => Class(i) \subseteq g
      BY <1>3, <3>1, GroupOfIs
    <3>3. PICK j \in g : j # i
      BY <3>2, TwoOrMore
    <3>4. j \in files /\ SameContent(i, j)
      BY <3>2, <3>3 DEF Class
    <3>5. ASSUME NEW k \in Class(i) PROVE k \in group
      BY <1>1, <3>1 DEF Class, Together
    <3> QED BY <1>3, <3>1, <3>2, <3>5
  <2> QED BY <2>1, <2>2
<1> QED BY <1>2, <1>5, <1>6, <1>7 DEF ClassInv

(* The end, and a step of nothing, keep ClassInv.                          *)
LEMMA FinishClasses ==
    ASSUME ClassInv, Finish \/ UNCHANGED vars
    PROVE  ClassInv'
<1>1. TypeInv /\ HashesRight /\ InputOK /\ [Next]_vars
  BY TypeInvParts DEF ClassInv, Next
<1>2. TypeInv' /\ HashesRight'
  BY <1>1, TypeStep, HashesRightStep
<1>3. /\ files' = files /\ todo' = todo /\ group' = group /\ block_idx' = block_idx
      /\ hashes' = hashes /\ duplicate_groups' = duplicate_groups
      /\ \/ pc = "grouping" /\ todo = {} /\ group = {} /\ pc' = "done"
         \/ pc' = pc /\ status' = status
  BY DEF Finish, End, vars, scanner, finder
<1>4. /\ \A i, j : SameContent(i, j)' <=> SameContent(i, j)
      /\ IsFaithful' <=> IsFaithful
      /\ \A i : Class(i)' = Class(i)
      /\ \A f : Size(f)' = Size(f)
      /\ \A s : num_blocks(s)' = num_blocks(s)
  BY <1>1, <1>3, ClassesStay, HashesStay
<1>5. AllRead'
  BY <1>3, <1>4 DEF ClassInv, AllRead
<1>6. Together'
  BY <1>3, <1>4 DEF ClassInv, Together
<1>7. Settled'
  <2>1. Finding' => Finding
    BY <1>3 DEF Finding
  <2> QED BY <1>3, <1>4, <2>1 DEF ClassInv, Settled
<1>8. Exact'
  BY <1>3, <1>4 DEF ClassInv, Exact
<1>9. BeforeAndAfter'
  BY <1>3 DEF ClassInv, BeforeAndAfter
<1> QED BY <1>2, <1>5, <1>6, <1>7, <1>8, <1>9 DEF ClassInv

(* ClassInv is an invariant.                                               *)
THEOREM ClassInvHolds == Spec => []ClassInv
<1>1. Init => ClassInv
  <2> SUFFICES ASSUME Init PROVE ClassInv
    OBVIOUS
  <2>1. /\ TypeInv /\ pc = "options" /\ hashes = <<>> /\ group = {}
        /\ duplicate_groups = {}
    BY TypeInit DEF Init
  <2>2. HashesRight
    BY <2>1 DEF HashesRight
  <2>3. AllRead /\ Together /\ Settled
    BY <2>1 DEF AllRead, Together, Settled, Finding
  <2>4. Exact /\ BeforeAndAfter
    BY <2>1 DEF Exact, BeforeAndAfter
  <2> QED BY <2>1, <2>2, <2>3, <2>4 DEF ClassInv
<1>2. ClassInv /\ [Next]_vars => ClassInv'
  <2>1. ASSUME ClassInv, \/ OptionProcess \/ ConstructScanner \/ NextDirectory
                         \/ Visit \/ EndOfDirectory \/ ScanFails
        PROVE  ClassInv'
    BY <2>1, ScanClasses
  <2>2. ASSUME ClassInv, StartFinder \/ NextSize \/ ReadRound \/ Report PROVE ClassInv'
    BY <2>2, StartClasses, NextSizeClasses, ReadRoundClasses, ReportClasses
  <2>3. ASSUME ClassInv, Finish \/ UNCHANGED vars PROVE ClassInv'
    BY <2>3, FinishClasses
  <2> QED BY <2>1, <2>2, <2>3 DEF Next, SkipExcluded
<1> QED BY <1>1, <1>2, PTL DEF Spec

(* A program that ends well has printed all files of one content together, *)
(* and if digests are faithful the groups of two or more are exactly the   *)
(* sets of files of equal content (bayan.cpp:519-545).                     *)
THEOREM GroupsExact == Spec => []GroupsAreClasses
<1>1. ClassInv => GroupsAreClasses
  <2> SUFFICES ASSUME ClassInv, pc = "done", status = "SUCCESS"
               PROVE  LET classes == {{j \in files : SameContent(i, j)} : i \in files}
                          several(sets) == {g \in sets : Cardinality(g) >= 2}
                      IN  /\ \A c \in several(classes) : \E g \in duplicate_groups : c \subseteq g
                          /\ IsFaithful => several(duplicate_groups) = several(classes)
    BY DEF GroupsAreClasses, IsFaithful
  <2> DEFINE classes == {Class(i) : i \in files}
             several(sets) == {g \in sets : Cardinality(g) >= 2}
  <2>1. todo = {} /\ group = {}
    BY DEF ClassInv, BeforeAndAfter
  <2>2. ASSUME NEW c \in several(classes)
        PROVE  \E g \in duplicate_groups : c \subseteq g /\ (IsFaithful => g = c)
    <3>1. PICK i \in files : c = Class(i)
      OBVIOUS
    <3>2. i \in c
      BY <3>1, ContentEquivalence DEF Class
    <3>3. PICK j \in c : j # i
      BY <3>2, TwoOrMore
    <3>4. j \in files /\ SameContent(i, j)
      BY <3>1, <3>3 DEF Class
    <3> QED BY <2>1, <3>1, <3>2, <3>3, <3>4 DEF ClassInv, Settled, Finding
  <2>3. ASSUME IsFaithful PROVE several(duplicate_groups) = several(classes)
    <3>1. several(duplicate_groups) \subseteq several(classes)
      BY <2>3 DEF ClassInv, Exact
    <3>2. several(classes) \subseteq several(duplicate_groups)
      BY <2>2, <2>3
    <3> QED BY <3>1, <3>2
  <2> QED BY <2>2, <2>3 DEF Class
<1> QED BY <1>1, ClassInvHolds, PTL
=============================================================================
