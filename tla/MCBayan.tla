------------------------------ MODULE MCBayan ------------------------------
(***************************************************************************)
(* Four files in the directories top, top/sub and top/subway, of three     *)
(* bytes each or of mixed sizes.  The path of subway starts with that of   *)
(* sub.  The crc32 digests are decimal numbers of different lengths.       *)
(***************************************************************************)
EXTENDS Bayan

MCFiles == {"f1", "f2", "f3", "f4"}
MCDirs == {"top", "sub", "subway"}
MCHome == [e \in MCFiles \cup MCDirs |->
              CASE e = "f2" -> "sub" [] e = "f3" -> "subway" [] OTHER -> "top"]
MCStartsWith ==
    {<<d, d>> : d \in MCDirs} \cup {<<"sub", "top">>, <<"subway", "top">>, <<"subway", "sub">>}

Blocks == UNION {[1 .. n -> {1, 2}] : n \in 1 .. 3}
MCDigest ==
    [md5   |-> [b \in Blocks |-> [n \in 1 .. 3 |-> IF n <= Len(b) THEN b[n] ELSE 0]],
     crc32 |-> [b \in Blocks |-> CASE b = <<1>> -> <<1>>
                                   [] b = <<2>> -> <<1, 1>>
                                   [] OTHER -> <<2>> \o b]]

Default ==
    [help |-> FALSE, absolute |-> TRUE, scan_dirs |-> <<"top">>, scan_level |-> TRUE,
     block_size |-> 1, min_file_size |-> 1, exclude_dirs |-> {}, file_masks |-> {},
     masks_compile |-> TRUE,
     hash_algorithm |-> "md5"]

\* Command lines whose contents matter, and others about the scan.
Comparing == {[Default EXCEPT !.hash_algorithm = "crc32"], [Default EXCEPT !.block_size = 2]}
Three == [Default EXCEPT !.file_masks = {{"f1", "f2", "f3"}}]

Others ==
    {Default,
     [Default EXCEPT !.scan_level = FALSE, !.scan_dirs = <<"sub", "gone", "top">>],
     [Default EXCEPT !.scan_dirs = <<"top", "sub">>, !.file_masks = {{"f1", "f2"}, {"f2", "f4"}}],
     [Default EXCEPT !.exclude_dirs = {"sub"}],
     [Default EXCEPT !.exclude_dirs = {"sub"}, !.scan_dirs = <<"sub", "subway">>],
     [Default EXCEPT !.exclude_dirs = {"sub"}, !.scan_dirs = <<"sub", "subway">>, !.absolute = FALSE],
     [Default EXCEPT !.exclude_dirs = {"top"}, !.scan_dirs = <<"sub">>],
     [Default EXCEPT !.min_file_size = 0, !.block_size = 2],
     [Default EXCEPT !.min_file_size = 2, !.block_size = 2, !.scan_dirs = <<"top", "top">>]}

Refused ==
    {[Default EXCEPT !.help = TRUE, !.block_size = -1], [Default EXCEPT !.block_size = 0],
     [Default EXCEPT !.block_size = -1], [Default EXCEPT !.min_file_size = -1],
     [Default EXCEPT !.file_masks = {{}}, !.masks_compile = FALSE],
     [Default EXCEPT !.scan_dirs = <<>>], [Default EXCEPT !.hash_algorithm = "sha1"]}

Long == {c \in [MCFiles -> [1 .. 3 -> {1, 2}]] : c["f1"] \in {<<1, 1, 1>>, <<1, 1, 2>>}}
Mixed == {c \in [MCFiles -> {<<>>, <<1>>, <<1, 2>>, <<2, 1>>}] : c["f4"] # <<2, 1>>}

Case(argvs, contents, faults) == [argv : argvs, content : contents, faulty : faults]

MCCases ==
    Case(Comparing, Long, {FALSE}) \cup Case(Others, Mixed, {FALSE})
        \cup Case({Three}, {c \in Long : c["f4"] = <<1, 1, 1>>}, {FALSE})
        \cup Case(Others, {c \in Mixed : c["f3"] = c["f4"] /\ c["f4"] = <<1, 2>>}, {TRUE})
        \cup Case(Refused, {[f \in MCFiles |-> <<1>>]}, BOOLEAN)
=============================================================================
