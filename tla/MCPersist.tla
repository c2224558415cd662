----------------------------- MODULE MCPersist -----------------------------
(* Instances of Persist for TLC.                                           *)
EXTENDS Persist, SequencesExt

CONSTANTS a, b, c, x, y, z, sysv

MCSysFiles == <<File(sysv, <<x>>)>>
MCPaths2 == {a, b}
MCPaths3 == {a, b, c}

\* Sizes 1 and 2; three chunks are refused when RAMFS_FILE_SIZE is 3.
MCContents == {<<y>>, <<x, y>>}
MCSmall == {<<x>>, <<y>>, <<z>>}
MCOversize == {<<x>>, <<x, y, x>>}

\* A device holding an image of the given files, as a sync would leave it.
Image(version, fs) ==
    LET body == FlattenSeq([i \in DOMAIN fs |-> <<Meta(fs[i])>> \o [k \in DOMAIN fs[i].data |-> Data(fs[i].data[k])]])
        sum  == FoldSeq(LAMBDA f, s : Roll(s, Meta(f)), {}, fs)
    IN  [n \in Sectors |-> IF n = 0 THEN Super(version, Len(fs), IF version = AOS2 THEN sum ELSE {})
                           ELSE IF n <= Len(body) THEN body[n] ELSE Blank]

OnDisk(version, fs) == [disk |-> Image(version, fs), files |-> fs]

MCBlank == [disk |-> [n \in Sectors |-> Blank], files |-> <<>>]
MCTwoFiles == <<File(a, <<x, y>>), File(b, <<y>>)>>

MCImages == {OnDisk(AOS1, MCTwoFiles), OnDisk(AOS2, MCTwoFiles), MCBlank}
MCBlankOnly == {MCBlank}
\* Starting points of larger instances.
MCAOS1Only == {OnDisk(AOS1, MCTwoFiles)}
MCThreeFiles == <<File(a, <<x>>), File(b, <<y>>), File(c, <<z>>)>>
MCThreeOnly == {OnDisk(AOS2, MCThreeFiles)}
=============================================================================
