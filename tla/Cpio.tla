-------------------------------- MODULE Cpio --------------------------------
(***************************************************************************)
(* Reading the initrd (libraries/archive): try_cpio walks the archive once *)
(* to validate it, and operator[] walks it again for every lookup.         *)
(*                                                                         *)
(* An archive is the sequence of its entries, packed one behind the other  *)
(* as the newc format asks for, and a length.  A name is a sequence of     *)
(* characters; the archive stores it with a NUL behind it, and namesize    *)
(* counts the NUL.  What does not start at an entry has no magic number.   *)
(***************************************************************************)
EXTENDS Naturals, Sequences, FiniteSets

CONSTANTS
    CpioNames,      \* names of files in an archive
    CpioLookups,    \* names that are looked up
    CpioSizes,      \* sizes of files
    CpioMaxEntries, \* bound: entries before the trailer
    CpioBlocks      \* the lengths of archives are multiples of one of these

VARIABLES
    archive,    \* [entries, offsets, length]; the offsets of the entries, and of what follows them
    walk,       \* [at, op, name]: the offset of the header to look at, and for what
    size,       \* try_cpio: the files counted
    answer      \* what try_cpio or operator[] has returned; << >>: nothing yet

cpioVars == <<archive, walk, size, answer>>

HeaderSize == 110       \* sizeof(cpio_header)
TrailerName == <<"T", "R">>

\* rosestd compares two string_views up to the length of the shorter one; the
\* NUL of the archive's name differs from every character of the other.
SameName(stored, name) == Len(name) <= Len(stored) /\ \A i \in 1 .. Len(name) : stored[i] = name[i]

\* The format keeps the name of the trailer for the trailer.
ASSUME CpioAssumption ==
    /\ CpioNames \subseteq Seq(STRING) /\ CpioSizes \subseteq Nat /\ CpioBlocks \subseteq Nat \ {0}
    /\ \A name \in CpioNames : ~ SameName(name, TrailerName)

-----------------------------------------------------------------------------
(* The format *)

NameSize(e) == Len(e.name) + 1

NamePadding(e) == (4 - ((HeaderSize + NameSize(e)) % 4)) % 4

FilePadding(e) == (4 - (e.size % 4)) % 4

\* MUTANT of Stride: files are taken to end where the next header starts.
NoFilePadding(e) == HeaderSize + NameSize(e) + NamePadding(e) + e.size

\* From one header to the next.
Stride(e) == HeaderSize + NameSize(e) + NamePadding(e) + e.size + FilePadding(e)

\* contents(), for the header at an offset
ContentsOffset(e, off) == off + HeaderSize + NameSize(e) + NamePadding(e)

\* What the archiver writes: every header and every file start at a multiple of 4.
RoundUp(n, m) == ((n + m - 1) \div m) * m
Contents(e, at) == RoundUp(at + HeaderSize + NameSize(e), 4)
Follows(e, at) == RoundUp(Contents(e, at) + e.size, 4)

\* The entry whose header is at an offset, if there is one.
EntriesAt(off) == {i \in DOMAIN archive.entries : archive.offsets[i] = off}

IsFile(e) == e.mode \in {"file", "symlink"}     \* mode & 0100000

-----------------------------------------------------------------------------
(* get_entry *)

EntryResult(off) ==
    CASE off + HeaderSize >= archive.length -> "end of entry would be past the limit"
      [] off + HeaderSize < archive.length /\ EntriesAt(off) = {} -> "magic did not match"
      [] OTHER -> LET e == archive.entries[CHOOSE i \in EntriesAt(off) : TRUE]
                  IN  IF off + Stride(e) >= archive.length
                      THEN "end of file would be past the limit" ELSE "ok"

EntryAt(off) == archive.entries[CHOOSE i \in EntriesAt(off) : TRUE]

-----------------------------------------------------------------------------

CpioInit ==
    /\ archive = [entries |-> << >>, offsets |-> <<0>>, length |-> 0]
    /\ walk = [at |-> 0, op |-> "none", name |-> << >>]
    /\ size = 0 /\ answer = << >>

End == archive.offsets[Len(archive.entries) + 1]

\* The archive with another entry.
With(e, length) ==
    [entries |-> Append(archive.entries, e), offsets |-> Append(archive.offsets, Follows(e, End)), length |-> length]

Packable == [name : CpioNames, mode : {"file", "symlink", "directory"}, size : CpioSizes]
Trailer == [name |-> TrailerName, mode |-> "none", size |-> 0]

CpioPack ==
    /\ walk.op = "none" /\ Len(archive.entries) < CpioMaxEntries
    /\ \E e \in Packable : archive' = With(e, 0)
    /\ UNCHANGED <<walk, size, answer>>

\* An archive is mapped: complete, or shorter than what was written.
CpioMap ==
    /\ walk.op = "none"
    /\ LET end == Follows(Trailer, End)
       IN  \E length \in {RoundUp(end, b) : b \in CpioBlocks} \cup {end - HeaderSize} : archive' = With(Trailer, length)
    /\ walk' = [walk EXCEPT !.op = "try_cpio"]
    /\ UNCHANGED <<size, answer>>

\* One turn of the loop of try_cpio.
CpioTry ==
    /\ walk.op = "try_cpio" /\ answer = << >>
    /\ LET res == EntryResult(walk.at)
           e   == EntryAt(walk.at)
       IN  IF res # "ok"
           THEN answer' = <<res, walk.at>> /\ UNCHANGED <<size, walk>>
           ELSE /\ size' = IF IsFile(e) THEN size + 1 ELSE size
                /\ IF SameName(e.name, TrailerName)
                   THEN answer' = <<"ok", size'>> /\ UNCHANGED walk
                   ELSE walk' = [walk EXCEPT !.at = walk.at + Stride(e)] /\ UNCHANGED answer
    /\ UNCHANGED archive

\* A name is looked up in an archive that try_cpio has accepted.
CpioLookup(name) ==
    /\ walk.op = "try_cpio" /\ answer # << >> /\ answer[1] = "ok"
    /\ walk' = [at |-> 0, op |-> "lookup", name |-> name] /\ answer' = << >>
    /\ UNCHANGED <<archive, size>>

\* One turn of the loop of operator[].
CpioFind ==
    /\ walk.op = "lookup" /\ answer = << >>
    /\ LET res == EntryResult(walk.at)
           e   == EntryAt(walk.at)
       IN  CASE res # "ok" -> answer' = <<"broken">> /\ UNCHANGED walk
             [] res = "ok" /\ IsFile(e) /\ SameName(e.name, walk.name) ->
                   answer' = <<"found", ContentsOffset(e, walk.at), e.size>> /\ UNCHANGED walk
             [] res = "ok" /\ ~(IsFile(e) /\ SameName(e.name, walk.name)) /\ SameName(e.name, TrailerName) ->
                   answer' = <<"none">> /\ UNCHANGED walk
             [] OTHER -> walk' = [walk EXCEPT !.at = walk.at + Stride(e)] /\ UNCHANGED answer
    /\ UNCHANGED <<archive, size>>

CpioNext == CpioPack \/ CpioMap \/ CpioTry \/ CpioFind \/ \E name \in CpioLookups : CpioLookup(name)

CpioSpec == CpioInit /\ [][CpioNext]_cpioVars

-----------------------------------------------------------------------------
(* Properties *)

\* The walk never leaves the archive, and no header is looked at that is not
\* the header of an entry: the strides add up to the layout, paddings included.
WalkOnEntries ==
    (walk.op # "none" /\ answer = << >>) => EntriesAt(walk.at) # {}

\* The files of e's archive that a lookup may return, in order.
Candidates(name) ==
    {i \in DOMAIN archive.entries : IsFile(archive.entries[i]) /\ SameName(archive.entries[i].name, name)}

\* A lookup in a validated archive returns the contents of the first file
\* whose name begins with the name looked up, and nothing if there is none:
\* what try_cpio has accepted, operator[] never finds broken.
LookupFindsFirst ==
    (walk.op = "lookup" /\ answer # << >>) =>
        IF Candidates(walk.name) = {} THEN answer = <<"none">>
        ELSE LET i == CHOOSE i \in Candidates(walk.name) : \A j \in Candidates(walk.name) : i <= j
                 e == archive.entries[i]
             IN  answer = <<"found", Contents(e, archive.offsets[i]), e.size>>

\* try_cpio accepts an archive exactly if its trailer ends before the limit,
\* and has then counted its regular files and symbolic links.
AcceptsComplete ==
    LET es == archive.entries
    IN  (walk.op = "try_cpio" /\ answer # << >>) =>
            /\ (answer[1] = "ok") <=> (End < archive.length)
            /\ answer[1] = "ok" => answer[2] = Cardinality({i \in DOMAIN es : IsFile(es[i])})

\* Validation and lookup see the same archive, entry by entry, and that is the
\* one that was packed.
ReadsArchive == WalkOnEntries /\ LookupFindsFirst /\ AcceptsComplete
=============================================================================
