--------------------------------- MODULE Elf ---------------------------------
(***************************************************************************)
(* elf::try_parse (libraries/elf): the checks that an image passes before  *)
(* bootinit loads it, in the order of the code, one turn of a loop at a    *)
(* time.                                                                   *)
(*                                                                         *)
(* An image is the header field that is wrong, if any, and the types of    *)
(* its segments, dynamic entries and sections.  "bad_entry_size" stands    *)
(* for a RELAENT or SYMENT of another size, "dynsym" and "empty_dynsym"    *)
(* for the section of the dynamic symbol table, "beyond" for a section     *)
(* that ends behind the image.  The tables are read until a sentinel or a  *)
(* count says so: where that is missing, the parser runs over the end.     *)
(***************************************************************************)
EXTENDS Naturals, Sequences, Functions

CONSTANT ElfImages     \* bound: the images to try, besides those with a wrong header

SegmentTypes == {"load", "dynamic", "other", "unsupported"}
DynamicTags == {"needed", "symtab", "init_array", "init_array_size", "bad_entry_size", "unsupported", "null"}
SectionTypes == {"progbits", "dynsym", "empty_dynsym", "hash", "beyond"}

ASSUME ElfAssumption ==
    ElfImages \subseteq [wrong : {"none"}, segments : Seq(SegmentTypes), dynamic : Seq(DynamicTags),
                         sections : Seq(SectionTypes)]

VARIABLES
    image,      \* [wrong, segments, dynamic, sections]
    parsing,    \* [table, at]: the table the parser is in, and the entry
    parsed,     \* what it has found: "dynamic" and the dynamic tags with a meaning
    verdict     \* "none": none yet

elfVars == <<image, parsing, parsed, verdict>>

\* The fields that are looked at, in this order.
HeaderFields == {"size", "magic", "class", "encoding", "type", "machine", "version", "phoff", "shoff"}

GoodImage(segs, dyns, secs) == [wrong |-> "none", segments |-> segs, dynamic |-> dyns, sections |-> secs]

ElfInit ==
    /\ image = GoodImage(<< >>, << >>, << >>)
    /\ parsing = [table |-> "none", at |-> 0] /\ parsed = {} /\ verdict = "none"

ElfPick ==
    /\ parsing.table = "none"
    /\ \/ \E f \in HeaderFields : image' = [image EXCEPT !.wrong = f]
       \/ image' \in ElfImages
    /\ parsing' = [table |-> "header", at |-> 1]
    /\ UNCHANGED <<parsed, verdict>>

\* The tables.  sections() begins with the second entry and ends at shnum;
\* without a table, begin() is already behind end().
SegmentAt(i) == image.segments[i]
DynamicAt(i) == image.dynamic[i]
SectionAt(i) == image.sections[i + 1]

Refuse(why) == verdict' = why /\ UNCHANGED <<parsing, parsed>>

Enter(table) == parsing' = [table |-> table, at |-> 1]

Advance == parsing' = [parsing EXCEPT !.at = @ + 1]

ElfHeader ==
    /\ parsing.table = "header" /\ verdict = "none"
    /\ IF image.wrong # "none" THEN Refuse("header") ELSE Enter("segments") /\ UNCHANGED <<parsed, verdict>>
    /\ UNCHANGED image

\* MUTANT of ElfSegment: the loop goes on behind the last segment.
SegmentsOffByOne ==
    /\ parsing.table = "segments" /\ verdict = "none"
    /\ IF parsing.at > Len(image.segments) THEN Refuse("overrun") ELSE Advance /\ UNCHANGED <<parsed, verdict>>
    /\ UNCHANGED image

ElfSegment ==
    /\ parsing.table = "segments" /\ verdict = "none"
    /\ IF parsing.at > Len(image.segments)
       THEN Enter(IF "dynamic" \in parsed THEN "dynamic" ELSE "sections") /\ UNCHANGED <<parsed, verdict>>
       ELSE LET type == SegmentAt(parsing.at)
            IN  IF type = "unsupported" \/ (type = "dynamic" /\ "dynamic" \in parsed)
                THEN Refuse("segment")
                ELSE Advance /\ parsed' = parsed \cup ({type} \cap {"dynamic"}) /\ UNCHANGED verdict
    /\ UNCHANGED image

\* An init array comes with its size, and the size with an array.
Paired == ("init_array" \in parsed) <=> ("init_array_size" \in parsed)

ElfDynamic ==
    /\ parsing.table = "dynamic" /\ verdict = "none"
    /\ IF parsing.at > Len(image.dynamic) THEN Refuse("overrun")
       ELSE LET tag == DynamicAt(parsing.at)
            IN  CASE tag = "null" -> IF Paired THEN Enter("sections") /\ UNCHANGED <<parsed, verdict>>
                                               ELSE Refuse("dynamic")
                  [] tag \in {"bad_entry_size", "unsupported"} -> Refuse("dynamic")
                  [] OTHER -> Advance /\ parsed' = parsed \cup {tag} /\ UNCHANGED verdict
    /\ UNCHANGED image

\* The symbol table has a section that says how many symbols it has.
SymtabSized == "symtab" \in parsed => "dynsym" \in parsed

ElfSection ==
    /\ parsing.table = "sections" /\ verdict = "none"
    /\ IF image.sections = << >> THEN Refuse("overrun")
       ELSE IF parsing.at = Len(image.sections)
       THEN verdict' = (IF SymtabSized THEN "ok" ELSE "symtab") /\ UNCHANGED <<parsing, parsed>>
       ELSE LET type == SectionAt(parsing.at)
            IN  IF type \in {"beyond", "hash"} THEN Refuse("section")
                ELSE Advance /\ parsed' = parsed \cup ({type} \cap {"dynsym"}) /\ UNCHANGED verdict
    /\ UNCHANGED image

ElfNext == ElfPick \/ ElfHeader \/ ElfSegment \/ ElfDynamic \/ ElfSection

ElfSpec == ElfInit /\ [][ElfNext]_elfVars

-----------------------------------------------------------------------------
(* Properties *)

\* The dynamic entries up to the first null.
Entries == {image.dynamic[i] : i \in {j \in DOMAIN image.dynamic : \A k \in 1 .. j : image.dynamic[k] # "null"}}

\* The sections but for the first.
Sections == {image.sections[i] : i \in 2 .. Len(image.sections)}

HasDynamic == "dynamic" \in Range(image.segments)

\* The images that may be accepted, said of the image and not of the parser.
Loadable ==
    /\ image.wrong = "none"
    /\ "unsupported" \notin Range(image.segments)
    /\ \A i, j \in DOMAIN image.segments : image.segments[i] = "dynamic" /\ image.segments[j] = "dynamic" => i = j
    /\ image.sections # << >> /\ Sections \cap {"hash", "beyond"} = {}
    /\ HasDynamic => /\ Entries \cap {"bad_entry_size", "unsupported"} = {}
                     /\ {"init_array", "init_array_size"} \cap Entries \in {{}, {"init_array", "init_array_size"}}
                     /\ "symtab" \in Entries => "dynsym" \in Sections

\* The parser accepts the loadable images and no others, where the tables it
\* walks have an end; in particular an accepted image has at most one DYNAMIC
\* segment, complete init arrays, and symbols that can be counted.
AcceptsLoadable == verdict \notin {"none", "overrun"} => ((verdict = "ok") <=> Loadable)

\* The parser runs over the end of a table only in an image without sections
\* or with a dynamic table without its null entry, and then never accepts it.
OverrunOnlyUnterminated ==
    verdict = "overrun" => image.sections = << >> \/ (HasDynamic /\ "null" \notin Range(image.dynamic))

\* The parser's answer is right whenever it gives one, and it gives one for
\* every image whose tables have an end.
ParsesImages == AcceptsLoadable /\ OverrunOnlyUnterminated
=============================================================================
