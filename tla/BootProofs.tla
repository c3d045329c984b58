----------------------------- MODULE BootProofs -----------------------------
(***************************************************************************)
(* What boot reads is understood: ELF images, the archive of the initial   *)
(* file system and the ACPI tables, whatever they hold and in whatever     *)
(* order.                                                                  *)
(***************************************************************************)
EXTENDS Elf, Cpio, Integers, Acpi, TLAPS

-----------------------------------------------------------------------------
(* ELF images (Elf) *)

Images ==
    [wrong : {"none"} \cup HeaderFields, segments : Seq(SegmentTypes), dynamic : Seq(DynamicTags),
     sections : Seq(SectionTypes)]

ElfTypeOK ==
    /\ image \in Images
    /\ parsing \in [table : {"none", "header", "segments", "dynamic", "sections"}, at : Nat]
    /\ verdict \in {"none", "header", "segment", "dynamic", "section", "symtab", "overrun", "ok"}
    /\ parsing.table = "none" => verdict = "none"
    /\ parsing.table \in {"none", "header"} => parsed = {}
    /\ parsing.table \in {"segments", "dynamic", "sections"} => image.wrong = "none" /\ parsing.at > 0

\* What the first n segments are, as the loop has seen them.
SegmentsSeen(n) ==
    /\ n <= Len(image.segments)
    /\ \A i \in 1 .. n : image.segments[i] # "unsupported"
    /\ \A i, j \in 1 .. n : image.segments[i] = "dynamic" /\ image.segments[j] = "dynamic" => i = j
    /\ "dynamic" \in parsed <=> \E i \in 1 .. n : image.segments[i] = "dynamic"

\* The first n dynamic entries.
DynamicsSeen(n) ==
    /\ n <= Len(image.dynamic)
    /\ \A i \in 1 .. n : image.dynamic[i] \notin {"null", "bad_entry_size", "unsupported"}
    /\ \A t \in DynamicTags : t \in parsed <=> \E i \in 1 .. n : image.dynamic[i] = t

\* All of them, up to the null entry.
DynamicsDone ==
    /\ HasDynamic => /\ Entries \cap {"bad_entry_size", "unsupported"} = {}
                     /\ "init_array" \in Entries <=> "init_array_size" \in Entries
    /\ "symtab" \in parsed <=> HasDynamic /\ "symtab" \in Entries

\* The first n sections behind the first.
SectionsSeen(n) ==
    /\ image.sections # << >> => n < Len(image.sections)
    /\ \A i \in 2 .. n + 1 : image.sections # << >> => image.sections[i] \notin {"hash", "beyond"}
    /\ "dynsym" \in parsed <=> image.sections # << >> /\ \E i \in 2 .. n + 1 : image.sections[i] = "dynsym"

TablesSeen ==
    /\ parsing.table = "segments" => SegmentsSeen(parsing.at - 1) /\ parsed \subseteq {"dynamic"}
    /\ parsing.table \in {"dynamic", "sections"} => SegmentsSeen(Len(image.segments))
    /\ parsing.table = "dynamic" => HasDynamic /\ DynamicsSeen(parsing.at - 1) /\ "dynsym" \notin parsed
    /\ parsing.table = "sections" => DynamicsDone /\ SectionsSeen(parsing.at - 1)

ElfInv == ElfTypeOK /\ TablesSeen /\ ParsesImages

\* Before an image is read, nothing is claimed of it.
LEMMA ElfInitInv == ElfInit => ElfInv
  <1>1. SUFFICES ASSUME ElfInit PROVE ElfInv
    BY Zenon
  <1>2. << >> \in Seq(SegmentTypes) /\ << >> \in Seq(DynamicTags) /\ << >> \in Seq(SectionTypes)
    OBVIOUS
  <1>3. ElfTypeOK
    BY <1>1, <1>2, Zenon DEF ElfInit, ElfTypeOK, Images, GoodImage
  <1>4. TablesSeen /\ ParsesImages
    BY <1>1, Zenon DEF ElfInit, TablesSeen, ParsesImages, AcceptsLoadable, OverrunOnlyUnterminated
  <1> QED BY <1>3, <1>4, Zenon DEF ElfInv

\* The tables of an image are sequences of the entries their types allow.
LEMMA ElfTables ==
    ASSUME image \in Images
    PROVE  /\ Len(image.segments) \in Nat /\ DOMAIN image.segments = 1 .. Len(image.segments)
           /\ \A i \in 1 .. Len(image.segments) : image.segments[i] \in SegmentTypes
           /\ Len(image.dynamic) \in Nat /\ DOMAIN image.dynamic = 1 .. Len(image.dynamic)
           /\ \A i \in 1 .. Len(image.dynamic) : image.dynamic[i] \in DynamicTags
           /\ Len(image.sections) \in Nat
           /\ image.sections = << >> <=> Len(image.sections) = 0
           /\ \A i \in 1 .. Len(image.sections) : image.sections[i] \in SectionTypes
  <1>1. /\ image.segments \in Seq(SegmentTypes) /\ image.dynamic \in Seq(DynamicTags)
        /\ image.sections \in Seq(SectionTypes)
    BY Zenon DEF Images
  <1> QED BY <1>1

\* Choosing an image keeps the invariant.
LEMMA ElfPickInv == ASSUME ElfInv, ElfPick PROVE ElfInv'
  <1>1. parsing' = [table |-> "header", at |-> 1] /\ parsed' = {} /\ verdict' = verdict
    BY Zenon DEF ElfInv, ElfTypeOK, ElfPick
  <1>2. image' \in Images
    <2>1. CASE image' \in ElfImages
      BY <2>1, ElfAssumption, Zenon DEF Images
    <2>2. CASE \E f \in HeaderFields : image' = [image EXCEPT !.wrong = f]
      BY <2>2, Zenon DEF ElfInv, ElfTypeOK, Images
    <2> QED BY <2>1, <2>2, Zenon DEF ElfPick
  <1>3. ElfTypeOK'
    BY <1>1, <1>2, Zenon DEF ElfInv, ElfTypeOK
  <1>4. TablesSeen'
    BY <1>1, Zenon DEF TablesSeen
  <1>5. verdict = "none"
    BY Zenon DEF ElfInv, ElfTypeOK, ElfPick
  <1> QED BY <1>1, <1>3, <1>4, <1>5, Zenon DEF ElfInv, ParsesImages, AcceptsLoadable, OverrunOnlyUnterminated

\* The checks of the header keep the invariant: an image is refused for a wrong field only.
LEMMA ElfHeaderInv == ASSUME ElfInv, ElfHeader PROVE ElfInv'
  <1>1. image \in Images /\ parsing.table = "header" /\ parsed = {} /\ verdict = "none" /\ image' = image
    BY Zenon DEF ElfInv, ElfTypeOK, ElfHeader
  <1>2. CASE image.wrong # "none"
    BY <1>1, <1>2, Zenon DEF ElfHeader, ElfInv, ElfTypeOK, Refuse, TablesSeen, ParsesImages, AcceptsLoadable,
                      OverrunOnlyUnterminated, Loadable
  <1>3. CASE image.wrong = "none"
    <2>1. parsing' = [table |-> "segments", at |-> 1] /\ parsed' = {} /\ verdict' = "none"
      BY <1>1, <1>3, Zenon DEF ElfHeader, Enter
    <2>2. SegmentsSeen(0)'
      BY <1>1, <2>1, ElfTables DEF SegmentsSeen
    <2>3. TablesSeen'
      BY <2>1, <2>2 DEF TablesSeen
    <2>4. ElfTypeOK'
      BY <1>1, <1>3, <2>1 DEF ElfTypeOK
    <2> QED BY <2>1, <2>3, <2>4, Zenon DEF ElfInv, ParsesImages, AcceptsLoadable, OverrunOnlyUnterminated
  <1> QED BY <1>2, <1>3, Zenon

\* The statements about the image say the same after a step that keeps it.
LEMMA ElfSameImage ==
    ASSUME image' = image
    PROVE  (Loadable' <=> Loadable) /\ (HasDynamic' <=> HasDynamic) /\ Entries' = Entries
  BY DEF Loadable, HasDynamic, Entries, Sections

\* What the loops have seen depends on the image and on the place they are at.
LEMMA ElfSameTables == ASSUME UNCHANGED <<image, parsing, parsed>>, TablesSeen PROVE TablesSeen'
  <1>1. SegmentsSeen(parsing.at - 1)' <=> SegmentsSeen(parsing.at - 1)
    BY Zenon DEF SegmentsSeen
  <1>2. SegmentsSeen(Len(image.segments))' <=> SegmentsSeen(Len(image.segments))
    BY Zenon DEF SegmentsSeen
  <1>3. DynamicsSeen(parsing.at - 1)' <=> DynamicsSeen(parsing.at - 1)
    BY Zenon DEF DynamicsSeen
  <1>4. DynamicsDone' <=> DynamicsDone
    BY ElfSameImage, Zenon DEF DynamicsDone
  <1>5. SectionsSeen(parsing.at - 1)' <=> SectionsSeen(parsing.at - 1)
    BY Zenon DEF SectionsSeen
  <1> QED BY <1>1, <1>2, <1>3, <1>4, <1>5, ElfSameImage, Zenon DEF TablesSeen

\* Refusing leaves everything but the verdict.
LEMMA ElfRefuses ==
    ASSUME ElfInv, image' = image, parsing.table \in {"segments", "dynamic", "sections"}, ~ Loadable,
           NEW why \in {"segment", "dynamic", "section"}, Refuse(why)
    PROVE  ElfInv'
  <1>1. ElfTypeOK'
    BY Zenon DEF ElfInv, ElfTypeOK, Refuse
  <1>2. TablesSeen'
    BY ElfSameTables, Zenon DEF ElfInv, Refuse
  <1>3. ParsesImages'
    BY ElfSameImage, Zenon DEF Refuse, ParsesImages, AcceptsLoadable, OverrunOnlyUnterminated
  <1> QED BY <1>1, <1>2, <1>3, Zenon DEF ElfInv

\* The loop over the segments keeps the invariant.
LEMMA ElfSegmentInv == ASSUME ElfInv, ElfSegment PROVE ElfInv'
  <1> DEFINE n == parsing.at
             type == image.segments[n]
  <1>1. /\ parsing.table = "segments" /\ verdict = "none" /\ image' = image /\ image \in Images /\ image.wrong = "none"
        /\ n \in Nat /\ n > 0 /\ SegmentsSeen(n - 1) /\ parsed \subseteq {"dynamic"}
        /\ parsing \in [table : {"none", "header", "segments", "dynamic", "sections"}, at : Nat]
    BY Zenon DEF ElfInv, ElfTypeOK, TablesSeen, ElfSegment
  <1>2. CASE n > Len(image.segments)
    <2>1. SegmentsSeen(Len(image.segments))
      BY <1>1, <1>2, ElfTables DEF SegmentsSeen
    <2>2. ("dynamic" \in parsed) <=> HasDynamic
      BY <1>1, <2>1, ElfTables, Zenon DEF SegmentsSeen, HasDynamic, Range
    <2>3. /\ parsing' = [table |-> IF "dynamic" \in parsed THEN "dynamic" ELSE "sections", at |-> 1]
          /\ parsed' = parsed /\ verdict' = verdict
      BY <1>2, Zenon DEF ElfSegment, Enter
    <2>4. SegmentsSeen(Len(image.segments))'
      BY <1>1, <2>1, <2>3 DEF SegmentsSeen
    <2>5. ElfTypeOK'
      BY <1>1, <2>3 DEF ElfTypeOK
    <2>6. CASE HasDynamic
      <3>1. DynamicsSeen(0)'
        BY <1>1, <2>3, ElfTables DEF DynamicsSeen, DynamicTags
      <3>2. TablesSeen'
        BY <1>1, <2>2, <2>3, <2>4, <2>6, <3>1, ElfSameImage, parsing'.at - 1 = 0, Zenon DEF TablesSeen
      <3> QED BY <1>1, <2>3, <2>5, <3>2, Zenon DEF ElfInv, ParsesImages, AcceptsLoadable, OverrunOnlyUnterminated
    <2>7. CASE ~ HasDynamic
      <3>1. parsed = {} /\ parsing'.at = 1 /\ parsing'.table = "sections"
        BY <1>1, <2>2, <2>3, <2>7, Zenon
      <3>2. DynamicsDone'
        BY <1>1, <2>3, <2>7, <3>1, ElfSameImage, Zenon DEF DynamicsDone
      <3>3. SectionsSeen(0)'
        BY <1>1, <2>3, <3>1, ElfTables DEF SectionsSeen
      <3>4. TablesSeen'
        BY <2>4, <3>1, <3>2, <3>3 DEF TablesSeen
      <3> QED BY <1>1, <2>3, <2>5, <3>4, Zenon DEF ElfInv, ParsesImages, AcceptsLoadable, OverrunOnlyUnterminated
    <2> QED BY <2>6, <2>7, Zenon
  <1>3. CASE n <= Len(image.segments)
    <2>1. n \in DOMAIN image.segments /\ type \in SegmentTypes /\ ~ n > Len(image.segments)
      BY <1>1, <1>3, ElfTables
    <2>2. CASE type = "unsupported" \/ (type = "dynamic" /\ "dynamic" \in parsed)
      <3>1. Refuse("segment")
        BY <2>1, <2>2, Zenon DEF ElfSegment, SegmentAt
      <3>2. ~ Loadable
        BY <1>1, <2>1, <2>2, ElfTables DEF Loadable, Range, SegmentsSeen
      <3> QED BY <1>1, <3>1, <3>2, ElfRefuses, Zenon
    <2>3. CASE ~ (type = "unsupported" \/ (type = "dynamic" /\ "dynamic" \in parsed))
      <3>1. /\ parsing' = [parsing EXCEPT !.at = n + 1]
            /\ parsed' = parsed \cup ({type} \cap {"dynamic"}) /\ verdict' = verdict
        BY <2>1, <2>3, Zenon DEF ElfSegment, SegmentAt, Advance
      <3>2. parsing'.table = "segments" /\ parsing'.at = n + 1 /\ parsing'.at - 1 = n
        BY <1>1, <3>1
      <3>3. SegmentsSeen(parsing.at - 1)'
        <4>1. \A i \in 1 .. n : i = n \/ i \in 1 .. n - 1
          BY <1>1
        <4>2. \A i \in 1 .. n : image.segments[i] # "unsupported"
          BY <1>1, <2>3, <4>1, Zenon DEF SegmentsSeen
        <4>3. \A i, j \in 1 .. n : image.segments[i] = "dynamic" /\ image.segments[j] = "dynamic" => i = j
          BY <1>1, <2>3, <4>1, Zenon DEF SegmentsSeen
        <4>4. "dynamic" \in parsed' <=> "dynamic" \in parsed \/ type = "dynamic"
          BY <3>1, Zenon
        <4>5. "dynamic" \in parsed' <=> \E i \in 1 .. n : image.segments[i] = "dynamic"
          BY <1>1, <4>1, <4>4 DEF SegmentsSeen
        <4> QED BY <1>1, <1>3, <3>2, <4>2, <4>3, <4>5, Zenon DEF SegmentsSeen
      <3>4. ElfTypeOK'
        BY <1>1, <3>1, <3>2 DEF ElfTypeOK
      <3>5. TablesSeen'
        BY <1>1, <3>1, <3>2, <3>3, Zenon DEF TablesSeen
      <3> QED BY <1>1, <3>1, <3>4, <3>5, Zenon DEF ElfInv, ParsesImages, AcceptsLoadable, OverrunOnlyUnterminated
    <2> QED BY <2>2, <2>3, Zenon
  <1> QED BY <1>1, <1>2, <1>3, ElfTables

\* The null entry ends what the entries are.
LEMMA ElfEntriesEnd ==
    ASSUME image \in Images, NEW n \in Nat, n > 0, n <= Len(image.dynamic), image.dynamic[n] = "null",
           DynamicsSeen(n - 1)
    PROVE  Entries = {image.dynamic[i] : i \in 1 .. n - 1}
  <1>1. {j \in DOMAIN image.dynamic : \A k \in 1 .. j : image.dynamic[k] # "null"} = 1 .. n - 1
    BY ElfTables DEF DynamicsSeen
  <1> QED BY <1>1, Zenon DEF Entries

\* The loop over the dynamic entries keeps the invariant, up to the null entry and behind it.
LEMMA ElfDynamicInv == ASSUME ElfInv, ElfDynamic PROVE ElfInv'
  <1> DEFINE n == parsing.at
             tag == image.dynamic[n]
  <1>1. /\ parsing.table = "dynamic" /\ verdict = "none" /\ image' = image /\ image \in Images /\ image.wrong = "none"
        /\ n \in Nat /\ n > 0 /\ SegmentsSeen(Len(image.segments)) /\ HasDynamic /\ DynamicsSeen(n - 1)
        /\ "dynsym" \notin parsed
        /\ parsing \in [table : {"none", "header", "segments", "dynamic", "sections"}, at : Nat]
    BY Zenon DEF ElfInv, ElfTypeOK, TablesSeen, ElfDynamic
  <1>2. CASE n > Len(image.dynamic)
    <2>1. verdict' = "overrun" /\ UNCHANGED <<parsing, parsed, image>>
      BY <1>1, <1>2, Zenon DEF ElfDynamic, Refuse
    <2>2. HasDynamic' /\ "null" \notin Range(image.dynamic)
      BY <1>1, <1>2, ElfTables, ElfSameImage DEF DynamicsSeen, Range
    <2>3. TablesSeen'
      BY <2>1, ElfSameTables, Zenon DEF ElfInv
    <2>4. ElfTypeOK'
      BY <1>1, <2>1, Zenon DEF ElfInv, ElfTypeOK
    <2> QED BY <2>1, <2>2, <2>3, <2>4, Zenon DEF ElfInv, ParsesImages, AcceptsLoadable, OverrunOnlyUnterminated
  <1>3. CASE n <= Len(image.dynamic)
    <2>1. n \in DOMAIN image.dynamic /\ tag \in DynamicTags /\ ~ n > Len(image.dynamic)
      BY <1>1, <1>3, ElfTables
    <2>2. CASE tag = "null"
      <3>1. Entries = {image.dynamic[i] : i \in 1 .. n - 1}
        BY <1>1, <1>3, <2>2, ElfEntriesEnd, Zenon
      <3>2. \A t \in DynamicTags : t \in parsed <=> t \in Entries
        BY <1>1, <3>1, Zenon DEF DynamicsSeen
      <3>3. CASE ~ Paired
        <4>1. Refuse("dynamic")
          BY <2>1, <2>2, <3>3, Zenon DEF ElfDynamic, DynamicAt
        <4>2. ~ Loadable
          BY <1>1, <3>2, <3>3, Zenon DEF Loadable, Paired, DynamicTags
        <4> QED BY <1>1, <4>1, <4>2, ElfRefuses, Zenon
      <3>4. CASE Paired
        <4>1. parsing' = [table |-> "sections", at |-> 1] /\ UNCHANGED <<parsed, verdict>>
          BY <2>1, <2>2, <3>4, Zenon DEF ElfDynamic, DynamicAt, Enter
        <4>2. SegmentsSeen(Len(image.segments))'
          BY <1>1, <4>1 DEF SegmentsSeen
        <4>3. DynamicsDone
          <5>1. Entries \cap {"bad_entry_size", "unsupported"} = {}
            BY <1>1, <3>1 DEF DynamicsSeen
          <5> QED BY <1>1, <3>2, <3>4, <5>1, Zenon DEF DynamicsDone, Paired, DynamicTags
        <4>4. SectionsSeen(0)'
          BY <1>1, <4>1, ElfTables DEF SectionsSeen
        <4>5. ElfTypeOK'
          BY <1>1, <4>1 DEF ElfTypeOK
        <4>6. TablesSeen'
          BY <1>1, <4>1, <4>2, <4>3, <4>4, ElfSameImage DEF TablesSeen, DynamicsDone
        <4> QED BY <1>1, <4>1, <4>5, <4>6, Zenon DEF ElfInv, ParsesImages, AcceptsLoadable, OverrunOnlyUnterminated
      <3> QED BY <3>3, <3>4, Zenon
    <2>3. CASE tag \in {"bad_entry_size", "unsupported"}
      <3>1. Refuse("dynamic")
        BY <2>1, <2>3, Zenon DEF ElfDynamic, DynamicAt
      <3>2. \A k \in 1 .. n : image.dynamic[k] # "null"
        BY <1>1, <2>3 DEF DynamicsSeen
      <3>3. tag \in Entries
        BY <2>1, <3>2, Zenon DEF Entries
      <3>4. ~ Loadable
        BY <1>1, <2>3, <3>3, Zenon DEF Loadable
      <3> QED BY <1>1, <3>1, <3>4, ElfRefuses, Zenon
    <2>4. CASE tag \notin {"null", "bad_entry_size", "unsupported"}
      <3>1. parsing' = [parsing EXCEPT !.at = n + 1] /\ parsed' = parsed \cup {tag} /\ verdict' = verdict
        BY <2>1, <2>4, Zenon DEF ElfDynamic, DynamicAt, Advance
      <3>2. parsing'.table = "dynamic" /\ parsing'.at = n + 1 /\ parsing'.at - 1 = n
        BY <1>1, <3>1
      <3>3. \A i \in 1 .. n : i = n \/ i \in 1 .. n - 1
        BY <1>1
      <3>4. DynamicsSeen(parsing.at - 1)'
        <4>1. \A i \in 1 .. n : image.dynamic[i] \notin {"null", "bad_entry_size", "unsupported"}
          BY <1>1, <2>4, <3>3, Zenon DEF DynamicsSeen
        <4>2. \A t \in DynamicTags : t \in parsed' <=> \E i \in 1 .. n : image.dynamic[i] = t
          BY <1>1, <3>1, <3>3 DEF DynamicsSeen
        <4> QED BY <1>1, <1>3, <3>2, <4>1, <4>2, Zenon DEF DynamicsSeen
      <3>5. SegmentsSeen(Len(image.segments))' /\ "dynsym" \notin parsed'
        BY <1>1, <2>1, <3>1 DEF SegmentsSeen, DynamicTags
      <3>6. ElfTypeOK'
        BY <1>1, <3>1, <3>2 DEF ElfTypeOK
      <3>7. TablesSeen'
        BY <1>1, <3>2, <3>4, <3>5, ElfSameImage, Zenon DEF TablesSeen
      <3> QED BY <1>1, <3>1, <3>6, <3>7, Zenon DEF ElfInv, ParsesImages, AcceptsLoadable, OverrunOnlyUnterminated
    <2> QED BY <2>2, <2>3, <2>4, Zenon
  <1> QED BY <1>1, <1>2, <1>3, ElfTables

\* The loop over the sections keeps the invariant, the symbol table it may meet included.
LEMMA ElfSectionInv == ASSUME ElfInv, ElfSection PROVE ElfInv'
  <1> DEFINE n == parsing.at
             type == image.sections[n + 1]
  <1>1. /\ parsing.table = "sections" /\ verdict = "none" /\ image' = image /\ image \in Images /\ image.wrong = "none"
        /\ n \in Nat /\ n > 0 /\ SegmentsSeen(Len(image.segments)) /\ DynamicsDone /\ SectionsSeen(n - 1)
        /\ parsing \in [table : {"none", "header", "segments", "dynamic", "sections"}, at : Nat]
    BY Zenon DEF ElfInv, ElfTypeOK, TablesSeen, ElfSection
  <1>2. CASE image.sections = << >>
    <2>1. verdict' = "overrun" /\ UNCHANGED <<parsing, parsed, image>>
      BY <1>1, <1>2, Zenon DEF ElfSection, Refuse
    <2>2. TablesSeen'
      BY <2>1, ElfSameTables, Zenon DEF ElfInv
    <2>3. ElfTypeOK'
      BY <1>1, <2>1, Zenon DEF ElfInv, ElfTypeOK
    <2> QED BY <1>2, <2>1, <2>2, <2>3, Zenon DEF ElfInv, ParsesImages, AcceptsLoadable, OverrunOnlyUnterminated
  <1>3. CASE image.sections # << >> /\ n = Len(image.sections)
    <2>1. verdict' = (IF SymtabSized THEN "ok" ELSE "symtab") /\ UNCHANGED <<parsing, parsed, image>>
      BY <1>1, <1>3, Zenon DEF ElfSection
    <2>2. "dynsym" \in parsed <=> "dynsym" \in Sections
      BY <1>1, <1>3 DEF SectionsSeen, Sections
    <2>3. Sections \cap {"hash", "beyond"} = {}
      BY <1>1, <1>3 DEF SectionsSeen, Sections
    <2>4. /\ "unsupported" \notin Range(image.segments)
          /\ \A i, j \in DOMAIN image.segments : image.segments[i] = "dynamic" /\ image.segments[j] = "dynamic" => i = j
      BY <1>1, ElfTables, Zenon DEF SegmentsSeen, Range
    <2>5. Loadable <=> SymtabSized
      BY <1>1, <1>3, <2>2, <2>3, <2>4, Zenon DEF Loadable, SymtabSized, DynamicsDone
    <2>6. TablesSeen'
      BY <2>1, ElfSameTables, Zenon DEF ElfInv
    <2>7. ElfTypeOK'
      BY <1>1, <2>1, Zenon DEF ElfInv, ElfTypeOK
    <2> QED BY <1>1, <2>1, <2>5, <2>6, <2>7, ElfSameImage, Zenon DEF ElfInv, ParsesImages, AcceptsLoadable, OverrunOnlyUnterminated
  <1>4. CASE image.sections # << >> /\ n # Len(image.sections)
    <2>1. n + 1 \in 2 .. Len(image.sections) /\ type \in SectionTypes
      BY <1>1, <1>4, ElfTables DEF SectionsSeen
    <2>2. CASE type \in {"beyond", "hash"}
      <3>1. Refuse("section")
        BY <1>4, <2>2, Zenon DEF ElfSection, SectionAt
      <3>2. ~ Loadable
        BY <2>1, <2>2, Zenon DEF Loadable, Sections
      <3> QED BY <1>1, <3>1, <3>2, ElfRefuses, Zenon
    <2>3. CASE type \notin {"beyond", "hash"}
      <3>1. /\ parsing' = [parsing EXCEPT !.at = n + 1] /\ verdict' = verdict
            /\ parsed' = parsed \cup ({type} \cap {"dynsym"})
        BY <1>4, <2>3, Zenon DEF ElfSection, SectionAt, Advance
      <3>2. parsing'.table = "sections" /\ parsing'.at = n + 1 /\ parsing'.at - 1 = n
        BY <1>1, <3>1
      <3>3. \A i \in 2 .. n + 1 : i = n + 1 \/ i \in 2 .. (n - 1) + 1
        BY <1>1
      <3>4. SectionsSeen(parsing.at - 1)'
        <4>1. \A i \in 2 .. n + 1 : image.sections[i] \notin {"hash", "beyond"}
          BY <1>1, <1>4, <2>3, <3>3, Zenon DEF SectionsSeen
        <4>2. "dynsym" \in parsed' <=> "dynsym" \in parsed \/ type = "dynsym"
          BY <3>1, Zenon
        <4>3. "dynsym" \in parsed' <=> \E i \in 2 .. n + 1 : image.sections[i] = "dynsym"
          BY <1>1, <1>4, <2>1, <3>3, <4>2, SMTT(30) DEF SectionsSeen
        <4> QED BY <1>1, <1>4, <2>1, <3>2, <4>1, <4>3, ElfTables, SMTT(30) DEF SectionsSeen
      <3>5. SegmentsSeen(Len(image.segments))' /\ DynamicsDone'
        BY <1>1, <2>1, <3>1, ElfSameImage DEF SegmentsSeen, DynamicsDone, SectionTypes
      <3>6. ElfTypeOK'
        BY <1>1, <3>1, <3>2 DEF ElfTypeOK
      <3>7. TablesSeen'
        BY <1>1, <3>2, <3>4, <3>5, Zenon DEF TablesSeen
      <3> QED BY <1>1, <3>1, <3>6, <3>7, Zenon DEF ElfInv, ParsesImages, AcceptsLoadable, OverrunOnlyUnterminated
    <2> QED BY <2>2, <2>3, Zenon
  <1> QED BY <1>2, <1>3, <1>4, Zenon

\* What the parser says of an image is right, whatever tables the image has and in
\* whatever order their entries stand: try_parse of elf.cpp finds the segments and
\* the tables that are there, and refuses what it should refuse.
THEOREM ImagesUnderstood == ElfSpec => []ParsesImages
  <1>1. ElfInit => ElfInv
    BY ElfInitInv, Zenon
  <1>2. ElfInv /\ [ElfNext]_elfVars => ElfInv'
    <2> SUFFICES ASSUME ElfInv, [ElfNext]_elfVars PROVE ElfInv'
      BY Zenon
    <2>1. CASE UNCHANGED elfVars
      <3>1. UNCHANGED <<image, parsing, parsed, verdict>>
        BY <2>1, Zenon DEF elfVars
      <3>2. ElfTypeOK'
        BY <3>1, Zenon DEF ElfInv, ElfTypeOK
      <3>3. ParsesImages'
        BY <3>1, ElfSameImage, Zenon DEF ElfInv, ParsesImages, AcceptsLoadable, OverrunOnlyUnterminated
      <3> QED BY <3>1, <3>2, <3>3, ElfSameTables, Zenon DEF ElfInv
    <2> QED BY <2>1, ElfPickInv, ElfHeaderInv, ElfSegmentInv, ElfDynamicInv, ElfSectionInv, Zenon DEF ElfNext
  <1>3. ElfInv => ParsesImages
    BY Zenon DEF ElfInv
  <1> QED BY <1>1, <1>2, <1>3, PTL DEF ElfSpec

-----------------------------------------------------------------------------
(* The archive (Cpio) *)

Archives == [entries : Seq(Packable \cup {Trailer}), offsets : Seq(Nat), length : Int]

\* The number of entries, and the files among the first k.
Count == Len(archive.entries)
Files(k) == {i \in 1 .. k : IsFile(archive.entries[i])}

\* What the archiver has written: the offsets are aligned, and leave room for the headers.
LayoutSound ==
    /\ archive \in Archives /\ Len(archive.offsets) = Count + 1 /\ archive.offsets[1] = 0
    /\ \A i \in 1 .. Count + 1 : archive.offsets[i] % 4 = 0
    /\ \A i \in 1 .. Count : archive.offsets[i + 1] = Follows(archive.entries[i], archive.offsets[i])
    /\ \A i, j \in 1 .. Count + 1 : i < j => archive.offsets[i] + HeaderSize < archive.offsets[j]

\* The trailer is the last entry, and there is no other.
TrailerLast ==
    /\ walk.op = "none" => \A i \in 1 .. Count : archive.entries[i] \in Packable
    /\ walk.op # "none" => Count > 0 /\ \A i \in 1 .. Count :
          IF i = Count THEN archive.entries[i] = Trailer ELSE archive.entries[i] \in Packable

\* The walk is at the header of entry k.
TryAt(k) == walk.at = archive.offsets[k] /\ size = Cardinality(Files(k - 1))
FindAt(k) == walk.at = archive.offsets[k] /\ \A i \in 1 .. k - 1 : i \notin Candidates(walk.name)

WalkSound ==
    /\ walk \in [at : Nat, op : {"none", "try_cpio", "lookup"}, name : {walk.name}]
    /\ walk.op = "none" => walk.at = 0 /\ size = 0 /\ answer = << >>
    /\ walk.op = "try_cpio" /\ answer = << >> => \E k \in 1 .. Count : TryAt(k)
    /\ walk.op = "lookup" => End < archive.length
    /\ walk.op = "lookup" /\ answer = << >> => \E k \in 1 .. Count : FindAt(k)

CpioInv == LayoutSound /\ TrailerLast /\ WalkSound /\ LookupFindsFirst /\ AcceptsComplete

\* Rounding up to 4 is padding with what is missing to 4.
LEMMA Padding ==
    ASSUME NEW at \in Nat, NEW n \in Nat, at % 4 = 0
    PROVE  /\ RoundUp(at + n, 4) = at + n + ((4 - (n % 4)) % 4)
           /\ RoundUp(at + n, 4) % 4 = 0 /\ RoundUp(at + n, 4) \in Nat /\ at + n <= RoundUp(at + n, 4)
  <1>1. PICK a \in Nat : at = 4 * a
    <2>1. at \div 4 \in Nat
      OBVIOUS
    <2>2. at = 4 * (at \div 4)
      OBVIOUS
    <2> QED BY <2>1, <2>2, Zenon
  <1>2. PICK q \in Nat, r \in 0 .. 3 : n = 4 * q + r
    <2>1. n \div 4 \in Nat /\ n - 4 * (n \div 4) \in 0 .. 3
      OBVIOUS
    <2>2. n = 4 * (n \div 4) + (n - 4 * (n \div 4))
      BY <2>1
    <2> QED BY <2>1, <2>2, Zenon
  <1>3. n % 4 = r
    BY <1>2
  <1>4. CASE r = 0
    <2>1. (at + n + 4 - 1) \div 4 = a + q
      BY <1>1, <1>2, <1>4
    <2>2. RoundUp(at + n, 4) = (a + q) * 4
      BY <2>1, Zenon DEF RoundUp
    <2>3. (4 - (n % 4)) % 4 = 0
      BY <1>3, <1>4
    <2>4. at + n + 0 = (a + q) * 4 /\ at + n <= (a + q) * 4
      BY <1>1, <1>2, <1>4
    <2>5. ((a + q) * 4) % 4 = 0 /\ (a + q) * 4 \in Nat /\ at + n = (a + q) * 4
      BY <1>1, <1>2, <1>4
    <2>6. RoundUp(at + n, 4) = at + n + ((4 - (n % 4)) % 4)
      BY <2>2, <2>3, <2>4, Zenon
    <2>7. RoundUp(at + n, 4) % 4 = 0 /\ RoundUp(at + n, 4) \in Nat /\ at + n <= RoundUp(at + n, 4)
      BY <2>2, <2>4, <2>5, Zenon
    <2> QED BY <2>6, <2>7, Zenon
  <1>5. CASE r # 0
    <2>1. (at + n + 4 - 1) \div 4 = a + q + 1
      BY <1>1, <1>2, <1>5
    <2>2. RoundUp(at + n, 4) = (a + q + 1) * 4
      BY <2>1, Zenon DEF RoundUp
    <2>3. (4 - (n % 4)) % 4 = 4 - r
      BY <1>3, <1>5
    <2>4. ((a + q + 1) * 4) % 4 = 0 /\ (a + q + 1) * 4 \in Nat /\ at + n + (4 - r) = (a + q + 1) * 4
          /\ at + n <= (a + q + 1) * 4
      BY <1>1, <1>2, <1>5
    <2>6. RoundUp(at + n, 4) = at + n + ((4 - (n % 4)) % 4)
      BY <2>2, <2>3, <2>4, Zenon
    <2>7. RoundUp(at + n, 4) % 4 = 0 /\ RoundUp(at + n, 4) \in Nat /\ at + n <= RoundUp(at + n, 4)
      BY <2>2, <2>4, Zenon
    <2> QED BY <2>6, <2>7, Zenon
  <1> QED BY <1>4, <1>5, Zenon

\* What Append does.
LEMMA AppendFacts ==
    ASSUME NEW S, NEW s \in Seq(S), NEW x \in S, NEW t, t = Append(s, x)
    PROVE  t \in Seq(S) /\ Len(t) = Len(s) + 1 /\ t[Len(s) + 1] = x /\ \A i \in 1 .. Len(s) : t[i] = s[i]
  OBVIOUS

\* The sizes in a header are numbers, and no name is empty.
LEMMA EntryTypes ==
    ASSUME NEW e \in Packable \cup {Trailer}
    PROVE  NameSize(e) \in Nat /\ NameSize(e) > 0 /\ e.size \in Nat
  <1>1. CASE e \in Packable
    <2>1. e.name \in Seq(STRING) /\ e.size \in Nat
      BY <1>1, CpioAssumption, Zenon DEF Packable
    <2> QED BY <2>1 DEF NameSize
  <1>2. CASE e = Trailer
    <2>1. e.name = <<"T", "R">> /\ e.size = 0
      BY <1>2, Zenon DEF Trailer, TrailerName
    <2> QED BY <2>1 DEF NameSize
  <1> QED BY <1>1, <1>2, Zenon

\* Where the reader goes on is where the archiver has put the next header.
LEMMA StrideFollows ==
    ASSUME NEW e \in Packable \cup {Trailer}, NEW at \in Nat, at % 4 = 0
    PROVE  /\ Follows(e, at) = at + Stride(e) /\ Contents(e, at) = ContentsOffset(e, at)
           /\ Follows(e, at) \in Nat /\ Follows(e, at) % 4 = 0 /\ at + HeaderSize < Follows(e, at)
  <1> DEFINE n == NameSize(e)
             s == e.size
  <1>1. n \in Nat /\ n > 0 /\ s \in Nat
    BY EntryTypes, Zenon
  <1> DEFINE c == Contents(e, at)
             p == (4 - ((HeaderSize + n) % 4)) % 4
             d == (4 - (s % 4)) % 4
  <1>2. HeaderSize + n \in Nat /\ p \in Nat /\ d \in Nat
    BY <1>1 DEF HeaderSize
  <1>3. RoundUp(at + (HeaderSize + n), 4) = at + (HeaderSize + n) + p /\ RoundUp(at + (HeaderSize + n), 4) % 4 = 0
    BY <1>2, Padding, Zenon
  <1>4. at + HeaderSize + NameSize(e) = at + (HeaderSize + n)
    BY <1>1 DEF HeaderSize
  <1>5. c = at + (HeaderSize + n) + p /\ c % 4 = 0
    BY <1>3, <1>4, Zenon DEF Contents
  <1>6. p = NamePadding(e) /\ d = FilePadding(e)
    BY Zenon DEF NamePadding, FilePadding
  <1> HIDE DEF c, p, d
  <1>7. c \in Nat
    BY <1>1, <1>2, <1>5 DEF HeaderSize
  <1>8. RoundUp(c + s, 4) = c + s + d /\ RoundUp(c + s, 4) % 4 = 0 /\ RoundUp(c + s, 4) \in Nat
    <2> HIDE DEF s
    <2>1. s \in Nat
      BY <1>1, Zenon
    <2> QED BY <1>5, <1>7, <2>1, Padding, Zenon DEF d
  <1>9. Follows(e, at) = RoundUp(c + s, 4)
    BY Zenon DEF Follows, c
  <1>10. ContentsOffset(e, at) = at + HeaderSize + n + p /\ Stride(e) = HeaderSize + n + p + s + d
    BY <1>6, Zenon DEF ContentsOffset, Stride
  <1>11. ContentsOffset(e, at) = c
    BY <1>1, <1>2, <1>5, <1>10 DEF HeaderSize
  <1>12. Follows(e, at) = at + Stride(e) /\ at + HeaderSize < Follows(e, at)
    <2> HIDE DEF n, s
    <2> QED BY <1>1, <1>2, <1>5, <1>8, <1>9, <1>10 DEF HeaderSize
  <1> QED BY <1>8, <1>9, <1>11, <1>12, Zenon DEF c

\* The entries and the offsets of an archive, by their types.
LEMMA ArchiveFacts ==
    ASSUME LayoutSound
    PROVE  /\ Count \in Nat /\ DOMAIN archive.entries = 1 .. Count /\ DOMAIN archive.offsets = 1 .. Count + 1
           /\ \A i \in 1 .. Count : archive.entries[i] \in Packable \cup {Trailer}
           /\ \A i \in 1 .. Count + 1 : archive.offsets[i] \in Nat
           /\ archive.entries \in Seq(Packable \cup {Trailer}) /\ archive.offsets \in Seq(Nat)
           /\ archive.length \in Int
  <1>1. archive.entries \in Seq(Packable \cup {Trailer}) /\ archive.offsets \in Seq(Nat) /\ archive.length \in Int
        /\ Len(archive.offsets) = Count + 1
    BY Zenon DEF LayoutSound, Archives
  <1> QED BY <1>1 DEF Count

\* What the proofs use of counting; EntriesCounted below shows it.
Counting ==
    /\ Cardinality({}) = 0
    /\ \A k \in Nat : \A S \in SUBSET (1 .. k) :
          /\ Cardinality(S) \in Nat /\ (S # {} => Cardinality(S) # 0)
          /\ Cardinality(S \cup {k + 1}) = Cardinality(S) + 1
          /\ \A T \in SUBSET S : Cardinality(T) <= Cardinality(S)

\* One entry more is one file more at most.
LEMMA FilesCounted ==
    ASSUME Counting, NEW k \in Nat
    PROVE  /\ Cardinality(Files(k)) \in Nat
           /\ IsFile(archive.entries[k + 1]) => Cardinality(Files(k + 1)) = Cardinality(Files(k)) + 1
           /\ ~ IsFile(archive.entries[k + 1]) => Files(k + 1) = Files(k)
  <1>1. Files(k) \in SUBSET (1 .. k)
    BY Zenon DEF Files
  <1>2. 1 .. k + 1 = (1 .. k) \cup {k + 1}
    OBVIOUS
  <1>3. IsFile(archive.entries[k + 1]) => Files(k + 1) = Files(k) \cup {k + 1}
    BY <1>2, Zenon DEF Files
  <1>4. ~ IsFile(archive.entries[k + 1]) => Files(k + 1) = Files(k)
    BY <1>2, Zenon DEF Files
  <1> QED BY <1>1, <1>3, <1>4, ZenonT(40) DEF Counting

\* An archive with nothing in it satisfies the invariant.
LEMMA CpioInitInv == CpioInit => CpioInv
  <1> SUFFICES ASSUME CpioInit PROVE CpioInv
    BY Zenon
  <1>1. archive.entries = << >> /\ archive.offsets = <<0>> /\ archive.length = 0
        /\ walk.at = 0 /\ walk.op = "none" /\ size = 0 /\ answer = << >>
        /\ archive = [entries |-> << >>, offsets |-> <<0>>, length |-> 0]
    BY Zenon DEF CpioInit
  <1>2. Count = 0 /\ archive \in Archives
    BY <1>1 DEF Count, Archives
  <1>3. LayoutSound
    BY <1>1, <1>2 DEF LayoutSound
  <1>4. TrailerLast /\ LookupFindsFirst /\ AcceptsComplete
    BY <1>1, <1>2 DEF TrailerLast, LookupFindsFirst, AcceptsComplete
  <1>5. WalkSound
    BY <1>1, Zenon DEF WalkSound, CpioInit
  <1> QED BY <1>3, <1>4, <1>5, Zenon DEF CpioInv

\* Packing an entry keeps the layout.
LEMMA WithSound ==
    ASSUME LayoutSound, NEW e \in Packable \cup {Trailer}, NEW length \in Int, archive' = With(e, length)
    PROVE  /\ LayoutSound' /\ Count' = Count + 1 /\ archive'.length = length
           /\ \A i \in 1 .. Count : archive'.entries[i] = archive.entries[i]
           /\ archive'.entries[Count + 1] = e
  <1> DEFINE n == Count
             next == Follows(e, End)
  <1>1. /\ n \in Nat /\ archive.entries \in Seq(Packable \cup {Trailer}) /\ archive.offsets \in Seq(Nat)
        /\ Len(archive.entries) = n /\ Len(archive.offsets) = n + 1
        /\ \A i \in 1 .. n + 1 : archive.offsets[i] \in Nat
    BY ArchiveFacts, Zenon DEF LayoutSound, Count
  <1>2. End \in Nat /\ End % 4 = 0 /\ End = archive.offsets[n + 1]
    <2>1. n + 1 \in 1 .. n + 1
      BY <1>1
    <2> QED BY <1>1, <2>1, Zenon DEF End, LayoutSound, Count
  <1>3. next \in Nat /\ next % 4 = 0 /\ End + HeaderSize < next
    BY <1>2, StrideFollows, Zenon
  <1>4. archive' = [entries |-> Append(archive.entries, e), offsets |-> Append(archive.offsets, next), length |-> length]
    BY Zenon DEF With
  <1>5. /\ archive'.entries = Append(archive.entries, e) /\ archive'.offsets = Append(archive.offsets, next)
        /\ archive'.length = length
    BY <1>4
  <1> HIDE DEF next
  <1>6. /\ archive'.entries \in Seq(Packable \cup {Trailer}) /\ Len(archive'.entries) = n + 1
        /\ archive'.entries[n + 1] = e /\ \A i \in 1 .. n : archive'.entries[i] = archive.entries[i]
    <2>1. archive.entries \in Seq(Packable \cup {Trailer}) /\ archive'.entries = Append(archive.entries, e)
      BY <1>1, <1>5, Zenon
    <2>2. /\ archive'.entries \in Seq(Packable \cup {Trailer}) /\ Len(archive'.entries) = Len(archive.entries) + 1
          /\ archive'.entries[Len(archive.entries) + 1] = e
          /\ \A i \in 1 .. Len(archive.entries) : archive'.entries[i] = archive.entries[i]
      BY ONLY <2>1, e \in Packable \cup {Trailer}, AppendFacts
    <2> QED BY <1>1, <2>2, Zenon
  <1>7. /\ archive'.offsets \in Seq(Nat) /\ Len(archive'.offsets) = n + 2
        /\ archive'.offsets[n + 2] = next /\ \A i \in 1 .. n + 1 : archive'.offsets[i] = archive.offsets[i]
    <2>1. Len(archive.offsets) + 1 = n + 2
      BY <1>1
    <2>2. archive.offsets \in Seq(Nat) /\ next \in Nat /\ archive'.offsets = Append(archive.offsets, next)
      BY <1>1, <1>3, <1>5, Zenon
    <2>3. /\ archive'.offsets \in Seq(Nat) /\ Len(archive'.offsets) = Len(archive.offsets) + 1
          /\ archive'.offsets[Len(archive.offsets) + 1] = next
          /\ \A i \in 1 .. Len(archive.offsets) : archive'.offsets[i] = archive.offsets[i]
      BY ONLY <2>2, AppendFacts
    <2> QED BY <1>1, <2>1, <2>3, Zenon
  <1>8. Count' = n + 1 /\ archive' \in Archives
    BY <1>4, <1>5, <1>6, <1>7, Zenon DEF Count, Archives
  <1> HIDE DEF n
  <1>9. \A i \in 1 .. n + 2 : i = n + 2 \/ i \in 1 .. n + 1
    BY <1>1 DEF n
  <1>10. \A i \in 1 .. n + 2 : archive'.offsets[i] % 4 = 0
    BY <1>3, <1>7, <1>9, Zenon DEF LayoutSound, n
  <1>11. ASSUME NEW i \in 1 .. n + 1 PROVE archive'.offsets[i + 1] = Follows(archive'.entries[i], archive'.offsets[i])
    <2>1. CASE i = n + 1
      <3>1. i + 1 = n + 2 /\ n + 1 \in 1 .. n + 1
        BY <1>1, <2>1
      <3>2. archive'.offsets[i] = End
        BY <1>2, <1>7, <2>1, <3>1, Zenon
      <3> QED BY <1>6, <1>7, <2>1, <3>1, <3>2, Zenon DEF next
    <2>2. CASE i # n + 1
      <3>1. i \in 1 .. n /\ i + 1 \in 1 .. n + 1 /\ i \in 1 .. n + 1
        BY <1>1, <2>2
      <3>2. archive.offsets[i + 1] = Follows(archive.entries[i], archive.offsets[i])
        BY <3>1, Zenon DEF LayoutSound, n
      <3> QED BY <1>6, <1>7, <3>1, <3>2, Zenon
    <2> QED BY <2>1, <2>2, Zenon
  <1>12. ASSUME NEW i \in 1 .. n + 2, NEW j \in 1 .. n + 2, i < j
         PROVE  archive'.offsets[i] + HeaderSize < archive'.offsets[j]
    <2>1. i \in 1 .. n + 1
      BY <1>1, <1>12
    <2>2. CASE j = n + 2
      <3>1. archive.offsets[i] <= End
        <4>1. CASE i = n + 1
          BY <1>2, <4>1
        <4>2. CASE i # n + 1
          <5>1. i < n + 1 /\ n + 1 \in 1 .. n + 1
            BY <1>1, <2>1, <4>2
          <5>2. archive.offsets[i] + HeaderSize < End /\ archive.offsets[i] \in Nat
            BY <1>1, <1>2, <2>1, <5>1, Zenon DEF LayoutSound, n
          <5> QED BY <1>2, <5>2 DEF HeaderSize
        <4> QED BY <4>1, <4>2, Zenon
      <3>2. archive.offsets[i] \in Nat /\ archive'.offsets[i] = archive.offsets[i] /\ archive'.offsets[j] = next
        BY <1>1, <1>7, <2>1, <2>2, Zenon
      <3> QED BY <1>2, <1>3, <3>1, <3>2 DEF HeaderSize
    <2>3. CASE j \in 1 .. n + 1
      BY <1>7, <1>12, <2>1, <2>3, Zenon DEF LayoutSound, n
    <2> QED BY <1>9, <2>2, <2>3, Zenon
  <1>13. archive'.offsets[1] = 0
    BY <1>1, <1>7 DEF LayoutSound
  <1>14. LayoutSound'
    <2>1. Count' + 1 = n + 2 /\ Len(archive'.offsets) = Count' + 1
      BY <1>1, <1>7, <1>8 DEF n
    <2> QED BY <1>8, <1>10, <1>11, <1>12, <1>13, <2>1, Zenon DEF LayoutSound
  <1> QED BY <1>5, <1>6, <1>8, <1>14, Zenon DEF n

-----------------------------------------------------------------------------

\* The header the walk is at is that of entry k, and get_entry accepts it
\* exactly if the entry ends before the limit.
LEMMA AtEntry ==
    ASSUME LayoutSound, NEW k \in 1 .. Count, walk.at = archive.offsets[k]
    PROVE  /\ EntriesAt(walk.at) = {k} /\ EntryAt(walk.at) = archive.entries[k]
           /\ EntryResult(walk.at) = "ok" <=> archive.offsets[k + 1] < archive.length
           /\ walk.at + Stride(archive.entries[k]) = archive.offsets[k + 1]
           /\ ContentsOffset(archive.entries[k], walk.at) = Contents(archive.entries[k], archive.offsets[k])
  <1> DEFINE e == archive.entries[k]
  <1>1. /\ Count \in Nat /\ DOMAIN archive.entries = 1 .. Count /\ archive.length \in Int
        /\ \A i \in 1 .. Count + 1 : archive.offsets[i] \in Nat
        /\ e \in Packable \cup {Trailer}
    BY ArchiveFacts, Zenon
  <1>2. k \in 1 .. Count + 1 /\ k + 1 \in 1 .. Count + 1 /\ k < k + 1
    BY <1>1
  <1>3. archive.offsets[k] \in Nat /\ archive.offsets[k] % 4 = 0 /\ archive.offsets[k + 1] \in Nat
        /\ archive.offsets[k] + HeaderSize < archive.offsets[k + 1]
        /\ archive.offsets[k + 1] = Follows(e, archive.offsets[k])
    BY <1>1, <1>2, Zenon DEF LayoutSound
  <1>4. walk.at + Stride(e) = archive.offsets[k + 1] /\ ContentsOffset(e, walk.at) = Contents(e, archive.offsets[k])
    BY <1>1, <1>3, StrideFollows, Zenon
  <1>5. ASSUME NEW i \in 1 .. Count, archive.offsets[i] = archive.offsets[k] PROVE i = k
    <2>1. i \in 1 .. Count + 1 /\ archive.offsets[i] \in Nat
      BY <1>1
    <2>2. ~ (i < k) /\ ~ (k < i)
      <3>1. i < k => archive.offsets[i] + HeaderSize < archive.offsets[k]
        BY <1>2, <2>1, Zenon DEF LayoutSound
      <3>2. k < i => archive.offsets[k] + HeaderSize < archive.offsets[i]
        BY <1>2, <2>1, Zenon DEF LayoutSound
      <3> QED BY <1>3, <1>5, <3>1, <3>2 DEF HeaderSize
    <2> QED BY <1>1, <2>2
  <1>6. EntriesAt(walk.at) = {k}
    BY <1>1, <1>5, Zenon DEF EntriesAt
  <1>7. EntryAt(walk.at) = e
    BY <1>6, Zenon DEF EntryAt
  <1>8. EntryResult(walk.at) = "ok" <=> archive.offsets[k + 1] < archive.length
    <2>1. archive.entries[CHOOSE i \in EntriesAt(walk.at) : TRUE] = e
      BY <1>6, Zenon
    <2>2. CASE walk.at + HeaderSize >= archive.length
      <3>1. EntryResult(walk.at) = "end of entry would be past the limit"
        BY <1>1, <1>3, <2>2, SMTT(30) DEF EntryResult, HeaderSize
      <3>2. ~ (archive.offsets[k + 1] < archive.length)
        BY <1>1, <1>3, <2>2 DEF HeaderSize
      <3> QED BY <3>1, <3>2, Zenon
    <2>3. CASE ~ (walk.at + HeaderSize >= archive.length)
      <3>1. EntryResult(walk.at) = IF walk.at + Stride(e) >= archive.length
                                   THEN "end of file would be past the limit" ELSE "ok"
        BY <1>6, <2>1, <2>3, Zenon DEF EntryResult
      <3>2. archive.offsets[k + 1] >= archive.length <=> ~ (archive.offsets[k + 1] < archive.length)
        BY <1>1, <1>3
      <3> QED BY <1>4, <3>1, <3>2, Zenon
    <2> QED BY <2>2, <2>3, Zenon
  <1> QED BY <1>4, <1>6, <1>7, <1>8, Zenon

\* In a mapped archive, the trailer is the entry that ends the walk.
LEMMA TrailerEnds ==
    ASSUME LayoutSound, TrailerLast, walk.op # "none", NEW k \in 1 .. Count
    PROVE  /\ SameName(archive.entries[k].name, TrailerName) <=> k = Count
           /\ k = Count => ~ IsFile(archive.entries[k])
  <1>1. CASE k = Count
    <2>1. archive.entries[k] = Trailer
      BY <1>1, Zenon DEF TrailerLast
    <2>2. archive.entries[k].name = <<"T", "R">> /\ archive.entries[k].mode = "none"
      BY <2>1 DEF Trailer, TrailerName
    <2>3. SameName(<<"T", "R">>, <<"T", "R">>)
      BY DEF SameName
    <2> QED BY <1>1, <2>2, <2>3, Zenon DEF TrailerName, IsFile
  <1>2. CASE k # Count
    <2>1. archive.entries[k] \in Packable
      BY <1>2, Zenon DEF TrailerLast
    <2>2. archive.entries[k].name \in CpioNames
      BY <2>1, Zenon DEF Packable
    <2> QED BY <1>2, <2>2, CpioAssumption, Zenon
  <1> QED BY <1>1, <1>2, Zenon

\* No entry ends behind the last one.
LEMMA EndsLast ==
    ASSUME LayoutSound, NEW k \in 1 .. Count
    PROVE  /\ End \in Nat /\ archive.offsets[k + 1] \in Nat /\ archive.offsets[k + 1] <= End
           /\ k = Count => archive.offsets[k + 1] = End
  <1>1. Count \in Nat /\ \A i \in 1 .. Count + 1 : archive.offsets[i] \in Nat
    BY ArchiveFacts, Zenon
  <1>2. End = archive.offsets[Count + 1] /\ k + 1 \in 1 .. Count + 1 /\ Count + 1 \in 1 .. Count + 1
    BY <1>1 DEF End, Count
  <1>3. k + 1 < Count + 1 => archive.offsets[k + 1] + HeaderSize < archive.offsets[Count + 1]
    BY <1>2, Zenon DEF LayoutSound
  <1>4. k + 1 = Count + 1 \/ k + 1 < Count + 1
    BY <1>1
  <1>5. archive.offsets[k + 1] \in Nat /\ archive.offsets[Count + 1] \in Nat
    BY <1>1, <1>2, Zenon
  <1>6. archive.offsets[k + 1] <= End
    BY <1>2, <1>3, <1>4, <1>5 DEF HeaderSize
  <1> QED BY <1>1, <1>2, <1>5, <1>6, Zenon

\* Opening the archive starts the walk at the first header.
LEMMA MapInv == ASSUME Counting, CpioInv, CpioMap PROVE CpioInv'
  <1> USE DEF CpioInv
  <1>1. walk.op = "none" /\ walk' = [walk EXCEPT !.op = "try_cpio"] /\ size' = size /\ answer' = answer
    BY Zenon DEF CpioMap
  <1>2. walk.at = 0 /\ size = 0 /\ answer = << >> /\ walk \in [at : Nat, op : {"none", "try_cpio", "lookup"}, name : {walk.name}]
    BY <1>1, Zenon DEF WalkSound
  <1>3. walk'.op = "try_cpio" /\ walk'.at = 0 /\ walk'.name = walk.name
    BY <1>1, <1>2, Zenon
  <1>4. Trailer \in Packable \cup {Trailer} /\ End \in Nat /\ End % 4 = 0
    <2>1. Count \in Nat /\ \A i \in 1 .. Count + 1 : archive.offsets[i] \in Nat
      BY ArchiveFacts, Zenon
    <2>2. Count + 1 \in 1 .. Count + 1
      BY <2>1
    <2> QED BY <2>1, <2>2, Zenon DEF LayoutSound, End, Count
  <1>5. Follows(Trailer, End) \in Nat
    BY <1>4, StrideFollows, Zenon
  <1>6. PICK length \in {RoundUp(Follows(Trailer, End), b) : b \in CpioBlocks} \cup {Follows(Trailer, End) - HeaderSize} :
            archive' = With(Trailer, length)
    BY Zenon DEF CpioMap
  <1>7. length \in Int
    <2>1. ASSUME NEW b \in CpioBlocks PROVE RoundUp(Follows(Trailer, End), b) \in Int
      <3>1. b \in Nat /\ b > 0
        BY CpioAssumption
      <3>2. (Follows(Trailer, End) + b - 1) \div b \in Int
        BY <1>5, <3>1
      <3> QED BY <3>1, <3>2 DEF RoundUp
    <2> QED BY <1>5, <1>6, <2>1 DEF HeaderSize
  <1>8. /\ LayoutSound' /\ Count' = Count + 1
        /\ \A i \in 1 .. Count : archive'.entries[i] = archive.entries[i]
        /\ archive'.entries[Count + 1] = Trailer
    BY <1>4, <1>6, <1>7, WithSound, Zenon
  <1>9. Count \in Nat
    BY ArchiveFacts, Zenon
  <1>10. TrailerLast'
    <2>1. ASSUME NEW i \in 1 .. Count + 1, i # Count + 1 PROVE archive'.entries[i] \in Packable
      <3>1. i \in 1 .. Count
        BY <1>9, <2>1
      <3> QED BY <1>1, <1>8, <3>1, Zenon DEF TrailerLast
    <2>2. Packable' = Packable /\ Trailer' = Trailer
      BY Zenon DEF Packable, Trailer, TrailerName
    <2> QED BY <1>3, <1>8, <1>9, <2>1, <2>2 DEF TrailerLast
  <1>11. TryAt(1)'
    <2>1. Files(0)' = {}
      BY DEF Files
    <2>2. size' = Cardinality(Files(0)')
      BY <1>1, <1>2, <2>1, Zenon DEF Counting
    <2>3. walk'.at = archive'.offsets[1]
      BY <1>3, <1>8, Zenon DEF LayoutSound
    <2> QED BY <2>2, <2>3 DEF TryAt
  <1>12. 1 \in 1 .. Count'
    BY <1>8, <1>9
  <1>13. walk' \in [at : Nat, op : {"none", "try_cpio", "lookup"}, name : {walk'.name}]
    BY <1>1, <1>2, Zenon
  <1>14. WalkSound'
    BY <1>3, <1>11, <1>12, <1>13, Zenon DEF WalkSound
  <1>15. LookupFindsFirst' /\ AcceptsComplete'
    BY <1>1, <1>2, <1>3, Zenon DEF LookupFindsFirst, AcceptsComplete
  <1> QED BY <1>8, <1>10, <1>14, <1>15, Zenon

\* The archiver keeps the layout, and does not write behind the trailer.
LEMMA PackInv == ASSUME CpioInv, CpioPack PROVE CpioInv'
  <1> USE DEF CpioInv
  <1>1. walk.op = "none" /\ walk' = walk /\ size' = size /\ answer' = answer
    BY Zenon DEF CpioPack
  <1>2. PICK e \in Packable : archive' = With(e, 0)
    BY Zenon DEF CpioPack
  <1>3. /\ LayoutSound' /\ Count' = Count + 1
        /\ \A i \in 1 .. Count : archive'.entries[i] = archive.entries[i]
        /\ archive'.entries[Count + 1] = e
    BY <1>2, WithSound
  <1>4. Count \in Nat
    BY ArchiveFacts, Zenon
  <1>5. TrailerLast'
    <2>1. ASSUME NEW i \in 1 .. Count + 1 PROVE archive'.entries[i] \in Packable
      <3>1. i = Count + 1 \/ i \in 1 .. Count
        BY <1>4
      <3> QED BY <1>1, <1>2, <1>3, <3>1, Zenon DEF TrailerLast
    <2>2. Packable' = Packable
      BY Zenon DEF Packable
    <2> QED BY <1>1, <1>3, <2>1, <2>2, Zenon DEF TrailerLast
  <1>6. WalkSound'
    BY <1>1, Zenon DEF WalkSound
  <1>7. LookupFindsFirst' /\ AcceptsComplete'
    BY <1>1, Zenon DEF LookupFindsFirst, AcceptsComplete
  <1> QED BY <1>3, <1>5, <1>6, <1>7, Zenon

\* What a step that reads the archive leaves alone.
LEMMA ReadSame ==
    ASSUME archive' = archive
    PROVE  /\ Count' = Count /\ End' = End /\ LayoutSound' = LayoutSound
           /\ \A k \in Nat : Files(k)' = Files(k)
           /\ \A name : Candidates(name)' = Candidates(name)
  <1>1. Count' = Count /\ End' = End
    BY Zenon DEF Count, End
  <1>2. LayoutSound' = LayoutSound
    BY <1>1 DEF LayoutSound, Archives, Packable, Trailer, TrailerName, Follows, Contents, RoundUp, NameSize, HeaderSize
  <1>3. \A k \in Nat : Files(k)' = Files(k)
    BY Zenon DEF Files, IsFile
  <1>4. \A name : Candidates(name)' = Candidates(name)
    BY Zenon DEF Candidates, IsFile, SameName
  <1> QED BY <1>1, <1>2, <1>3, <1>4, Zenon

\* An archive that does not change keeps its trailer.
LEMMA TrailerSame ==
    ASSUME archive' = archive, walk.op # "none", walk'.op # "none", TrailerLast PROVE TrailerLast'
  BY Zenon DEF TrailerLast, Count, Packable, Trailer, TrailerName

\* A step of try_cpio keeps the invariant: it counts one file more at most.
LEMMA TryInv == ASSUME Counting, CpioInv, CpioTry PROVE CpioInv'
  <1> USE DEF CpioInv
  <1>1. walk.op = "try_cpio" /\ answer = << >> /\ archive' = archive
    BY Zenon DEF CpioTry
  <1>2. PICK k \in 1 .. Count : TryAt(k)
    BY <1>1, Zenon DEF WalkSound
  <1> DEFINE e == archive.entries[k]
  <1>3. /\ EntryAt(walk.at) = e
        /\ EntryResult(walk.at) = "ok" <=> archive.offsets[k + 1] < archive.length
        /\ walk.at + Stride(e) = archive.offsets[k + 1]
    BY <1>2, AtEntry, Zenon DEF TryAt
  <1>4. (SameName(e.name, TrailerName) <=> k = Count) /\ (k = Count => ~ IsFile(e))
    BY <1>1, <1>2, TrailerEnds, Zenon
  <1>5. /\ End \in Nat /\ archive.offsets[k + 1] \in Nat /\ archive.offsets[k + 1] <= End
        /\ k = Count => archive.offsets[k + 1] = End
    BY EndsLast, Zenon
  <1>6. Count \in Nat /\ DOMAIN archive.entries = 1 .. Count /\ archive.length \in Int
    BY ArchiveFacts, Zenon
  <1>7. Count' = Count /\ End' = End /\ LayoutSound' /\ \A n \in Nat : Files(n)' = Files(n)
    BY <1>1, ReadSame, Zenon
  <1>8. walk \in [at : Nat, op : {"none", "try_cpio", "lookup"}, name : {walk.name}]
    BY Zenon DEF WalkSound
  <1>9. k - 1 \in Nat /\ (k - 1) + 1 = k /\ k \in Nat
    BY <1>6
  <1>10. size = Cardinality(Files(k - 1)) /\ (IsFile(e) => Cardinality(Files(k)) = size + 1)
         /\ (~ IsFile(e) => Files(k) = Files(k - 1))
    BY <1>2, <1>9, FilesCounted, Zenon DEF TryAt
  <1> HIDE DEF e
  <1>11. CASE EntryResult(walk.at) # "ok"
    <2>1. answer' = <<EntryResult(walk.at), walk.at>> /\ size' = size /\ walk' = walk
      BY <1>11, Zenon DEF CpioTry
    <2>2. answer' # << >> /\ answer'[1] # "ok"
      BY <1>11, <2>1, Zenon
    <2>3. ~ (End < archive.length)
      BY <1>3, <1>5, <1>6, <1>11
    <2>4. AcceptsComplete'
      BY <1>1, <1>7, <2>2, <2>3, Zenon DEF AcceptsComplete
    <2>5. WalkSound' /\ LookupFindsFirst' /\ TrailerLast'
      BY <1>1, <1>8, <2>1, <2>2, TrailerSame, Zenon DEF WalkSound, LookupFindsFirst
    <2> QED BY <1>7, <2>4, <2>5, Zenon
  <1>12. CASE EntryResult(walk.at) = "ok" /\ k = Count
    <2>1. answer' = <<"ok", size'>> /\ size' = size /\ walk' = walk
      BY <1>3, <1>4, <1>12, Zenon DEF CpioTry
    <2>2. answer' # << >> /\ answer'[1] = "ok" /\ answer'[2] = size
      BY <2>1, Zenon
    <2>3. End < archive.length
      BY <1>3, <1>5, <1>6, <1>12, Zenon
    <2>4. {i \in DOMAIN archive.entries : IsFile(archive.entries[i])} = Files(k)
      BY <1>6, <1>12, Zenon DEF Files
    <2>5. size = Cardinality({i \in DOMAIN archive.entries : IsFile(archive.entries[i])})
      BY <1>4, <1>10, <1>12, <2>4, Zenon
    <2>6. AcceptsComplete'
      BY <1>1, <1>7, <2>2, <2>3, <2>5, Zenon DEF AcceptsComplete, IsFile
    <2>7. WalkSound' /\ LookupFindsFirst' /\ TrailerLast'
      BY <1>1, <1>8, <2>1, <2>2, TrailerSame, Zenon DEF WalkSound, LookupFindsFirst
    <2> QED BY <1>7, <2>6, <2>7, Zenon
  <1>13. CASE EntryResult(walk.at) = "ok" /\ k # Count
    <2>1. /\ walk' = [walk EXCEPT !.at = walk.at + Stride(e)] /\ answer' = answer
          /\ size' = IF IsFile(e) THEN size + 1 ELSE size
      BY <1>3, <1>4, <1>13, Zenon DEF CpioTry
    <2>2. walk'.at = archive.offsets[k + 1] /\ walk'.op = "try_cpio" /\ walk'.name = walk.name
          /\ walk' \in [at : Nat, op : {"none", "try_cpio", "lookup"}, name : {walk'.name}]
      BY <1>1, <1>3, <1>5, <1>8, <2>1, Zenon
    <2>3. size' = Cardinality(Files(k))
      BY <1>10, <2>1, Zenon
    <2>4. k + 1 \in 1 .. Count /\ (k + 1) - 1 = k
      BY <1>6, <1>13
    <2>5. Files((k + 1) - 1)' = Files(k)
      BY <1>7, <1>9, <2>4, Zenon
    <2>6. TryAt(k + 1)'
      BY <1>1, <2>2, <2>3, <2>5, Zenon DEF TryAt
    <2>7. \E n \in 1 .. Count' : TryAt(n)'
      BY <1>7, <2>4, <2>6, Zenon
    <2>8. WalkSound'
      BY <1>1, <2>1, <2>2, <2>7, Zenon DEF WalkSound
    <2>9. LookupFindsFirst' /\ AcceptsComplete' /\ TrailerLast'
      BY <1>1, <2>1, <2>2, TrailerSame, Zenon DEF LookupFindsFirst, AcceptsComplete
    <2> QED BY <1>7, <2>8, <2>9, Zenon
  <1> QED BY <1>11, <1>12, <1>13, Zenon

\* A lookup starts at the first header, with no candidate passed.
LEMMA LookupInv == ASSUME CpioInv, NEW name \in CpioLookups, CpioLookup(name) PROVE CpioInv'
  <1> USE DEF CpioInv
  <1>1. /\ walk.op = "try_cpio" /\ answer # << >> /\ answer[1] = "ok" /\ archive' = archive /\ size' = size
        /\ walk' = [at |-> 0, op |-> "lookup", name |-> name] /\ answer' = << >>
    BY Zenon DEF CpioLookup
  <1>2. walk'.at = 0 /\ walk'.op = "lookup" /\ walk'.name = name
        /\ walk' \in [at : Nat, op : {"none", "try_cpio", "lookup"}, name : {walk'.name}]
    BY <1>1, Zenon
  <1>3. Count' = Count /\ End' = End /\ LayoutSound'
    BY <1>1, ReadSame, Zenon
  <1>4. End < archive.length
    BY <1>1, Zenon DEF AcceptsComplete
  <1>5. Count \in Nat /\ Count > 0 /\ 1 \in 1 .. Count /\ 1 - 1 = 0
    BY <1>1, ArchiveFacts DEF TrailerLast
  <1>6. FindAt(1)'
    BY <1>1, <1>2, <1>5 DEF FindAt, LayoutSound
  <1>7. WalkSound'
    BY <1>1, <1>2, <1>3, <1>4, <1>5, <1>6, Zenon DEF WalkSound
  <1>8. LookupFindsFirst' /\ AcceptsComplete' /\ TrailerLast'
    BY <1>1, <1>2, TrailerSame, Zenon DEF LookupFindsFirst, AcceptsComplete
  <1> QED BY <1>3, <1>7, <1>8, Zenon

\* A step of a lookup goes on to the next header, or answers with the first candidate.
LEMMA FindInv == ASSUME CpioInv, CpioFind PROVE CpioInv'
  <1> USE DEF CpioInv
  <1>1. walk.op = "lookup" /\ answer = << >> /\ archive' = archive /\ size' = size
    BY Zenon DEF CpioFind
  <1>2. PICK k \in 1 .. Count : FindAt(k)
    BY <1>1, Zenon DEF WalkSound
  <1> DEFINE e == archive.entries[k]
             Fits == IsFile(e) /\ SameName(e.name, walk.name)
  <1>3. /\ EntryAt(walk.at) = e
        /\ EntryResult(walk.at) = "ok" <=> archive.offsets[k + 1] < archive.length
        /\ walk.at + Stride(e) = archive.offsets[k + 1]
        /\ ContentsOffset(e, walk.at) = Contents(e, archive.offsets[k])
    BY <1>2, AtEntry, Zenon DEF FindAt
  <1>4. (SameName(e.name, TrailerName) <=> k = Count) /\ (k = Count => ~ IsFile(e))
    BY <1>1, <1>2, TrailerEnds, Zenon
  <1>5. End \in Nat /\ archive.offsets[k + 1] \in Nat /\ archive.offsets[k + 1] <= End
    BY EndsLast, Zenon
  <1>6. Count \in Nat /\ DOMAIN archive.entries = 1 .. Count /\ archive.length \in Int
    BY ArchiveFacts, Zenon
  <1>7. Count' = Count /\ End' = End /\ LayoutSound' /\ \A name : Candidates(name)' = Candidates(name)
    BY <1>1, ReadSame, Zenon
  <1>8. walk \in [at : Nat, op : {"none", "try_cpio", "lookup"}, name : {walk.name}] /\ End < archive.length
    BY <1>1, Zenon DEF WalkSound
  <1>9. EntryResult(walk.at) = "ok"
    BY <1>3, <1>5, <1>6, <1>8
  <1>10. Fits <=> k \in Candidates(walk.name)
    BY <1>6, Zenon DEF Candidates
  <1>11. Candidates(walk.name) \subseteq 1 .. Count /\ \A i \in Candidates(walk.name) : i >= k
    <2>1. Candidates(walk.name) \subseteq 1 .. Count
      BY <1>6, Zenon DEF Candidates
    <2>2. ASSUME NEW i \in Candidates(walk.name) PROVE i >= k
      <3>1. i \notin 1 .. k - 1
        BY <1>2, <2>2, Zenon DEF FindAt
      <3> QED BY <1>6, <2>1, <3>1
    <2> QED BY <2>1, <2>2, Zenon
  <1>12. \/ Fits /\ answer' = <<"found", ContentsOffset(e, walk.at), e.size>> /\ walk' = walk
         \/ ~ Fits /\ k = Count /\ answer' = <<"none">> /\ walk' = walk
         \/ ~ Fits /\ k # Count /\ walk' = [walk EXCEPT !.at = walk.at + Stride(e)] /\ answer' = answer
    BY <1>3, <1>4, <1>9, Zenon DEF CpioFind
  <1> HIDE DEF e, Fits
  <1>13. CASE Fits /\ answer' = <<"found", ContentsOffset(e, walk.at), e.size>> /\ walk' = walk
    <2>1. Candidates(walk.name) # {}
      BY <1>10, <1>13, Zenon
    <2>2. (CHOOSE i \in Candidates(walk.name) : \A j \in Candidates(walk.name) : i <= j) = k
      <3>1. k \in Candidates(walk.name) /\ \A j \in Candidates(walk.name) : k <= j
        BY <1>6, <1>10, <1>11, <1>13, Zenon
      <3>2. \A i \in Candidates(walk.name) : (\A j \in Candidates(walk.name) : i <= j) => i = k
        BY <1>6, <1>11, <3>1
      <3> QED BY <3>1, <3>2, Zenon
    <2>3. answer' = <<"found", Contents(e, archive.offsets[k]), e.size>> /\ answer' # << >>
      BY <1>3, <1>13, Zenon
    <2>4. LookupFindsFirst'
      BY <1>1, <1>7, <1>13, <2>1, <2>2, <2>3, Zenon DEF LookupFindsFirst, e
    <2>5. WalkSound' /\ AcceptsComplete' /\ TrailerLast'
      BY <1>1, <1>7, <1>8, <1>13, <2>3, TrailerSame, Zenon DEF WalkSound, AcceptsComplete
    <2> QED BY <1>7, <2>4, <2>5, Zenon
  <1>14. CASE ~ Fits /\ k = Count /\ answer' = <<"none">> /\ walk' = walk
    <2>1. Candidates(walk.name) = {}
      <3>1. ASSUME NEW i \in Candidates(walk.name) PROVE FALSE
        <4>1. i >= k /\ i \in 1 .. k /\ k \notin Candidates(walk.name)
          BY <1>10, <1>11, <1>14, Zenon
        <4> QED BY <1>6, <4>1
      <3> QED BY <3>1, Zenon
    <2>2. LookupFindsFirst' /\ answer' # << >>
      BY <1>7, <1>14, <2>1, Zenon DEF LookupFindsFirst
    <2>3. WalkSound' /\ AcceptsComplete' /\ TrailerLast'
      BY <1>1, <1>7, <1>8, <1>14, <2>2, TrailerSame, Zenon DEF WalkSound, AcceptsComplete
    <2> QED BY <1>7, <2>2, <2>3, Zenon
  <1>15. CASE ~ Fits /\ k # Count /\ walk' = [walk EXCEPT !.at = walk.at + Stride(e)] /\ answer' = answer
    <2>1. walk'.at = archive.offsets[k + 1] /\ walk'.op = "lookup" /\ walk'.name = walk.name
          /\ walk' \in [at : Nat, op : {"none", "try_cpio", "lookup"}, name : {walk'.name}]
      BY <1>1, <1>3, <1>5, <1>8, <1>15, Zenon
    <2>2. k + 1 \in 1 .. Count /\ (k + 1) - 1 = k
      BY <1>6, <1>15
    <2>3. \A i \in 1 .. (k + 1) - 1 : i \notin Candidates(walk.name)
      <3>1. \A i \in 1 .. k : i = k \/ i \in 1 .. k - 1
        BY <1>6
      <3> QED BY <1>2, <1>10, <1>15, <2>2, <3>1, Zenon DEF FindAt
    <2>4. FindAt(k + 1)'
      BY <1>1, <1>7, <2>1, <2>3, Zenon DEF FindAt
    <2>5. \E n \in 1 .. Count' : FindAt(n)'
      BY <1>7, <2>2, <2>4, Zenon
    <2>6. WalkSound'
      BY <1>1, <1>7, <1>8, <1>15, <2>1, <2>5, Zenon DEF WalkSound
    <2>7. LookupFindsFirst' /\ AcceptsComplete' /\ TrailerLast'
      BY <1>1, <1>15, <2>1, TrailerSame, Zenon DEF LookupFindsFirst, AcceptsComplete
    <2> QED BY <1>7, <2>6, <2>7, Zenon
  <1> QED BY <1>12, <1>13, <1>14, <1>15, Zenon

\* Nothing happens.
LEMMA CpioStutter == ASSUME CpioInv, UNCHANGED cpioVars PROVE CpioInv'
  <1>1. archive' = archive /\ walk' = walk /\ size' = size /\ answer' = answer
    BY Zenon DEF cpioVars
  <1>2. LayoutSound' /\ Count' = Count /\ End' = End
    BY <1>1, ReadSame, Zenon DEF CpioInv
  <1>3. TrailerLast'
    BY <1>1, <1>2, Zenon DEF CpioInv, TrailerLast, Packable, Trailer, TrailerName
  <1>4. WalkSound'
    BY <1>1, <1>2, Zenon DEF CpioInv, WalkSound, TryAt, FindAt, Files, Candidates
  <1>5. LookupFindsFirst' /\ AcceptsComplete'
    BY <1>1, <1>2, Zenon DEF CpioInv, LookupFindsFirst, AcceptsComplete, Candidates
  <1> QED BY <1>2, <1>3, <1>4, <1>5, Zenon DEF CpioInv

\* The walk is always at an entry: between the steps of a walk that has not ended.
LEMMA ReadsFromInv == CpioInv => ReadsArchive
  <1> SUFFICES ASSUME CpioInv PROVE WalkOnEntries
    BY Zenon DEF ReadsArchive, CpioInv
  <1>1. ASSUME walk.op # "none", answer = << >> PROVE EntriesAt(walk.at) # {}
    <2>1. PICK k \in 1 .. Count : walk.at = archive.offsets[k]
      BY <1>1, Zenon DEF CpioInv, WalkSound, TryAt, FindAt
    <2> QED BY <2>1, AtEntry, Zenon DEF CpioInv
  <1> QED BY <1>1, Zenon DEF WalkOnEntries

\* Every step keeps the invariant.
LEMMA CpioStep == ASSUME Counting, CpioInv, [CpioNext]_cpioVars PROVE CpioInv'
  BY PackInv, MapInv, TryInv, LookupInv, FindInv, CpioStutter, Zenon DEF CpioNext

-----------------------------------------------------------------------------
(* The cores in the ACPI tables (Acpi) *)

Cores == [apic : Nat, acpi : Nat, nmi : Nat]

AcpiTypeOK ==
    /\ rsdp \in RootPointers /\ madt \in Seq(MadtEntries)
    /\ rootTable \in Seq({"madt", "bad_madt", "other"})
    /\ acpiStep \in {"idle", "root", "find", "cores", "nmis", "done", "panic"}
    /\ entry \in 1 .. Len(madt) + 1 /\ storage \in Seq(Cores) /\ beyond \in Nat
    /\ acpiStep \in {"idle", "root", "find"} => entry = 1 /\ storage = << >>

\* The search has not passed the MADT.
SearchSound ==
    acpiStep = "find" /\ "madt" \in Range(Root.tables) => \E i \in 1 .. Len(rootTable) : rootTable[i] = "madt"

\* The storage holds the cores of the first n entries, with the NMI lines of the first m.
StorageSound(n, m) ==
    /\ Len(storage) = Cardinality(EnabledCores(n))
    /\ \A i \in EnabledCores(n) : storage[PlaceOf(i)] = CoreOf(i, m)

PassesSound ==
    /\ acpiStep = "cores" /\ beyond = 0 => StorageSound(entry - 1, 0)
    /\ acpiStep = "nmis" /\ beyond = 0 /\ OneCorePerId => StorageSound(Len(madt), entry - 1)

AcpiInv == AcpiTypeOK /\ SearchSound /\ PassesSound /\ CoresFound

\* The cores of the entries up to n are finitely many, and one entry more adds one at most.
LEMMA EnabledCounted ==
    ASSUME Counting, NEW n \in Nat
    PROVE  /\ Cardinality(EnabledCores(n)) \in Nat
           /\ n + 1 \in EnabledCores(n + 1) =>
                /\ EnabledCores(n + 1) = EnabledCores(n) \cup {n + 1}
                /\ Cardinality(EnabledCores(n + 1)) = Cardinality(EnabledCores(n)) + 1
           /\ n + 1 \notin EnabledCores(n + 1) => EnabledCores(n + 1) = EnabledCores(n)
  <1>1. EnabledCores(n) \in SUBSET (1 .. n)
    BY Zenon DEF EnabledCores
  <1>2. 1 .. n + 1 = (1 .. n) \cup {n + 1}
    OBVIOUS
  <1>3. n + 1 \in EnabledCores(n + 1) => EnabledCores(n + 1) = EnabledCores(n) \cup {n + 1}
    BY <1>2, Zenon DEF EnabledCores
  <1>4. n + 1 \notin EnabledCores(n + 1) => EnabledCores(n + 1) = EnabledCores(n)
    BY <1>2, Zenon DEF EnabledCores
  <1> QED BY <1>1, <1>3, <1>4, ZenonT(40) DEF Counting

\* The place of a core is one of those taken.
LEMMA PlaceTaken ==
    ASSUME Counting, NEW n \in Nat, NEW i \in EnabledCores(n)
    PROVE  PlaceOf(i) \in 1 .. Cardinality(EnabledCores(n))
  <1>1. i \in 1 .. n /\ i \in EnabledCores(i) /\ EnabledCores(i) \subseteq EnabledCores(n)
    BY DEF EnabledCores
  <1>2. EnabledCores(n) \in SUBSET (1 .. n) /\ EnabledCores(i) \in SUBSET (1 .. n) /\ EnabledCores(i) # {}
    BY <1>1, Zenon DEF EnabledCores
  <1>3. /\ Cardinality(EnabledCores(i)) \in Nat /\ Cardinality(EnabledCores(i)) # 0
        /\ Cardinality(EnabledCores(n)) \in Nat /\ Cardinality(EnabledCores(i)) <= Cardinality(EnabledCores(n))
    BY <1>1, <1>2, Zenon DEF Counting
  <1> QED BY <1>3 DEF PlaceOf

\* The cores that the MADT lists depend on the MADT only.
LEMMA AcpiSame ==
    ASSUME madt' = madt
    PROVE  /\ \A n \in Nat : EnabledCores(n)' = EnabledCores(n)
           /\ \A i \in Nat : PlaceOf(i)' = PlaceOf(i)
           /\ \A i, n : CoreOf(i, n)' = CoreOf(i, n)
  BY DEF EnabledCores, PlaceOf, CoreOf, Core, NmiOf, NmiEntries

\* What the storage should hold depends on the MADT only.
LEMMA StorageSame ==
    ASSUME madt' = madt, storage' = storage, NEW n \in Nat, NEW m
    PROVE  StorageSound(n, m)' <=> StorageSound(n, m)
  <1>1. \A i \in EnabledCores(n) : i \in Nat
    BY DEF EnabledCores
  <1> QED BY <1>1, AcpiSame, Zenon DEF StorageSound

\* The last of the entries for a core counts.
LEMMA NmiStep ==
    ASSUME NEW core, NEW n \in Nat
    PROVE  /\ n + 1 \in NmiEntries(core, n + 1) => NmiOf(core, n + 1) = madt[n + 1].nmi
           /\ n + 1 \notin NmiEntries(core, n + 1) => NmiOf(core, n + 1) = NmiOf(core, n)
  <1>1. 1 .. n + 1 = (1 .. n) \cup {n + 1}
    OBVIOUS
  <1>2. ASSUME n + 1 \in NmiEntries(core, n + 1)
        PROVE  NmiOf(core, n + 1) = madt[n + 1].nmi
    <2> DEFINE for == NmiEntries(core, n + 1)
               last == Latest(for)
    <2>1. for \subseteq 1 .. n + 1
      BY Zenon DEF NmiEntries
    <2>2. \A j \in for : j <= n + 1
      BY <2>1
    <2>3. last \in for /\ \A j \in for : j <= last
      BY <1>2, <2>2, Zenon DEF Latest
    <2>4. last = n + 1
      BY <1>2, <2>1, <2>3
    <2>5. for # {}
      BY <1>2, Zenon
    <2> QED BY <2>4, <2>5, Zenon DEF NmiOf
  <1>3. ASSUME n + 1 \notin NmiEntries(core, n + 1)
        PROVE  NmiOf(core, n + 1) = NmiOf(core, n)
    <2>1. NmiEntries(core, n + 1) = NmiEntries(core, n)
      BY <1>1, <1>3 DEF NmiEntries
    <2> QED BY <2>1, Zenon DEF NmiOf
  <1> QED BY <1>2, <1>3, Zenon

\* Before the tables are read, nothing is claimed of them.
LEMMA AcpiInitInv == AcpiInit => AcpiInv
  <1> SUFFICES ASSUME AcpiInit PROVE AcpiInv
    BY Zenon
  <1>1. AcpiTypeOK
    BY DEF AcpiInit, AcpiTypeOK, RootPointers, Roots
  <1>2. SearchSound /\ PassesSound /\ CoresFound
    BY Zenon DEF AcpiInit, SearchSound, PassesSound, CoresFound, CoresAsInTable, PanicsWithoutTableOnly
  <1> QED BY <1>1, <1>2, Zenon DEF AcpiInv

\* Choosing a machine keeps the invariant.
LEMMA AcpiPickInv == ASSUME AcpiInv, AcpiPick PROVE AcpiInv'
  <1>1. PICK m \in AcpiMachines : rsdp' = m.rsdp /\ madt' = m.madt
    BY Zenon DEF AcpiPick
  <1>2. rsdp' \in RootPointers /\ madt' \in Seq(MadtEntries)
    BY <1>1, AcpiAssumption, Zenon
  <1>3. AcpiTypeOK'
    BY <1>2 DEF AcpiInv, AcpiTypeOK, AcpiPick
  <1>4. SearchSound' /\ PassesSound' /\ CoresFound'
    BY Zenon DEF AcpiPick, SearchSound, PassesSound, CoresFound, CoresAsInTable, PanicsWithoutTableOnly
  <1> QED BY <1>3, <1>4, Zenon DEF AcpiInv

\* initialize goes on with a root table that is valid, or gives up.
LEMMA AcpiRootInv == ASSUME AcpiInv, AcpiRoot PROVE AcpiInv'
  <1>1. /\ rsdp \in RootPointers /\ acpiStep = "root" /\ UNCHANGED <<rsdp, madt, entry, storage, beyond>>
        /\ Root' = Root /\ Root \in Roots
    BY Zenon DEF AcpiInv, AcpiTypeOK, AcpiRoot, Root, RootPointers
  <1>2. CASE rsdp.valid /\ Root.valid
    <2>1. acpiStep' = "find" /\ rootTable' = Root.tables
      BY <1>2, Zenon DEF AcpiRoot
    <2>2. Root.tables \in Seq({"madt", "bad_madt", "other"})
      BY <1>1, Zenon DEF Roots
    <2>3. AcpiTypeOK'
      BY <1>1, <2>1, <2>2, Zenon DEF AcpiInv, AcpiTypeOK
    <2>4. SearchSound'
      BY <1>1, <2>1, <2>2 DEF SearchSound, Range
    <2> QED BY <2>1, <2>3, <2>4, Zenon DEF AcpiInv, PassesSound, CoresFound, CoresAsInTable, PanicsWithoutTableOnly
  <1>3. CASE ~ (rsdp.valid /\ Root.valid)
    <2>1. acpiStep' = "panic" /\ rootTable' = rootTable
      BY <1>3, Zenon DEF AcpiRoot
    <2>2. AcpiTypeOK'
      BY <1>1, <2>1, Zenon DEF AcpiInv, AcpiTypeOK
    <2>3. PanicsWithoutTableOnly'
      BY <1>1, <1>3, Zenon DEF PanicsWithoutTableOnly, Root, RootPointers
    <2> QED BY <2>1, <2>2, <2>3, Zenon DEF AcpiInv, SearchSound, PassesSound, CoresFound, CoresAsInTable
  <1> QED BY <1>2, <1>3, Zenon

\* find_table keeps the invariant: it passes over what is not a valid MADT.
LEMMA AcpiFindInv == ASSUME Counting, AcpiInv, AcpiFind PROVE AcpiInv'
  <1>1. /\ rsdp \in RootPointers /\ acpiStep = "find" /\ UNCHANGED <<rsdp, madt, entry, storage, beyond>>
        /\ rootTable \in Seq({"madt", "bad_madt", "other"}) /\ madt \in Seq(MadtEntries)
        /\ entry = 1 /\ storage = << >> /\ Root' = Root
    BY Zenon DEF AcpiInv, AcpiTypeOK, AcpiFind, Root
  <1>2. CASE rootTable = << >>
    <2>1. acpiStep' = "panic" /\ rootTable' = << >>
      BY <1>2, Zenon DEF AcpiFind
    <2>2. "madt" \notin Range(Root.tables)
      BY <1>1, <1>2 DEF AcpiInv, SearchSound
    <2>3. PanicsWithoutTableOnly'
      BY <1>1, <2>2, Zenon DEF PanicsWithoutTableOnly, Root, RootPointers
    <2>4. AcpiTypeOK'
      BY <1>1, <2>1 DEF AcpiInv, AcpiTypeOK
    <2> QED BY <2>1, <2>3, <2>4, Zenon DEF AcpiInv, SearchSound, PassesSound, CoresFound, CoresAsInTable
  <1>3. CASE rootTable # << >>
    <2>1. acpiStep' = (IF Head(rootTable) = "madt" THEN "cores" ELSE "find") /\ rootTable' = Tail(rootTable)
      BY <1>3, Zenon DEF AcpiFind
    <2>2. Tail(rootTable) \in Seq({"madt", "bad_madt", "other"})
      BY <1>1, <1>3
    <2>3. AcpiTypeOK'
      BY <1>1, <2>1, <2>2, Zenon DEF AcpiInv, AcpiTypeOK
    <2>4. SearchSound'
      <3>1. SUFFICES ASSUME Head(rootTable) # "madt", "madt" \in Range(Root.tables)
                     PROVE  \E i \in 1 .. Len(Tail(rootTable)) : Tail(rootTable)[i] = "madt"
        BY <1>1, <2>1, Zenon DEF SearchSound
      <3>2. PICK i \in 1 .. Len(rootTable) : rootTable[i] = "madt"
        BY <1>1, <3>1, Zenon DEF AcpiInv, SearchSound
      <3>3. i # 1 /\ i - 1 \in 1 .. Len(Tail(rootTable)) /\ Tail(rootTable)[i - 1] = rootTable[i]
        BY <1>1, <1>3, <3>1, <3>2
      <3> QED BY <3>2, <3>3, Zenon
    <2>5. PassesSound'
      <3>1. EnabledCores(0) = {} /\ EnabledCores(0)' = {}
        BY DEF EnabledCores
      <3>2. StorageSound(entry - 1, 0)'
        BY <1>1, <3>1, entry' - 1 = 0, Zenon DEF StorageSound, Counting
      <3> QED BY <2>1, <3>2, Zenon DEF PassesSound
    <2> QED BY <2>1, <2>3, <2>4, <2>5, Zenon DEF AcpiInv, CoresFound, CoresAsInTable, PanicsWithoutTableOnly
  <1> QED BY <1>2, <1>3, Zenon

\* The first pass of parse_madt stores one core for every enabled entry.
LEMMA MadtCoresInv == ASSUME Counting, AcpiInv, MadtCores PROVE AcpiInv'
  <1>1. /\ acpiStep = "cores" /\ UNCHANGED <<rsdp, madt, rootTable>> /\ madt \in Seq(MadtEntries)
        /\ entry \in 1 .. Len(madt) + 1 /\ storage \in Seq(Cores) /\ beyond \in Nat
    BY Zenon DEF AcpiInv, AcpiTypeOK, MadtCores
  <1>2. CASE entry > Len(madt)
    <2>1. acpiStep' = "nmis" /\ entry' = 1 /\ UNCHANGED <<storage, beyond>>
      BY <1>2, Zenon DEF MadtCores
    <2>2. AcpiTypeOK'
      BY <1>1, <2>1 DEF AcpiInv, AcpiTypeOK
    <2>3. entry - 1 = Len(madt) /\ entry' - 1 = 0 /\ Len(madt) \in Nat
      BY <1>1, <1>2, <2>1
    <2>4. beyond = 0 => StorageSound(Len(madt), 0)
      BY <1>1, <2>3, Zenon DEF AcpiInv, PassesSound
    <2>5. \A i \in EnabledCores(Len(madt)) : i \in Nat
      BY DEF EnabledCores
    <2>6. beyond' = 0 => StorageSound(Len(madt), entry - 1)'
      BY <1>1, <2>1, <2>3, <2>4, <2>5, AcpiSame DEF StorageSound
    <2>7. PassesSound'
      BY <2>1, <2>6, Zenon DEF PassesSound
    <2> QED BY <2>1, <2>2, <2>7, Zenon DEF AcpiInv, SearchSound, CoresFound, CoresAsInTable, PanicsWithoutTableOnly
  <1>3. CASE entry <= Len(madt)
    <2> PICK n \in Nat : n = entry - 1
      BY <1>1
    <2>1. acpiStep' = "cores" /\ entry' = entry + 1 /\ entry \in 1 .. Len(madt)
      BY <1>1, <1>3 DEF MadtCores
    <2>2. n \in Nat /\ entry = n + 1 /\ entry' - 1 = n + 1
      BY <2>1
    <2>3. n + 1 \in EnabledCores(n + 1) <=> IsCore(madt[entry])
      BY <2>1, <2>2 DEF EnabledCores, IsCore
    <2>4. beyond = 0 => StorageSound(n, 0)
      BY <1>1, Zenon DEF AcpiInv, PassesSound
    <2>5. \A m \in Nat : \A i \in EnabledCores(m) : i \in Nat
      BY DEF EnabledCores
    <2>6. madt[entry] \in MadtEntries
      BY <1>1, <2>1
    <2>7. \A i : NmiOf(madt[i], 0) = 0
      BY DEF NmiOf, NmiEntries
    <2>8. CASE ~ IsCore(madt[entry])
      <3>1. UNCHANGED <<storage, beyond>>
        BY <1>1, <1>3, <2>8, Zenon DEF MadtCores
      <3>2. AcpiTypeOK'
        BY <1>1, <2>1, <3>1 DEF AcpiInv, AcpiTypeOK
      <3>3. beyond' = 0 => StorageSound(n + 1, 0)'
        <4>1. StorageSound(n, 0) => StorageSound(n + 1, 0)
          BY <2>2, <2>3, <2>8, EnabledCounted, Zenon DEF StorageSound
        <4>2. StorageSound(n + 1, 0)' <=> StorageSound(n + 1, 0)
          BY <1>1, <3>1, StorageSame
        <4> QED BY <2>4, <3>1, <4>1, <4>2, Zenon
      <3>4. PassesSound'
        BY <2>1, <2>2, <3>3, Zenon DEF PassesSound
      <3> QED BY <2>1, <3>2, <3>4, Zenon DEF AcpiInv, SearchSound, CoresFound, CoresAsInTable, PanicsWithoutTableOnly
    <2>9. CASE IsCore(madt[entry]) /\ ~ Len(storage) < AcpiMaxCores
      <3>1. storage' = storage /\ beyond' = beyond + 1
        BY <1>1, <1>3, <2>9 DEF MadtCores
      <3>2. AcpiTypeOK'
        BY <1>1, <2>1, <3>1 DEF AcpiInv, AcpiTypeOK
      <3>3. PassesSound'
        BY <1>1, <2>1, <3>1 DEF PassesSound
      <3> QED BY <2>1, <3>2, <3>3, Zenon DEF AcpiInv, SearchSound, CoresFound, CoresAsInTable, PanicsWithoutTableOnly
    <2>10. CASE IsCore(madt[entry]) /\ Len(storage) < AcpiMaxCores
      <3> DEFINE new == Core(madt[entry])
      <3>1. storage' = Append(storage, new) /\ beyond' = beyond
        BY <1>1, <1>3, <2>10 DEF MadtCores
      <3>2. new \in Cores
        BY <2>6, Zenon DEF Core, Cores, MadtEntries
      <3>3. AcpiTypeOK'
        BY <1>1, <2>1, <3>1, <3>2 DEF AcpiInv, AcpiTypeOK
      <3>4. ASSUME beyond' = 0 PROVE StorageSound(n + 1, 0)'
        <4>1. Len(storage) = Cardinality(EnabledCores(n)) /\ StorageSound(n, 0)
          BY <2>4, <3>1, <3>4, Zenon DEF StorageSound
        <4>2. /\ EnabledCores(n + 1) = EnabledCores(n) \cup {n + 1}
              /\ Cardinality(EnabledCores(n + 1)) = Len(storage) + 1
          BY <2>2, <2>3, <2>10, <4>1, EnabledCounted, Zenon
        <4>3. Len(storage') = Len(storage) + 1 /\ storage'[Len(storage) + 1] = new
          BY <1>1, <3>1, <3>2
        <4>4. ASSUME NEW i \in EnabledCores(n)
              PROVE  storage'[PlaceOf(i)] = CoreOf(i, 0)
          <5>1. PlaceOf(i) \in 1 .. Len(storage)
            BY <2>2, <4>1, PlaceTaken, Zenon
          <5>2. storage'[PlaceOf(i)] = storage[PlaceOf(i)]
            BY <1>1, <3>1, <3>2, <5>1
          <5> QED BY <4>1, <5>2, Zenon DEF StorageSound
        <4>5. storage'[PlaceOf(n + 1)] = CoreOf(n + 1, 0)
          BY <2>2, <2>7, <4>2, <4>3 DEF PlaceOf, CoreOf, Core
        <4>6. \A i \in EnabledCores(n + 1) : storage'[PlaceOf(i)] = CoreOf(i, 0)
          BY <4>2, <4>4, <4>5, Zenon
        <4>7. EnabledCores(n + 1)' = EnabledCores(n + 1)
          BY <1>1, <2>2, AcpiSame
        <4> QED BY <1>1, <2>2, <2>5, <4>2, <4>3, <4>6, <4>7, AcpiSame DEF StorageSound
      <3>5. PassesSound'
        BY <2>1, <2>2, <3>4, Zenon DEF PassesSound
      <3> QED BY <2>1, <3>3, <3>5, Zenon DEF AcpiInv, SearchSound, CoresFound, CoresAsInTable, PanicsWithoutTableOnly
    <2> QED BY <2>8, <2>9, <2>10, Zenon
  <1> QED BY <1>1, <1>2, <1>3

\* The second pass of parse_madt writes the NMI lines of the cores it finds by their ids.
LEMMA MadtNmisInv == ASSUME Counting, AcpiInv, MadtNmis PROVE AcpiInv'
  <1>1. /\ acpiStep = "nmis" /\ UNCHANGED <<rsdp, madt, rootTable, beyond>> /\ madt \in Seq(MadtEntries)
        /\ entry \in 1 .. Len(madt) + 1 /\ storage \in Seq(Cores)
    BY Zenon DEF AcpiInv, AcpiTypeOK, MadtNmis
  <1>2. CASE entry > Len(madt)
    <2>1. acpiStep' = "done" /\ UNCHANGED <<entry, storage>>
      BY <1>2, Zenon DEF MadtNmis
    <2>2. AcpiTypeOK'
      BY <1>1, <2>1, Zenon DEF AcpiInv, AcpiTypeOK
    <2>3. entry - 1 = Len(madt) /\ Len(madt) \in Nat
      BY <1>1, <1>2, <2>1
    <2>4. beyond = 0 /\ OneCorePerId => StorageSound(Len(madt), Len(madt))
      BY <1>1, <2>3, Zenon DEF AcpiInv, PassesSound
    <2>5. \A i \in EnabledCores(Len(madt)) : i \in Nat
      BY DEF EnabledCores
    <2>6. OneCorePerId' <=> OneCorePerId
      BY <2>1, Zenon DEF OneCorePerId
    <2>7. CoresAsInTable'
      BY <1>1, <2>1, <2>3, <2>4, <2>5, <2>6, AcpiSame, Zenon DEF CoresAsInTable, StorageSound
    <2> QED BY <2>1, <2>2, <2>7, Zenon DEF AcpiInv, SearchSound, PassesSound, CoresFound, PanicsWithoutTableOnly
  <1>3. CASE entry <= Len(madt)
    <2> DEFINE e == madt[entry]
    <2> PICK n \in Nat : n = entry - 1
      BY <1>1
    <2>1. acpiStep' = "nmis" /\ entry' = entry + 1 /\ entry \in 1 .. Len(madt) /\ ~ entry > Len(madt)
      BY <1>1, <1>3 DEF MadtNmis
    <2>2. n \in Nat /\ entry = n + 1 /\ entry' - 1 = n + 1 /\ e \in MadtEntries /\ Len(madt) \in Nat
      BY <1>1, <2>1
    <2>3. \A i \in EnabledCores(Len(madt)) : i \in Nat
      BY DEF EnabledCores
    <2>4. /\ storage' \in Seq(Cores) /\ Len(storage') = Len(storage)
          /\ \A k \in 1 .. Len(storage) :
                storage'[k] = IF e.type \in {"lapic_nmi", "x2apic_nmi"} /\ k \in NmiCores(e)
                              THEN [storage[k] EXCEPT !.nmi = e.nmi] ELSE storage[k]
      <3>1. CASE e.type \notin {"lapic_nmi", "x2apic_nmi"}
        <4>1. storage' = storage
          BY <2>1, <3>1, Zenon DEF MadtNmis
        <4> QED BY <1>1, <3>1, <4>1, Zenon
      <3>2. CASE e.type \in {"lapic_nmi", "x2apic_nmi"}
        <4> DEFINE After(k) == IF k \in NmiCores(e) THEN [storage[k] EXCEPT !.nmi = e.nmi] ELSE storage[k]
        <4>1. storage' = [k \in 1 .. Len(storage) |-> After(k)]
          BY <1>1, <2>1, <3>2 DEF MadtNmis
        <4>2. e.nmi \in Nat
          BY <2>2, Zenon DEF MadtEntries
        <4>3. ASSUME NEW k \in 1 .. Len(storage) PROVE After(k) \in Cores
          <5>1. storage[k] \in Cores
            BY <1>1
          <5> QED BY <4>2, <5>1, Zenon DEF Cores
        <4> HIDE DEF After
        <4>4. storage' \in Seq(Cores) /\ Len(storage') = Len(storage)
          BY <1>1, <4>1, <4>3
        <4>5. \A k \in 1 .. Len(storage) : storage'[k] = After(k)
          BY <4>1, Zenon
        <4> QED BY <3>2, <4>4, <4>5, Zenon DEF After
      <3> QED BY <3>1, <3>2, Zenon
    <2>5. AcpiTypeOK'
      BY <1>1, <2>1, <2>4 DEF AcpiInv, AcpiTypeOK
    <2>6. ASSUME NEW k \in 1 .. Len(storage) PROVE storage'[k].acpi = storage[k].acpi
      <3>1. storage[k] \in Cores
        BY <1>1
      <3> QED BY <2>4, <3>1, Zenon DEF Cores
    <2>7. DOMAIN storage = 1 .. Len(storage) /\ DOMAIN storage' = 1 .. Len(storage)
      BY <1>1, <2>4
    <2>8. OneCorePerId' => OneCorePerId
      BY <2>6, <2>7, Zenon DEF OneCorePerId
    <2>9. ASSUME beyond' = 0, OneCorePerId'
          PROVE  StorageSound(Len(madt), n + 1)'
      <3>1. StorageSound(Len(madt), n) /\ OneCorePerId
        BY <1>1, <2>8, <2>9, Zenon DEF AcpiInv, PassesSound
      <3>2. \A k \in 1 .. Len(storage) : k \in NmiCores(e) <=> e.acpi = 255 \/ storage[k].acpi = e.acpi
        BY <2>7, <3>1 DEF NmiCores, OneCorePerId
      <3>3. ASSUME NEW i \in EnabledCores(Len(madt))
            PROVE  storage'[PlaceOf(i)] = CoreOf(i, n + 1)
        <4> DEFINE k == PlaceOf(i)
        <4>1. k \in 1 .. Len(storage)
          BY <2>2, <3>1, PlaceTaken, Zenon DEF StorageSound
        <4>2. storage[k] = CoreOf(i, n)
          BY <3>1, Zenon DEF StorageSound
        <4>3. storage[k].acpi = madt[i].acpi
          BY <4>2, Zenon DEF CoreOf, Core
        <4>4. n + 1 \in NmiEntries(madt[i], n + 1) <=>
                e.type \in {"lapic_nmi", "x2apic_nmi"} /\ (e.acpi = 255 \/ storage[k].acpi = e.acpi)
          BY <2>2, <4>3 DEF NmiEntries
        <4>5. CASE n + 1 \in NmiEntries(madt[i], n + 1)
          <5>1. storage'[k] = [storage[k] EXCEPT !.nmi = e.nmi]
            BY <2>4, <3>2, <4>1, <4>4, <4>5, Zenon
          <5>2. NmiOf(madt[i], n + 1) = e.nmi
            BY <2>2, <4>5, NmiStep, Zenon
          <5> QED BY <4>2, <5>1, <5>2, Zenon DEF CoreOf, Core
        <4>6. CASE n + 1 \notin NmiEntries(madt[i], n + 1)
          <5>1. storage'[k] = storage[k]
            BY <2>4, <3>2, <4>1, <4>4, <4>6, Zenon
          <5> QED BY <2>2, <4>2, <4>6, <5>1, NmiStep, ZenonT(40) DEF CoreOf
        <4> QED BY <4>5, <4>6, Zenon
      <3> QED BY <1>1, <2>2, <2>3, <2>4, <3>1, <3>3, AcpiSame DEF StorageSound
    <2>10. PassesSound'
      BY <1>1, <2>1, <2>2, <2>9, Zenon DEF PassesSound
    <2> QED BY <2>1, <2>5, <2>10, Zenon DEF AcpiInv, SearchSound, CoresFound, CoresAsInTable, PanicsWithoutTableOnly
  <1> QED BY <1>1, <1>2, <1>3

\* Every step keeps the invariant.
LEMMA AcpiStep == ASSUME Counting, AcpiInv, [AcpiNext]_acpiVars PROVE AcpiInv'
  <1>1. CASE UNCHANGED acpiVars
    <2>1. UNCHANGED <<rsdp, madt, acpiStep, rootTable, entry, storage, beyond>>
      BY <1>1, Zenon DEF acpiVars
    <2>2. AcpiTypeOK' /\ SearchSound' /\ PanicsWithoutTableOnly'
      BY <2>1, Zenon DEF AcpiInv, AcpiTypeOK, SearchSound, Root, CoresFound, PanicsWithoutTableOnly
    <2>3. PassesSound'
      <3>1. entry - 1 \in Nat /\ Len(madt) \in Nat
        BY DEF AcpiInv, AcpiTypeOK
      <3>2. StorageSound(entry - 1, 0)' <=> StorageSound(entry - 1, 0)
        BY <2>1, <3>1, StorageSame, Zenon
      <3>3. StorageSound(Len(madt), entry - 1)' <=> StorageSound(Len(madt), entry - 1)
        BY <2>1, <3>1, StorageSame, Zenon
      <3> QED BY <2>1, <3>2, <3>3, Zenon DEF AcpiInv, PassesSound, OneCorePerId
    <2>4. CoresAsInTable'
      <3>1. Len(madt) \in Nat /\ \A i \in EnabledCores(Len(madt)) : i \in Nat
        BY DEF AcpiInv, AcpiTypeOK, EnabledCores
      <3> QED BY <2>1, <3>1, AcpiSame DEF AcpiInv, CoresFound, CoresAsInTable, OneCorePerId
    <2> QED BY <2>2, <2>3, <2>4, Zenon DEF AcpiInv, CoresFound
  <1> QED BY <1>1, AcpiPickInv, AcpiRootInv, AcpiFindInv, MadtCoresInv, MadtNmisInv, Zenon DEF AcpiNext

-----------------------------------------------------------------------------
(* Results.  The counting and the least elements that the steps above take *)
(* as assumptions are shown here, from the theorems of the library.        *)

INSTANCE FiniteSetTheorems

\* Sets of numbers up to k are finite.
LEMMA EntriesCounted == Counting
  <1>1. Cardinality({}) = 0
    BY FS_EmptySet, Zenon
  <1>2. ASSUME NEW k \in Nat, NEW S \in SUBSET (1 .. k)
        PROVE  IsFiniteSet(S) /\ Cardinality(S) \in Nat /\ (S # {} => Cardinality(S) # 0)
    <2>1. IsFiniteSet(1 .. k)
      BY FS_Interval
    <2>2. IsFiniteSet(S)
      BY <2>1, FS_Subset, Zenon
    <2> QED BY <2>2, FS_CardinalityType, FS_EmptySet, Zenon
  <1>3. ASSUME NEW k \in Nat, NEW S \in SUBSET (1 .. k) PROVE k + 1 \notin S
    OBVIOUS
  <1>4. ASSUME NEW k \in Nat, NEW S \in SUBSET (1 .. k)
        PROVE  Cardinality(S \cup {k + 1}) = Cardinality(S) + 1
    BY <1>2, <1>3, FS_AddElement, Zenon
  <1>5. ASSUME NEW k \in Nat, NEW S \in SUBSET (1 .. k), NEW T \in SUBSET S PROVE Cardinality(T) <= Cardinality(S)
    BY <1>2, FS_Subset, Zenon
  <1> QED BY <1>1, <1>2, <1>4, <1>5, Zenon DEF Counting

\* Whatever files the archiver packs, with whatever names and sizes: the walk goes
\* from header to header, try_cpio accepts the archive exactly if it is complete and
\* counts its files, and a lookup answers with the first file whose name begins with
\* the name looked up, or with nothing (get_entry, next, try_cpio and
\* cpio::operator[] of cpio.cpp).
THEOREM ArchiveIsRead == CpioSpec => []ReadsArchive
  <1>1. CpioInv /\ [CpioNext]_cpioVars => CpioInv'
    BY EntriesCounted, CpioStep, Zenon
  <1> QED BY CpioInitInv, <1>1, ReadsFromInv, PTL DEF CpioSpec

\* The kernel finds the cores of any machine, whatever its tables list and in
\* whatever order, or has no table to find them in (initialize, find_table and
\* parse_madt of acpi.cpp).
THEOREM CoresAreFound == AcpiSpec => []CoresFound
  <1>1. AcpiInv /\ [AcpiNext]_acpiVars => AcpiInv'
    BY EntriesCounted, AcpiStep, Zenon
  <1>2. AcpiInv => CoresFound
    BY Zenon DEF AcpiInv
  <1> QED BY <1>1, <1>2, AcpiInitInv, PTL DEF AcpiSpec
=============================================================================
