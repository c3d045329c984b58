------------------------------- MODULE Loader -------------------------------
(***************************************************************************)
(* bootinit's program loader (kernel/bootinit/process.cpp): an image is    *)
(* loaded with everything it needs, its symbols are bound, and the order   *)
(* in which the images are initialized is computed.                        *)
(*                                                                         *)
(* A loaded_elf is a node.  A dependency of a node is owned (the variant   *)
(* holds a loaded_elf) or shared (it holds a pointer).  load_elf_with_     *)
(* dependencies is recursive: `calls` is its call stack, and a node is in  *)
(* the dependencies of its parent only when the call has returned.  A      *)
(* std::get of the wrong alternative stops the loader ("bad variant").     *)
(* Images need each other without cycles; parsing is in Elf, looking up a  *)
(* file in Cpio.                                                           *)
(***************************************************************************)
EXTENDS Naturals, Sequences, FiniteSets, SequencesExt

CONSTANTS
    LoadFiles,      \* file 1 is the program, the last one is libvdso.so
    LoadGraphs,     \* the NEEDED entries of each file: elements of [LoadFiles -> Seq(LoadFiles)]
    LoadDefiners,   \* sets of files that may define the symbol
    LoadFaults,     \* [absent, stray]: files that the initrd lacks, and files with a relocation in no segment
    LoadRelocs,     \* the relocations of each file: [symbol, at, addend]
    LoadSegments,   \* [LoadFiles -> Seq([base, end])]: load segments, in bytes
    LoadPage        \* page size

VARIABLES
    needs,      \* the names each file needs
    defines,    \* the files that define the symbol
    faults,     \* what is wrong with the files
    nodes,      \* the images loaded: file, elf_base, deps
    calls,      \* the call stack: node, and the NEEDED entry it is at
    bases,      \* binary_base
    arrays,     \* allocate_array: address and size of every array
    top,        \* top_of_image
    stage,      \* "none", "load", "relocate", "order", "done", or how it ended
    bound,      \* the node to which the symbol is bound
    words,      \* what the relocations have written
    order       \* init_order, as far as it is filled

loaderVars == <<needs, defines, faults, nodes, calls, bases, arrays, top, stage, bound, words, order>>

Vdso == Cardinality(LoadFiles)

AlignUp(n) == ((n + LoadPage - 1) \div LoadPage) * LoadPage

Node(n) == nodes[n]

-----------------------------------------------------------------------------
(* Walks over the tree of nodes *)

\* MUTANT of Prepared: nothing is ever shared.
NeverPrepared(n, name) == 0

\* is_shared_object_prepared: 0 if there is none, and Len(nodes) + 1 for the
\* std::get<loaded_elf> of a pointer.
RECURSIVE Prepared(_, _)
Prepared(n, name) ==
    LET deps == Node(n).deps
        ask(d) == IF d.own THEN Prepared(d.node, name) ELSE Len(nodes) + 1
        hits == {i \in DOMAIN deps : ask(deps[i]) # 0}
    IN  CASE Node(n).file = name -> n
          [] Node(n).file # name /\ hits = {} -> 0
          [] OTHER -> ask(deps[CHOOSE i \in hits : \A j \in hits : i <= j])

\* all_dependencies
Dependencies(n) == [i \in DOMAIN Node(n).deps |-> Node(n).deps[i].node]

\* owned_dependencies
Owned(n) == SelectSeq(Node(n).deps, LAMBDA d : d.own)

\* begin() of owned_dependencies is the first dependency, owned or not.
BadVariant == \E n \in DOMAIN nodes : Node(n).deps # << >> /\ ~Node(n).deps[1].own

\* The nodes that calls of a recursive member with `depth` reach.
RECURSIVE OwnedAt(_, _)
OwnedAt(n, depth) ==
    IF depth = 0 THEN <<n>> ELSE FlattenSeq([i \in DOMAIN Owned(n) |-> OwnedAt(Owned(n)[i].node, depth - 1)])

RECURSIVE AllAt(_, _)
AllAt(n, depth) ==
    IF depth = 0 THEN <<n>> ELSE FlattenSeq([i \in DOMAIN Node(n).deps |-> AllAt(Node(n).deps[i].node, depth - 1)])

\* depth() and count() of the root
Depth == CHOOSE d \in 1..Len(nodes) : OwnedAt(1, d) = << >> /\ OwnedAt(1, d - 1) # << >>
Count == Len(FlattenSeq([i \in 1..Depth |-> OwnedAt(1, i - 1)]))

-----------------------------------------------------------------------------
(* Memory *)

\* allocate_array: where the next array goes
NextTop(at, n) == AlignUp(at + n) + LoadPage

\* The array for the segments, one for each segment, and one for the
\* dependencies if there are any.
ArraySizes(f) ==
    <<Len(LoadSegments[f])>>
    \o [i \in DOMAIN LoadSegments[f] |-> AlignUp(LoadSegments[f][i].end) - LoadSegments[f][i].base]
    \o (IF needs[f] = << >> THEN << >> ELSE <<Len(needs[f])>>)

Allocated(sizes) ==
    LET at[i \in 1..(Len(sizes) + 1)] == IF i = 1 THEN top ELSE NextTop(at[i - 1], sizes[i - 1])
    IN  /\ arrays' = arrays \o [i \in DOMAIN sizes |-> [at |-> at[i], size |-> sizes[i]]]
        /\ top' = at[Len(sizes) + 1]

\* binary_base after image f: a free page behind the last segment
NextBase(f) == bases + AlignUp(Last(LoadSegments[f]).end) + LoadPage

-----------------------------------------------------------------------------

LoaderInit ==
    /\ needs = [f \in LoadFiles |-> << >>] /\ defines = {} /\ faults = [absent |-> {}, stray |-> {}]
    /\ nodes = << >> /\ calls = << >> /\ bases = LoadPage /\ arrays = << >> /\ top = LoadPage
    /\ stage = "none" /\ bound = 0 /\ words = << >> /\ order = << >>

\* An image is loaded: the vdso is there already, others are mapped.
Load(f) ==
    IF f = Vdso
    THEN nodes' = Append(nodes, [file |-> f, base |-> 0, deps |-> << >>]) /\ UNCHANGED <<bases, arrays, top>>
    ELSE /\ nodes' = Append(nodes, [file |-> f, base |-> bases, deps |-> << >>])
         /\ bases' = NextBase(f)
         /\ Allocated(ArraySizes(f))

LoaderStart ==
    /\ stage = "none" /\ stage' = "load"
    /\ needs' \in LoadGraphs
    /\ defines' \in LoadDefiners /\ faults' \in LoadFaults
    /\ UNCHANGED <<nodes, calls, bases, arrays, top, bound, words, order>>

LoadProgram ==
    /\ stage = "load" /\ nodes = << >>
    /\ Load(1) /\ calls' = <<[node |-> 1, entry |-> 1]>>
    /\ UNCHANGED <<needs, defines, faults, stage, bound, words, order>>

Caller == Last(calls)

WithDependency(ns, n, own, d) == [ns EXCEPT ![n].deps = Append(@, [own |-> own, node |-> d])]

\* The next NEEDED entry: shared if the root can see it, or else loaded.
LoadNeeded ==
    /\ stage = "load" /\ calls # << >> /\ Caller.entry <= Len(needs[Node(Caller.node).file])
    /\ LET name  == needs[Node(Caller.node).file][Caller.entry]
           found == Prepared(1, name)
       IN  CASE found \in DOMAIN nodes ->
                  /\ nodes' = WithDependency(nodes, Caller.node, FALSE, found)
                  /\ calls' = [calls EXCEPT ![Len(calls)].entry = @ + 1]
                  /\ UNCHANGED <<bases, arrays, top, stage>>
             [] found = Len(nodes) + 1 -> stage' = "bad variant" /\ UNCHANGED <<nodes, calls, bases, arrays, top>>
             [] found = 0 /\ name \in faults.absent -> stage' = "no such file" /\ UNCHANGED <<nodes, calls, bases, arrays, top>>
             [] OTHER -> /\ Load(name)
                         /\ calls' = Append(calls, [node |-> Len(nodes) + 1,
                                                    entry |-> IF name = Vdso THEN Len(needs[name]) + 1 ELSE 1])
                         /\ UNCHANGED stage
    /\ UNCHANGED <<needs, defines, faults, bound, words, order>>

\* The call returns, and its caller has the dependency.
LoadReturns ==
    /\ stage = "load" /\ calls # << >> /\ Caller.entry > Len(needs[Node(Caller.node).file])
    /\ calls' = LET up == Front(calls)
                IN  IF up = << >> THEN up ELSE [up EXCEPT ![Len(up)].entry = @ + 1]
    /\ nodes' = IF Len(calls) = 1 THEN nodes ELSE WithDependency(nodes, calls[Len(calls) - 1].node, TRUE, Caller.node)
    /\ stage' = CASE Len(calls) > 1 -> "load"
                  [] Len(calls) = 1 /\ BadVariant -> "bad variant"      \* depth()
                  [] OTHER -> "relocate"
    /\ UNCHANGED <<needs, defines, faults, bases, arrays, top, bound, words, order>>

\* The value of the symbol in file f; 0 if it is undefined or missing.
Value(f) == IF f \in defines THEN f ELSE 0

\* The nodes with a definition: is_defined
Definers(ns) == SelectSeq(ns, LAMBDA n : Value(Node(n).file) # 0)

\* find_symbol_definition: level by level, shared dependencies included
FindSymbol ==
    LET levels == FlattenSeq([d \in 1..Depth |-> AllAt(1, d - 1)])
    IN  IF Definers(levels) = << >> THEN 0 ELSE Definers(levels)[1]

\* MUTANT of Visited: dependencies that are shared are visited again.
RECURSIVE VisitsShared(_)
VisitsShared(n) == <<n>> \o FlattenSeq([i \in DOMAIN Node(n).deps |-> VisitsShared(Node(n).deps[i].node)])

\* visit_all_relocations: the nodes in the order in which they are visited
RECURSIVE Visited(_)
Visited(n) == <<n>> \o FlattenSeq([i \in DOMAIN Owned(n) |-> Visited(Owned(n)[i].node)])

\* The first load segment around an address, or 0.
SegmentAround(f, at) ==
    SelectInSeq(LoadSegments[f], LAMBDA s : f \notin faults.stray /\ s.base <= at /\ at < s.end)

\* calculate_and_write: GLOB_DAT needs the symbol, RELATIVE does not
Written(n, r, value) ==
    [node |-> n, segment |-> SegmentAround(Node(n).file, r.at),
     at |-> r.at - LoadSegments[Node(n).file][SegmentAround(Node(n).file, r.at)].base,
     value |-> IF r.symbol THEN value ELSE Node(n).base + r.addend]

\* The relocations of the images ns, with the node each is for.
Relocations(ns) ==
    FlattenSeq([i \in DOMAIN ns |-> [j \in DOMAIN LoadRelocs[Node(ns[i]).file] |->
        [of |-> ns[i], reloc |-> LoadRelocs[Node(ns[i]).file][j]]]])

Stray(x) == SegmentAround(Node(x.of).file, x.reloc.at) = 0

\* Applied one by one, up to the first that fails.
Relocate ==
    /\ stage = "relocate"
    /\ bound' = FindSymbol
    /\ \E relocs \in {Relocations(Visited(1))},
          value \in {IF bound' = 0 THEN 0 ELSE Node(bound').base + Value(Node(bound').file)} :
         LET unbound == {i \in DOMAIN relocs : relocs[i].reloc.symbol /\ bound' = 0}
             stray   == {i \in DOMAIN relocs : Stray(relocs[i])}
         IN  IF unbound \cup stray = {}
             THEN words' = [i \in DOMAIN relocs |-> Written(relocs[i].of, relocs[i].reloc, value)] /\ stage' = "order"
             ELSE /\ stage' = IF Min(unbound \cup stray) \in unbound THEN "no such symbol" ELSE "no such segment"
                  /\ UNCHANGED words
    /\ UNCHANGED <<needs, defines, faults, nodes, calls, bases, arrays, top, order>>

\* Put in front, or rotated to the front.
ToFront(list, n) == <<n>> \o SelectSeq(list, LAMBDA x : x # n)

\* compute_init_order_at_depth, for the dependencies of the nodes at one depth
OrderAt(list, depth) ==
    LET ns == FlattenSeq([i \in DOMAIN OwnedAt(1, depth) |-> Dependencies(OwnedAt(1, depth)[i])])
    IN  FoldLeft(ToFront, list, ns)

ComputeInitOrder ==
    /\ stage = "order"
    /\ LET upto[d \in 0..Depth] == IF d = 0 THEN <<1>> ELSE OrderAt(upto[d - 1], d - 1) IN order' = upto[Depth]
    /\ Allocated(<<Count>>)
    /\ stage' = IF Len(order') = Count THEN "done" ELSE "order not filled"
    /\ UNCHANGED <<needs, defines, faults, nodes, calls, bases, bound, words>>

LoaderNext == LoaderStart \/ LoadProgram \/ LoadNeeded \/ LoadReturns \/ Relocate \/ ComputeInitOrder

-----------------------------------------------------------------------------
(* Properties *)

Apart(a, b) == a.at + AlignUp(a.size) <= b.at \/ b.at + AlignUp(b.size) <= a.at

\* The arrays of the loader, which bootinit maps into its own address space
\* one behind the other, never share a page.
ArraysApart == \A i, j \in DOMAIN arrays : i # j => Apart(arrays[i], arrays[j])

\* The segments of all images, mapped into the new address space, never share
\* a page either: map_vmo would refuse them and the loader panic.
SegmentsApart ==
    LET mapped == UNION {{[of |-> n, at |-> Node(n).base + s.base, size |-> AlignUp(s.end) - s.base] :
                             s \in ToSet(LoadSegments[Node(n).file])} :
                                 n \in {m \in DOMAIN nodes : Node(m).file # Vdso}}
    IN  \A a, b \in mapped : a # b => Apart(a, b)

\* An image that two others need is loaded twice only below one and the same
\* dependency of the program: what the root can see is shared.
LoadedTwiceBelowOne ==
    LET below(n) == {m \in DOMAIN nodes : \E d \in 0..Len(nodes) : m \in ToSet(OwnedAt(n, d))}
    IN  stage = "done" =>
            \A m, n \in DOMAIN nodes : m # n /\ Node(m).file = Node(n).file =>
                \E d \in ToSet(Owned(1)) : {m, n} \subseteq below(d.node)

\* A symbol that any loaded image defines is found, in one as near to the
\* program as any: depth() counts owned dependencies only, which is enough.
SymbolFound ==
    LET near(n) == CHOOSE d \in 0..Len(nodes) : n \in ToSet(AllAt(1, d)) /\ \A e \in 0..(d - 1) : n \notin ToSet(AllAt(1, e))
        have    == {n \in DOMAIN nodes : Node(n).file \in defines}
    IN  /\ stage = "no such symbol" => have = {}
        /\ stage \in {"order", "done"} => bound \in have /\ \A n \in have : near(bound) <= near(n)

\* Every relocation of every image has been applied once, in the storage of
\* the segment around it and with the base of the right image: a word of the
\* program, or of a shared image, is never adjusted twice.
RelocatedOnce ==
    LET wanted == UNION {{<<n, r>> : r \in ToSet(LoadRelocs[Node(n).file])} : n \in DOMAIN nodes}
        place(w) == <<w.node, LoadSegments[Node(w.node).file][w.segment].base + w.at>>
        value(n, r) == IF r.symbol THEN Node(bound).base + Value(Node(bound).file) ELSE Node(n).base + r.addend
    IN  stage \in {"order", "done"} =>
            /\ Len(words) = Cardinality(wanted)
            /\ \A x \in wanted : \E w \in ToSet(words) :
                  place(w) = <<x[1], x[2].at>> /\ w.value = value(x[1], x[2])

\* The array of the init order gets filled, every image in it once.
OrderComplete ==
    /\ stage # "order not filled"
    /\ stage = "done" => ToSet(order) = DOMAIN nodes /\ IsInjective(order)

\* Where the images that are shared need nothing themselves, as the vdso, an
\* image is initialized after all that it needs.
DependenciesFirst ==
    (/\ stage = "done"
     /\ \A n \in DOMAIN nodes : \A d \in ToSet(Node(n).deps) : d.own \/ Node(d.node).deps = << >>) =>
        \A i, j \in DOMAIN order : (\E d \in ToSet(Node(order[i]).deps) : d.node = order[j]) => j < i

\* What the loader puts into memory, for itself and for the program, has pages
\* of its own, and an image is shared where it can be.
ImagesApart == ArraysApart /\ SegmentsApart /\ LoadedTwiceBelowOne

\* The program is linked: symbols bound, relocations applied, and the images
\* put into an order in which each can rely on what it needs.
ImagesLinked == SymbolFound /\ RelocatedOnce /\ OrderComplete /\ DependenciesFirst
=============================================================================
