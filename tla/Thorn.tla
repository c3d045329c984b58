------------------------------- MODULE Thorn --------------------------------
(***************************************************************************)
(* The interface compiler (toolchain/thorn): the parser over the tokens of *)
(* a file, the context that checks and collects its declarations, and what *)
(* the generator makes of them: the numbers of the system calls, the table *)
(* of their handlers, the permission bits and the stubs of the vdso.       *)
(*                                                                         *)
(* A token is its type t and contents c.  At the end of the file the       *)
(* tokenizer keeps its last token as the current one.  A word or a colon   *)
(* that ends the file without a line break sets eof while it is the        *)
(* current token.  main processes one file, so no module depends on        *)
(* another; the text of the generated files is left out.                   *)
(***************************************************************************)
EXTENDS Integers, Sequences, SequencesExt, FiniteSets

CONSTANTS
    ThornFiles,     \* files: sequences of declarations
    ThornCutFiles,  \* those of them that may end inside their last declaration
    ThornNone       \* no return type, no token, no object type

VARIABLES
    file,       \* the declarations of the file, and the tokens it has of the last one
    tokens,     \* the tokens of the file, and whether a line break follows
    at,         \* the place of the tokenizer
    symbols,    \* _symbols_in_order with _symbols
    perms,      \* _permissions and _global_permissions, by object type
    includes,   \* _module_includes
    thornStep,  \* "idle", "process", "output", "done", "error" or "hang"
    generated   \* what the generator has written

thornVars == <<file, tokens, at, symbols, perms, includes, thornStep, generated>>

-----------------------------------------------------------------------------
(* The tokenizer and expect.  A parse ends behind its last token, at 0     *)
(* after an error, and at -1 if it never ends.                             *)

Ended(a) == a > Len(tokens.all)

Cur(a) == CASE a <= 0 -> [t |-> "none", c |-> ""]
            [] a > 0 /\ Ended(a) -> Last(tokens.all)
            [] OTHER -> tokens.all[a]

Expect(a, type) ==
    CASE a <= 0 -> a
      [] a > 0 /\ Cur(a).t # type -> 0
      [] OTHER -> IF Ended(a) THEN a ELSE a + 1

Expects(a, types) == FoldLeft(Expect, a, types)

\* operator==(tokenizer_sentinel)
AtEnd(a) == \/ Ended(a)
            \/ /\ a = Len(tokens.all) /\ ~ tokens.newline
               /\ Cur(a).t \notin {"(", ")", ",", ";", "$", "::", "->", "header"}

-----------------------------------------------------------------------------
(* The parser: each parse yields where it ends and what it has read *)

Parsed(a, v) == [at |-> a, val |-> v]

Identifier(a) == Parsed(Expect(a, "identifier"), Cur(a).c)

Consed(v, rest) == Parsed(rest.at, <<v>> \o rest.val)

\* The element e and, up to the closing parenthesis, a comma and the rest of the list.
Followed(e, list) ==
    IF e.at <= 0 THEN Parsed(e.at, << >>)
    ELSE IF Cur(e.at).t = ")" THEN Parsed(e.at, <<e.val>>)
    ELSE Consed(e.val, list[Expect(e.at, ",")])

TokenPlaces == -1 .. Len(tokens.all) + 1
ListOf(a, Elem(_)) == LET list[b \in TokenPlaces] == Followed(Elem(b), list) IN list[a]

QualifiedName(a) ==
    LET gen == Cur(a).t = "$"
        names[b \in TokenPlaces] ==
            LET e == Identifier(b)
                rest == names[Expect(e.at, "::")]
            IN  IF e.at <= 0 \/ Cur(e.at).t # "::" THEN Parsed(e.at, <<e.val>>)
                ELSE Parsed(rest.at, <<e.val>> \o rest.val)
        n == names[IF gen THEN Expects(a, <<"$", "::">>) ELSE a]
    IN  IF gen /\ Len(n.val) # 1 THEN Parsed(IF n.at < 0 THEN n.at ELSE 0, << >>)
        ELSE Parsed(n.at, [gen |-> gen, names |-> n.val])

ParsePermissions(a) ==
    LET start == Expect(a, "permissions")
        of == IF Cur(start).t = "(" THEN Parsed(start, ThornNone) ELSE QualifiedName(Expect(start, "for"))
        list == ListOf(Expect(of.at, "("), Identifier)
    IN  Parsed(Expects(list.at, <<")", ";">>), [kind |-> "permissions", of |-> of.val, perms |-> list.val])

\* MUTANT of Directions: the last one is kept.
LastDirection(a) ==
    LET dirs[b \in TokenPlaces] ==
            IF Cur(b).t # "direction" THEN Parsed(b, {})
            ELSE IF Ended(b) THEN Parsed(-1, {})
            ELSE Parsed(dirs[b + 1].at, IF dirs[b + 1].val = {} THEN {Cur(b).c} ELSE dirs[b + 1].val)
    IN  IF a <= 0 THEN Parsed(a, {}) ELSE dirs[a]

\* The directions; at the end of the file the loop sees the last of them for ever.
Directions(a) ==
    LET dirs[b \in TokenPlaces] ==
            IF Cur(b).t # "direction" THEN Parsed(b, {})
            ELSE IF Ended(b) THEN Parsed(-1, {})
            ELSE Parsed(dirs[b + 1].at, dirs[b + 1].val \cup {Cur(b).c})
    IN  IF a <= 0 THEN Parsed(a, {}) ELSE dirs[a]

Parameter(a) ==
    LET dirs == Directions(Expects(a, <<"identifier", ":">>))
        start == IF dirs.val = {} THEN dirs.at ELSE Expect(dirs.at, "ptr")
        list == ListOf(Expects(start, <<"token", "(">>), Identifier)
        token == IF Cur(start).t = "token" THEN Parsed(Expect(list.at, ")"), list.val) ELSE Parsed(start, ThornNone)
        type == QualifiedName(token.at)
    IN  Parsed(type.at, [name |-> Cur(a).c, dirs |-> dirs.val, token |-> token.val, type |-> type.val])

SyscallFrom(scope, blocking, name, list) ==
    LET end == Expect(list.at, ")")
        type == IF Cur(end).t = "->" THEN QualifiedName(Expect(end, "->")) ELSE Parsed(end, ThornNone)
    IN  Parsed(Expect(type.at, ";"), [kind |-> "syscall", scope |-> scope, blocking |-> blocking,
                                      name |-> Cur(name).c, params |-> list.val, result |-> type.val])

SyscallIn(scope) ==
    LET blocking == Cur(scope.at).t = ","
        name == Expect(IF blocking THEN Expects(scope.at, <<",", "blocking">>) ELSE scope.at, ")")
    IN  SyscallFrom(scope.val, blocking, name, ListOf(Expects(name, <<"identifier", "(">>), Parameter))

ParseSyscall(a) == SyscallIn(QualifiedName(Expects(a, <<"syscall", "(">>)))

ParseEnum(a) ==
    LET list == ListOf(Expects(a, <<"enum", "identifier", "(">>), Identifier)
    IN  Parsed(Expects(list.at, <<")", ";">>),
               [kind |-> "enum", name |-> Cur(Expect(a, "enum")).c, values |-> list.val])

UnionMember(a) ==
    LET type == QualifiedName(Expects(a, <<"identifier", ":">>))
    IN  Parsed(type.at, [name |-> Cur(a).c, type |-> type.val])

\* A member is a union or has one type.
StructMember(a) ==
    LET start == Expects(a, <<"identifier", ":">>)
        list == ListOf(Expects(start, <<"union", "(">>), UnionMember)
        one == UnionMember(a)
    IN  IF Cur(start).t = "union"
        THEN Parsed(Expect(list.at, ")"), [name |-> Cur(a).c, type |-> ThornNone, members |-> list.val])
        ELSE Parsed(one.at, [name |-> Cur(a).c, type |-> one.val.type, members |-> << >>])

\* The member e of a struct and the rest of them.
AnotherMember(e, list) ==
    IF e.at <= 0 THEN Parsed(e.at, << >>)
    ELSE Consed(e.val, list[IF Cur(e.at).t = ")" THEN e.at ELSE Expect(e.at, ",")])

\* The members may be none, and a comma may follow the last one.
Members(a) ==
    LET list[b \in TokenPlaces] ==
            IF b <= 0 \/ Cur(b).t = ")" THEN Parsed(b, << >>) ELSE AnotherMember(StructMember(b), list)
    IN  list[a]

StructFrom(name, members) ==
    Parsed(Expects(members.at, <<")", ";">>), [kind |-> "struct", name |-> name, members |-> members.val])

ParseStruct(a) == StructFrom(Cur(Expect(a, "struct")).c, Members(Expects(a, <<"struct", "identifier", "(">>)))

ParseInclude(a) ==
    Parsed(Expects(a, <<"include", "header", ";">>), [kind |-> "include", header |-> Cur(Expect(a, "include")).c])

\* The switch of context::process
Declaration(a) ==
    CASE Cur(a).t = "permissions" -> ParsePermissions(a)
      [] Cur(a).t = "enum" -> ParseEnum(a)
      [] Cur(a).t = "struct" -> ParseStruct(a)
      [] Cur(a).t = "syscall" -> ParseSyscall(a)
      [] Cur(a).t = "include" -> ParseInclude(a)
      [] OTHER -> Parsed(0, << >>)

-----------------------------------------------------------------------------
(* The context: what it refuses and what it collects *)

Scope == <<"scope">>        \* _args.scope
ResultType == Scope \o <<"result">>
TypeName(q) == IF q.gen THEN Scope \o q.names ELSE q.names

Resolves(q) == q.gen => \E i \in DOMAIN symbols : symbols[i].name = q.names[1]

\* The key of the permissions of an object type; the global ones have none.
OwnerOf(of) == IF of = ThornNone THEN << >> ELSE TypeName(of)

Known(owners) == UNION {Range(perms[o]) : o \in owners \cap DOMAIN perms}

ParameterAllowed(p) ==
    /\ p.token # ThornNone => ~ p.type.gen
    /\ IF p.dirs # {} \/ p.token = ThornNone THEN Resolves(p.type)
       ELSE Range(p.token) \subseteq Known({<< >>, p.type.names})

\* has_token_with_permissions asks for the required permissions of a
\* description that has just been made and has none.
RequiredWhenAsked(p) == << >>
HasTokenWithPermissions(d) ==
    \E i \in DOMAIN d.params : /\ d.params[i].dirs = {} /\ d.params[i].token # ThornNone
                               /\ RequiredWhenAsked(d.params[i]) # << >>

KernelRegisters == <<"rdi", "rsi", "r8", "r9", "r10", "r12">>

SyscallAllowed(d) ==
    /\ Len(d.params) <= Len(KernelRegisters)
    /\ \A i \in DOMAIN d.params : ParameterAllowed(d.params[i])
    /\ d.result # ThornNone => Resolves(d.result)
    /\ HasTokenWithPermissions(d) => d.result # ThornNone /\ TypeName(d.result) = ResultType

StructAllowed(d) ==
    \A i \in DOMAIN d.members :
        LET m == d.members[i]
        IN  IF m.type # ThornNone THEN Resolves(m.type)
            ELSE \A j \in DOMAIN m.members : Resolves(m.members[j].type)

PermissionsAllowed(d) ==
    /\ d.of # ThornNone => Resolves(d.of)
    /\ OwnerOf(d.of) \notin DOMAIN perms

IsSymbol(d) == d.kind \in {"enum", "struct", "syscall"}
Fresh(d) == \A i \in DOMAIN symbols : symbols[i].name # d.name

Allowed(d) ==
    /\ IsSymbol(d) => Fresh(d)
    /\ d.kind = "struct" => StructAllowed(d)
    /\ d.kind = "syscall" => SyscallAllowed(d)
    /\ d.kind = "permissions" => PermissionsAllowed(d)

Insert(d) ==
    /\ symbols' = IF IsSymbol(d) THEN Append(symbols, d) ELSE symbols
    /\ perms' = IF d.kind = "permissions" THEN [o \in {OwnerOf(d.of)} |-> d.perms] @@ perms ELSE perms
    /\ includes' = IF d.kind = "include" THEN includes \cup {d.header} ELSE includes

-----------------------------------------------------------------------------
(* The generator *)

CallNames == {symbols[i].name : i \in {j \in DOMAIN symbols : symbols[j].kind = "syscall"}}
CallOf(name) == CHOOSE d \in Range(symbols) : d.name = name

\* The number of a system call is its place after the shuffle, from 0.
IdsOf(order) == [name \in Range(order) |-> (CHOOSE i \in DOMAIN order : order[i] = name) - 1]

\* The generator collects the names by their numbers and writes them in that order.
TableOf(ids) == [i \in 1 .. Cardinality(DOMAIN ids) |-> CHOOSE name \in DOMAIN ids : ids[name] = i - 1]

\* The bits of the global permissions count up; those of an object type are all 64,
\* the loop over them leaves its counter alone.
Bits(owner) == [i \in DOMAIN perms[owner] |-> IF owner = << >> THEN i - 1 ELSE 64]

Translation == << <<"r9", "r12">>, <<"r8", "r10">>, <<"rcx", "r9">>, <<"rdx", "r8">> >>

\* MUTANT of Moves: one register is not moved.
MovesOneFewer(n) == SubSeq(Translation, Len(KernelRegisters) - n + 2, Len(Translation))

\* What the stub of a call of n parameters moves, in that order.
Moves(n) == SubSeq(Translation, Len(KernelRegisters) - n + 1, Len(Translation))

-----------------------------------------------------------------------------
(* What is written, and the actions *)

Tok(t) == <<[t |-> t, c |-> t]>>
Word(c) == <<[t |-> "identifier", c |-> c]>>

\* The elements of s by W, with a separator between them.
Separated(s, W(_), sep) == FoldLeft(LAMBDA acc, e : (IF acc = << >> THEN acc ELSE acc \o Tok(sep)) \o W(e), << >>, s)

WrittenName(q) == (IF q.gen THEN Tok("$") \o Tok("::") ELSE << >>) \o Separated(q.names, Word, "::")
WrittenMember(m) == Word(m.name) \o Tok(":") \o WrittenName(m.type)
WrittenStructMember(m) ==
    IF m.type # ThornNone THEN WrittenMember(m)
    ELSE Word(m.name) \o Tok(":") \o Tok("union") \o Tok("(") \o Separated(m.members, WrittenMember, ",") \o Tok(")")
WrittenDirection(dir) == <<[t |-> "direction", c |-> dir]>>
WrittenParameter(p) ==
    Word(p.name) \o Tok(":") \o FoldLeft(LAMBDA acc, d : acc \o WrittenDirection(d), << >>, SetToSeq(p.dirs))
    \o (IF p.dirs = {} THEN << >> ELSE Tok("ptr"))
    \o (IF p.token = ThornNone THEN << >> ELSE Tok("token") \o Tok("(") \o Separated(p.token, Word, ",") \o Tok(")"))
    \o WrittenName(p.type)

\* The declaration d as the language writes it.
WrittenAs(d) ==
    CASE d.kind = "permissions" ->
            Tok("permissions") \o (IF d.of = ThornNone THEN << >> ELSE Tok("for") \o WrittenName(d.of))
            \o Tok("(") \o Separated(d.perms, Word, ",") \o Tok(")") \o Tok(";")
      [] d.kind = "enum" ->
            Tok("enum") \o Word(d.name) \o Tok("(") \o Separated(d.values, Word, ",") \o Tok(")") \o Tok(";")
      [] d.kind = "struct" ->
            Tok("struct") \o Word(d.name) \o Tok("(") \o Separated(d.members, WrittenStructMember, ",") \o Tok(")") \o Tok(";")
      [] d.kind = "include" -> Tok("include") \o <<[t |-> "header", c |-> d.header]>> \o Tok(";")
      [] OTHER ->
            Tok("syscall") \o Tok("(") \o WrittenName(d.scope)
            \o (IF d.blocking THEN Tok(",") \o Tok("blocking") ELSE << >>) \o Tok(")")
            \o Word(d.name) \o Tok("(") \o Separated(d.params, WrittenParameter, ",") \o Tok(")")
            \o (IF d.result = ThornNone THEN << >> ELSE Tok("->") \o WrittenName(d.result)) \o Tok(";")

ThornInit ==
    /\ file = [decls |-> << >>, cut |-> 0] /\ tokens = [all |-> << >>, newline |-> TRUE] /\ at = 1
    /\ symbols = << >> /\ perms = << >> /\ includes = {}
    /\ thornStep = "idle" /\ generated = ThornNone

\* A file of the given declarations, of the last of which it has the first cut tokens.
ThornPick ==
    /\ thornStep = "idle" /\ thornStep' = "process"
    /\ \E decls \in ThornFiles :
          LET last == WrittenAs(Last(decls))
              before == FoldLeft(LAMBDA acc, d : acc \o WrittenAs(d), << >>, Front(decls))
          IN  \E cut \in IF decls \in ThornCutFiles THEN 1 .. Len(last) ELSE {Len(last)}, newline \in BOOLEAN :
                /\ file' = [decls |-> decls, cut |-> cut]
                /\ tokens' = [all |-> before \o SubSeq(last, 1, cut), newline |-> newline]
    /\ UNCHANGED <<at, symbols, perms, includes, generated>>

\* One round of the loop of context::process.  An error ends the program.
ThornDeclare ==
    /\ thornStep = "process" /\ ~ AtEnd(at)
    /\ \E d \in {Declaration(at)} :
          IF d.at > 0 /\ Allowed(d.val)
          THEN at' = d.at /\ Insert(d.val) /\ UNCHANGED thornStep
          ELSE thornStep' = (IF d.at < 0 THEN "hang" ELSE "error") /\ UNCHANGED <<at, symbols, perms, includes>>
    /\ UNCHANGED <<file, tokens, generated>>

\* context::output: the shuffle gives any order.
ThornOutput ==
    /\ thornStep = "process" /\ AtEnd(at) /\ thornStep' = "done"
    /\ \E order \in SetToSeqs(CallNames) :
          generated' = [ids |-> IdsOf(order), table |-> TableOf(IdsOf(order)),
                        bits |-> [o \in DOMAIN perms |-> Bits(o)],
                        stubs |-> [name \in CallNames |-> Moves(Len(CallOf(name).params))]]
    /\ UNCHANGED <<file, tokens, at, symbols, perms, includes>>

ThornNext == ThornPick \/ ThornDeclare \/ ThornOutput

-----------------------------------------------------------------------------
(* Properties *)

Whole == file.cut = Len(WrittenAs(Last(file.decls)))

\* A file that is accepted has been understood: the symbols in their order,
\* the permissions and the headers are those of the declarations that were
\* written, whatever follows what in them.
ParsesWhatIsWritten ==
    thornStep = "done" /\ Whole =>
        LET of(kind) == {d \in Range(file.decls) : d.kind = kind}
        IN  /\ symbols = SelectSeq(file.decls, IsSymbol)
            /\ perms = [o \in {OwnerOf(d.of) : d \in of("permissions")} |->
                          (CHOOSE d \in of("permissions") : OwnerOf(d.of) = o).perms]
            /\ includes = {d.header : d \in of("include")}

\* A file that ends inside a declaration is not accepted, although the
\* tokenizer repeats its last token at the end of the file.  One case is let
\* through: a first word with no line break after it, which eof hides.  Only a
\* file that ends with a direction keeps the parser in its loop for ever.
TruncatedRejected ==
    /\ thornStep = "done" /\ ~ Whole => file.cut = 1 /\ ~ tokens.newline
    /\ thornStep = "hang" => ~ Whole /\ Last(tokens.all).t = "direction"

\* The header declares every type of the generated scope before it is used:
\* the generator writes the symbols in the order they were inserted in.
DefinedBeforeUse ==
    thornStep = "done" =>
        \A i \in DOMAIN symbols :
            LET d == symbols[i]
                names == CASE d.kind = "enum" -> {}
                           [] d.kind = "struct" ->
                                UNION {IF m.type # ThornNone THEN {m.type} ELSE {u.type : u \in Range(m.members)}
                                       : m \in Range(d.members)}
                           [] OTHER -> {p.type : p \in Range(d.params)} \cup ({d.result} \ {ThornNone})
            IN  \A q \in names : q.gen => \E j \in 1 .. i - 1 : symbols[j].name = q.names[1]

\* The entry of the handler table that a stub asks for by its number is the
\* handler of that call, for every order of the shuffle.
DispatchesToItsHandler ==
    thornStep = "done" =>
        /\ Len(generated.table) = Cardinality(CallNames)
        /\ \A name \in CallNames : generated.table[generated.ids[name] + 1] = name

\* The registers of the arguments in the C calling convention, and what the
\* stub's moves, which overwrite registers they read, leave in them.
CRegisters == <<"rdi", "rsi", "rdx", "rcx", "r8", "r9">>
AfterMoves(moves) ==
    FoldLeft(LAMBDA regs, m : [regs EXCEPT ![m[2]] = regs[m[1]]],
             [r \in Range(CRegisters) \cup Range(KernelRegisters) |->
                 IF r \in Range(CRegisters) THEN CHOOSE i \in DOMAIN CRegisters : CRegisters[i] = r ELSE 0],
             moves)

\* Each argument of a call is, when its stub enters the kernel, in the register
\* in which the handler looks for it.
ArgumentsArrive ==
    thornStep = "done" =>
        \A name \in CallNames :
            \A i \in DOMAIN CallOf(name).params : AfterMoves(generated.stubs[name])[KernelRegisters[i]] = i

\* A global permission has a bit that no other permission has, global or of an
\* object type: a handle with it grants nothing else.
GlobalBitsApart ==
    thornStep = "done" /\ << >> \in DOMAIN perms =>
        \A i \in DOMAIN perms[<< >>], o \in DOMAIN perms : \A j \in DOMAIN perms[o] :
            <<o, j>> # << << >>, i>> => generated.bits[o][j] # generated.bits[<< >>][i]

\* The compiler accepts what it has understood, and nothing that is cut short.
FilesUnderstood == ParsesWhatIsWritten /\ TruncatedRejected

\* What is generated fits together: the header, the stubs of the vdso, the
\* table of the handlers and the permissions that the handlers ask for.
OutputFits == DefinedBeforeUse /\ DispatchesToItsHandler /\ ArgumentsArrive /\ GlobalBitsApart

\* What the context's last check of a system call is for: one with a token that
\* needs permissions returns the generated result, which tells of a refusal.
TokenCallsReturnResult ==
    thornStep = "done" =>
        \A name \in CallNames :
            LET d == CallOf(name)
            IN  (\E i \in DOMAIN d.params : d.params[i].dirs = {} /\ d.params[i].token # ThornNone) =>
                    d.result # ThornNone /\ TypeName(d.result) = ResultType
=============================================================================
