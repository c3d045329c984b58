------------------------------ MODULE MCThorn -------------------------------
(***************************************************************************)
(* Files of the interface compiler for TLC: declarations of every kind,    *)
(* among them ones that name each other, that have the same name, and      *)
(* that have too many parameters.                                          *)
(***************************************************************************)
EXTENDS Thorn

Own(name) == [gen |-> TRUE, names |-> <<name>>]
Other(names) == [gen |-> FALSE, names |-> names]
Number == Other(<<"std", "uintptr_t">>)

Param(name, dirs, token, type) == [name |-> name, dirs |-> dirs, token |-> token, type |-> type]
SyscallDecl(name, blocking, params, result) ==
    [kind |-> "syscall", scope |-> Other(<<"kernel">>), blocking |-> blocking,
     name |-> name, params |-> params, result |-> result]
Numbers(n) == [i \in 1 .. n |-> Param("n", {}, ThornNone, Number)]

IncludeDecl == [kind |-> "include", header |-> "mailbox.h"]
GlobalDecl == [kind |-> "permissions", of |-> ThornNone, perms |-> <<"read", "write">>]
MappingDecl == [kind |-> "permissions", of |-> Other(<<"kernel", "mapping">>), perms |-> <<"unmap", "destroy">>]
OwnPermsDecl == [kind |-> "permissions", of |-> Own("message"), perms |-> <<"read">>]
ResultDecl == [kind |-> "enum", name |-> "result", values |-> <<"ok", "not_ready">>]
MessageDecl ==
    [kind |-> "struct", name |-> "message",
     members |-> <<[name |-> "type", type |-> Own("result"), members |-> << >>],
                   [name |-> "payload", type |-> ThornNone,
                    members |-> <<[name |-> "token", type |-> Number], [name |-> "user", type |-> Own("result")]>>]>>]
SelfDecl == [kind |-> "struct", name |-> "list", members |-> <<[name |-> "next", type |-> Own("list"), members |-> << >>]>>]
EmptyDecl == [kind |-> "struct", name |-> "message", members |-> << >>]
ReadDecl ==
    SyscallDecl("mailbox_read", TRUE,
                <<Param("box", {}, <<"read">>, Other(<<"kernel", "mailbox">>)),
                  Param("message", {"in", "out"}, ThornNone, Own("message"))>>, Own("result"))
DestroyDecl ==
    SyscallDecl("mapping_destroy", FALSE,
                <<Param("mapping", {}, <<"destroy", "write">>, Other(<<"kernel", "mapping">>))>>, ThornNone)
OwnTokenDecl == SyscallDecl("own", FALSE, <<Param("x", {}, <<"read">>, Own("message"))>>, Own("result"))
SixDecl == SyscallDecl("six", FALSE, Numbers(6), Number)
SevenDecl == SyscallDecl("seven", FALSE, Numbers(7), ThornNone)

MCDecls == {IncludeDecl, GlobalDecl, MappingDecl, OwnPermsDecl, ResultDecl, MessageDecl, SelfDecl, EmptyDecl,
            ReadDecl, DestroyDecl, OwnTokenDecl, SixDecl, SevenDecl}

\* All the calls that are accepted, after what they need, and calls of 3 to 5 parameters.
MCLongFile == <<IncludeDecl, GlobalDecl, MappingDecl, ResultDecl, MessageDecl, ReadDecl, DestroyDecl, SixDecl>>
MCCallFile == <<SyscallDecl("three", FALSE, Numbers(3), Number), SyscallDecl("four", FALSE, Numbers(4), Number),
                SyscallDecl("five", FALSE, Numbers(5), Number)>>

\* Every two declarations, the second whole or not; and the long files, cut short after any declaration.
MCThornCutFiles == [1 .. 2 -> MCDecls]
MCThornFiles == MCThornCutFiles \cup {SubSeq(MCLongFile, 1, n) : n \in DOMAIN MCLongFile}
                \cup {MCCallFile} \cup {SubSeq(MCLongFile, 1, 5) \o <<d>> : d \in MCDecls}

ThornSpec == ThornInit /\ [][ThornNext]_thornVars
=============================================================================
