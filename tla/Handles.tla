------------------------------- MODULE Handles -------------------------------
(***************************************************************************)
(* Handles and their journeys: the handle table of a process               *)
(* (kernel/scheduler/process.cpp), the checks that thorn generates for a   *)
(* token argument (toolchain/thorn/generator.cpp), and the system calls    *)
(* that create, move or release handles.                                   *)
(*                                                                         *)
(* A token is a number that is free in the process; here it is the handle  *)
(* that it names.  No two threads of a process use the same token, as in   *)
(* the programs of the repository, so a system call is one step.  A read   *)
(* that blocks is a step that waits for a message (Mailbox has the         *)
(* details).  An address space is named by the process it may become.      *)
(* Pointer arguments are valid.  What a mapping does to the page table is  *)
(* in Vas.                                                                 *)
(***************************************************************************)
EXTENDS Naturals, Sequences, FiniteSets

CONSTANTS
    Procs,      \* processes
    Boxes,      \* bound: mailboxes
    Handles,    \* bound: handles alive at a time
    Data,       \* what a user message may carry
    None        \* no handle, no object

ASSUME HandlesAssumption == None \notin Handles \cup Boxes \cup Procs /\ Handles # {}

VARIABLES
    about,      \* what each handle refers to, or None: its type, payload and permissions
    table,      \* the handles registered in each process
    mail,       \* the messages in each mailbox
    made,       \* the mailboxes, address spaces and processes that exist
    started,    \* the processes with _started set
    halted      \* the kernel has panicked

handleVars == <<about, table, mail, made, started, halted>>

Kinds == {"mailbox", "process", "vas", "vmo", "vmo_mapping", "kernel_caps"}

GlobalPerms == {"read", "write", "transfer", "clone"}

\* The global permissions have a bit each; those of the object types, such as
\* create_vas and create_process, all have bit 64 (Thorn has the bits).
PermissionBit(perm) == IF perm \in GlobalPerms THEN perm ELSE "64"

AllPerms == GlobalPerms \cup {"64"}

Results == {"ok", "invalid_token", "wrong_handle_type", "not_allowed", "invalid_arguments",
            "invalid_handle", "not_ready"}

Payloads == [kind : Kinds, obj : Boxes \cup Procs \cup {None}, perms : SUBSET AllPerms]

ASSUME PayloadsAssumption == None \notin Payloads

Token(h) == [type |-> "handle_token", handle |-> h]

User(d) == [type |-> "user", data |-> d]

Messages == {Token(h) : h \in Handles} \cup {User(d) : d \in Data}

IsToken(m) == m.type = "handle_token"

Exists(kind, obj) == <<kind, obj>> \in made

Unused == {h \in Handles : about[h] = None}

-----------------------------------------------------------------------------
(* The generated checks of a token argument *)

\* The second check where the first one passes.
Then(first, second) == IF first = "ok" THEN second ELSE first

\* MUTANT of Checked: the permission is not asked for.
TypeOnly(p, h, kind, perm) ==
    CASE h \notin table[p] -> "invalid_token"
      [] h \in table[p] /\ about[h].kind # kind -> "wrong_handle_type"
      [] OTHER -> "ok"

Checked(p, h, kind, perm) ==
    CASE h \notin table[p] -> "invalid_token"
      [] h \in table[p] /\ about[h].kind # kind -> "wrong_handle_type"
      [] OTHER -> IF PermissionBit(perm) \in about[h].perms THEN "ok" ELSE "not_allowed"

\* MUTANT of Transferable: every handle of the process may be moved.
AnyHandle(p, h) == IF h \in table[p] THEN "ok" ELSE "invalid_token"

\* What rose_mailbox_write and rose_process_start ask of the handle they move.
Transferable(p, h) ==
    CASE h \notin table[p] -> "invalid_token"
      [] OTHER -> IF "transfer" \in about[h].perms THEN "ok" ELSE "not_allowed"

\* create_handle and register_for_token
Registered(p, h) == [table EXCEPT ![p] = @ \cup {h}]

Describe(h, kind, obj, perms) == [about EXCEPT ![h] = [kind |-> kind, obj |-> obj, perms |-> perms]]

\* MUTANT of Unregistered: the sender keeps its token.
StaysRegistered(p, h) == table

\* unregister_token
Unregistered(p, h) == [table EXCEPT ![p] = @ \ {h}]

-----------------------------------------------------------------------------
(* The system calls of process p; res is what the call returns *)

\* Of a token that p does not have, unregister_token panics.
TokenRelease(p, h) ==
    /\ IF h \in table[p]
       THEN table' = Unregistered(p, h) /\ about' = [about EXCEPT ![h] = None] /\ halted' = halted
       ELSE halted' = (h # None) /\ UNCHANGED <<table, about>>
    /\ UNCHANGED <<mail, made, started>>

MailboxCreate(p, b, r, w) ==
    /\ ~Exists("mailbox", b)
    /\ {r, w} \subseteq Unused /\ r # w
    /\ made' = made \cup {<<"mailbox", b>>}
    /\ about' = [Describe(r, "mailbox", b, {"read", "transfer", "clone"})
                    EXCEPT ![w] = [kind |-> "mailbox", obj |-> b, perms |-> {"write", "transfer", "clone"}]]
    /\ table' = [table EXCEPT ![p] = @ \cup {r, w}]
    /\ UNCHANGED <<mail, started, halted>>

MailboxWrite(p, w, m, res) ==
    /\ res = Then(Checked(p, w, "mailbox", "write"), IF IsToken(m) THEN Transferable(p, m.handle) ELSE "ok")
    /\ IF res = "ok"
       THEN /\ mail' = [mail EXCEPT ![about[w].obj] = Append(@, m)]
            /\ table' = IF IsToken(m) THEN Unregistered(p, m.handle) ELSE table
       ELSE UNCHANGED <<mail, table>>
    /\ UNCHANGED <<about, made, started, halted>>

\* A read of an empty mailbox fails if it may not block, and waits otherwise.
MailboxRead(p, r, mayBlock, res, m) ==
    /\ LET check == Checked(p, r, "mailbox", "read")
           b     == about[r].obj
       IN  IF check = "ok" /\ mail[b] # << >>
           THEN /\ res = "ok" /\ m = Head(mail[b])
                /\ mail' = [mail EXCEPT ![b] = Tail(@)]
                /\ table' = IF IsToken(m) THEN Registered(p, m.handle) ELSE table
           ELSE /\ check = "ok" => ~mayBlock
                /\ res = Then(check, "not_ready")
                /\ UNCHANGED <<mail, table>>
    /\ UNCHANGED <<about, made, started, halted>>

\* rose_vmo_create
VmoCreate(p, h) ==
    /\ h \in Unused
    /\ about' = Describe(h, "vmo", None, AllPerms)
    /\ table' = Registered(p, h)
    /\ UNCHANGED <<mail, made, started, halted>>

\* rose_mapping_create
MappingCreate(p, v, vmo, h, res) ==
    /\ res = Then(Checked(p, v, "vas", "create_mapping"), Checked(p, vmo, "vmo", "map"))
    /\ IF res = "ok"
       THEN h \in Unused /\ about' = Describe(h, "vmo_mapping", about[v].obj, AllPerms) /\ table' = Registered(p, h)
       ELSE UNCHANGED <<about, table>>
    /\ UNCHANGED <<mail, made, started, halted>>

\* rose_mapping_destroy: the token stays, and refers to an invalid mapping.
MappingDestroy(p, h, res) ==
    /\ res = Then(Checked(p, h, "vmo_mapping", "destroy"),
                  IF about[h].obj = None THEN "invalid_handle" ELSE "ok")
    /\ about' = IF res = "ok" THEN [about EXCEPT ![h].obj = None] ELSE about
    /\ UNCHANGED <<table, mail, made, started, halted>>

VasCreate(p, caps, q, v, res) ==
    /\ res = Checked(p, caps, "kernel_caps", "create_vas")
    /\ IF res = "ok"
       THEN /\ v \in Unused /\ ~Exists("vas", q)
            /\ made' = made \cup {<<"vas", q>>}
            /\ about' = Describe(v, "vas", q, GlobalPerms \cup {PermissionBit("create_mapping")})
            /\ table' = Registered(p, v)
       ELSE UNCHANGED <<made, about, table>>
    /\ UNCHANGED <<mail, started, halted>>

\* claim_for_process
Claimed(q) == IF Exists("process", q) THEN "invalid_arguments" ELSE "ok"

ProcessCreate(p, caps, v, h, res) ==
    /\ res = Then(Then(Checked(p, caps, "kernel_caps", "create_process"), Checked(p, v, "vas", "write")),
                  Claimed(about[v].obj))
    /\ IF res = "ok"
       THEN /\ h \in Unused
            /\ made' = made \cup {<<"process", about[v].obj>>}
            /\ about' = Describe(h, "process", about[v].obj, GlobalPerms)
            /\ table' = Registered(p, h)
       ELSE UNCHANGED <<made, about, table>>
    /\ UNCHANGED <<mail, started, halted>>

NotStarted(q) == IF q \in started THEN "invalid_arguments" ELSE "ok"

\* The bootstrap handle moves to the new process, whose first thread gets it.
ProcessStart(p, h, boot, res) ==
    /\ res = Then(Then(Checked(p, h, "process", "write"), Transferable(p, boot)), NotStarted(about[h].obj))
    /\ IF res = "ok"
       THEN /\ started' = started \cup {about[h].obj}
            /\ table' = [Unregistered(p, boot) EXCEPT ![about[h].obj] = @ \cup {boot}]
       ELSE UNCHANGED <<started, table>>
    /\ UNCHANGED <<about, mail, made, halted>>

-----------------------------------------------------------------------------
(* Properties that every user of the system calls keeps *)

\* The variables hold what the code's objects can hold.
HandlesTypeOK ==
    /\ about \in [Handles -> Payloads \cup {None}]
    /\ table \in [Procs -> SUBSET Handles]
    /\ mail \in [Boxes -> Seq(Messages)]
    /\ made \subseteq {"mailbox", "vas", "process"} \X (Boxes \cup Procs)
    /\ started \subseteq Procs
    /\ halted \in BOOLEAN

\* The tables and messages in which handle h is.
Places(h) ==
    {<<"table", p>> : p \in {q \in Procs : h \in table[q]}}
    \cup UNION {{<<"mail", b, i>> : i \in {j \in DOMAIN mail[b] : mail[b][j] = Token(h)}} : b \in Boxes}

\* A handle that has not been released is registered in one process or is in
\* one message: no call, failed or not, loses it or leaves it in two places.
HandleInOnePlace ==
    /\ HandlesTypeOK
    /\ \A h \in Handles :
        IF about[h] = None THEN Places(h) = {} ELSE \E x \in Places(h) : Places(h) = {x}

\* A handle leaves a process only with the permission "transfer", or by being
\* released: nothing else takes away what a process has been given.
OnlyTransferableMoves ==
    [][\A h \in Handles : \A p \in Procs :
          h \in table[p] \ table'[p] => about'[h] = None \/ "transfer" \in about[h].perms]_handleVars
=============================================================================
