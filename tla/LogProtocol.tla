----------------------------- MODULE LogProtocol -----------------------------
(***************************************************************************)
(* The start of user space: what kernel_main leaves behind, and then the   *)
(* log acceptor and the log handlers (kernel/main.cpp), bootinit           *)
(* (kernel/bootinit), the logger service and its run-time start            *)
(* (userspace/services/logger, libraries/rosert) as threads that make the  *)
(* system calls of Handles.                                                *)
(*                                                                         *)
(* A program is the sequence of its system calls.  Each one names the      *)
(* local variables ("slots") with the tokens it uses and sets; a handle    *)
(* and a mailbox are named by the thread and the slot they are created     *)
(* for.  A call that does not return what the program expects is fatal for *)
(* the thread, as every program has it.  println calls in a row are one.   *)
(***************************************************************************)
EXTENDS Handles, TLC

CONSTANTS
    InitArrays,     \* the number of init arrays of the logger's image
    FiniArrays      \* and of its fini arrays

VARIABLES
    pc,         \* the next call of each thread; 0: not started
    slot,       \* the local variables of each thread
    serves,     \* the process in which each thread runs
    tags,       \* log_acceptor: the process_tags used up
    buffer,     \* log_buffer of each process: the number of the line in it
    printed,    \* the lines of each process in the kernel's log
    ctors,      \* the init arrays that the logger has run
    failed      \* the threads that have met an error

bootVars == <<handleVars, pc, slot, serves, tags, buffer, printed, ctors, failed>>

Handlers == {"handler1", "handler2", "handler3"}     \* one for each of process_tags

Threads == {"acceptor", "bootinit", "logger"} \cup Handlers

Name(t, s) == <<t, s>>

BootProcs == {"kernel", "bootinit", "logger"}

BootBoxes ==
    {Name("kernel", "inbox"), Name("kernel", "accept")}
    \cup {Name(t, s) : t \in {"bootinit", "logger"}, s \in {"log", "ack"}}
    \cup {Name("bootinit", s) : s \in {"protocol", "runtime"}}

BootHandles ==
    {Name("kernel", s) : s \in {"inbox", "accept", "acceptor", "process", "caps", "initrd", "vas"}}
    \cup {Name(t, s) : t \in {"bootinit", "logger"}, s \in {"log_read", "log_write", "ack_read", "ack_write"}}
    \cup {Name("bootinit", s) : s \in {"new_vas", "process", "stack", "stack_mapping", "array", "array_mapping",
                                       "protocol_read", "protocol_write", "runtime_read", "runtime_write"}}
    \cup {Name(t, s) : t \in Handlers, s \in {"log", "ack"}}

Sizes == <<"sizes", 0>>
Line == <<"line", 0>>
Done == <<"done", 0>>

BootData == {Sizes, Line, Done} \cup {<<"count", n>> : n \in 0..(InitArrays + FiniArrays)}
            \cup {<<"init", i>> : i \in 1..InitArrays} \cup {<<"fini", i>> : i \in 1..FiniArrays}

-----------------------------------------------------------------------------
(* The programs *)

\* A read with timeout 0 may block, one with timeout -1 may not.
Read(box, mayBlock, type, into) ==
    [op |-> "read", box |-> box, mayBlock |-> mayBlock, type |-> type, into |-> into]

Send(box, what) == [op |-> "send", box |-> box, what |-> what]

SendUser(box, data) == [op |-> "send_user", box |-> box, data |-> data]

Create(box, r, w) == [op |-> "create", box |-> box, read |-> r, write |-> w]

\* println and flush
Println == <<[op |-> "flush"], Read("ack_read", TRUE, "any", "answer")>>

\* kernel_print::initialize
Initialize ==
    <<Create("log", "log_read", "log_write"), Create("ack", "ack_read", "ack_write"),
      Send("acceptor", "log_read"), Send("acceptor", "ack_write")>>

\* visitor of send_runtime_initialization, for each of n arrays
Arrays(kind, n) ==
    LET one(i) == <<SendUser("runtime_write", <<kind, i>>)>> \o Println
        all[i \in 0..n] == IF i = 0 THEN << >> ELSE all[i - 1] \o one(i)
    IN  all[n]

\* preinit_count() + init_count()
InitCount == InitArrays

SendRuntimeInitialization ==
    <<Create("runtime", "runtime_read", "runtime_write"), SendUser("runtime_write", <<"count", InitCount>>)>>
    \o Println \o Arrays("init", InitArrays) \o <<SendUser("runtime_write", <<"count", FiniArrays>>)>>
    \o Println \o Arrays("fini", FiniArrays)
    \o <<Send("protocol_write", "runtime_read"), [op |-> "release", what |-> "runtime_write"]>>

\* allocate_array, and the destructor of its result
AllocateArray == <<[op |-> "vmo_create", into |-> "array"],
                   [op |-> "mapping_create", vas |-> "vas", vmo |-> "array", into |-> "array_mapping"]>>
FreeArray == <<[op |-> "mapping_destroy", what |-> "array_mapping"], [op |-> "release", what |-> "array"]>>

\* create_process, with one array of the loader for all of them
CreateProcess ==
    <<[op |-> "vas_create", caps |-> "caps", proc |-> "logger", into |-> "new_vas"]>> \o Println
    \o AllocateArray \o Println
    \o <<[op |-> "process_create", caps |-> "caps", vas |-> "new_vas", into |-> "process"],
         [op |-> "vmo_create", into |-> "stack"],
         [op |-> "mapping_create", vas |-> "new_vas", vmo |-> "stack", into |-> "stack_mapping"],
         [op |-> "release", what |-> "stack"], [op |-> "release", what |-> "stack_mapping"],
         Create("protocol", "protocol_read", "protocol_write")>>
    \o SendRuntimeInitialization
    \o <<[op |-> "start", process |-> "process", boot |-> "protocol_read"]>>
    \o FreeArray

\* MUTANT of Introduce: the logger gets the acceptor before the acceptor knows it.
SendsAcceptorFirst == <<Send("protocol_write", "acceptor"), Send("acceptor", "process")>>

\* The log acceptor gets to know the logger, and the logger the log acceptor.
Introduce == <<Send("acceptor", "process"), Send("protocol_write", "acceptor")>>

\* bootinit_main
Bootinit ==
    <<Read("inbox", TRUE, "handle_token", "acceptor")>> \o Initialize \o Println
    \o <<Read("inbox", FALSE, "handle_token", "caps")>> \o Println
    \o <<Read("inbox", FALSE, "handle_token", "initrd")>> \o Println
    \o <<Read("inbox", FALSE, "user", "sizes")>> \o Println
    \o <<Read("inbox", FALSE, "handle_token", "vas")>> \o Println
    \o CreateProcess \o Introduce

\* __rosert::__init
RosertInit == <<Read("runtime", TRUE, "user", "count"), [op |-> "run_ctors"]>>

\* rose_main
Logger ==
    <<Read("inbox", FALSE, "handle_token", "runtime")>> \o RosertInit
    \o <<Read("inbox", TRUE, "handle_token", "acceptor")>> \o Initialize \o Println

\* log_acceptor: the loop over process_tags
LogAcceptor ==
    <<Read("accept", TRUE, "process", "process"), Read("accept", TRUE, "mailbox", "log"),
      Read("accept", TRUE, "mailbox", "ack"), [op |-> "spawn"]>>

\* MUTANT of LogHandler: a line is not acknowledged.
NeverAcknowledges == <<Read("log", TRUE, "user", "line"), [op |-> "print"], [op |-> "again"]>>

\* log_handler: its loop
LogHandler == <<Read("log", TRUE, "user", "line"), [op |-> "print"], SendUser("ack", Done), [op |-> "again"]>>

Program(t) == CASE t = "acceptor" -> LogAcceptor
                [] t = "bootinit" -> Bootinit
                [] t = "logger"   -> Logger
                [] OTHER          -> LogHandler

-----------------------------------------------------------------------------
(* The tail of kernel_main *)

Perms(s) == CASE s \in {"inbox", "accept"} -> {"read"}
              [] s = "acceptor" -> {"write", "transfer"}
              [] s = "vas" -> {PermissionBit("create_mapping")}
              [] OTHER -> AllPerms

\* What the handles that kernel_main creates refer to.  initrd_vmo has been
\* moved into its mapping before, so the handle made of it refers to nothing.
Payload(s) == CASE s = "process" -> <<"process", "bootinit">>
                [] s = "vas" -> <<"vas", "bootinit">>
                [] s = "caps" -> <<"kernel_caps", None>>
                [] s = "initrd" -> <<"vmo", None>>
                [] s = "acceptor" -> <<"mailbox", Name("kernel", "accept")>>
                [] OTHER -> <<"mailbox", Name("kernel", s)>>

KernelToken(s) == Token(Name("kernel", s))

BootInit ==
    /\ about = [h \in Handles |->
          IF h[1] # "kernel" THEN None
          ELSE [kind |-> Payload(h[2])[1], obj |-> Payload(h[2])[2], perms |-> Perms(h[2])]]
    /\ mail = [b \in Boxes |->
          CASE b = Name("kernel", "inbox") ->
                  <<KernelToken("acceptor"), KernelToken("caps"), KernelToken("initrd"), User(Sizes), KernelToken("vas")>>
            [] b = Name("kernel", "accept") -> <<KernelToken("process")>>
            [] OTHER -> << >>]
    /\ table = [p \in Procs |-> CASE p = "bootinit" -> {Name("kernel", "inbox")}
                                  [] p = "kernel" -> {Name("kernel", "accept")}
                                  [] OTHER -> {}]
    /\ made = {<<"mailbox", Name("kernel", s)>> : s \in {"inbox", "accept"}}
              \cup {<<k, p>> : k \in {"vas", "process"}, p \in {"kernel", "bootinit"}}
    /\ started = {"kernel", "bootinit"} /\ halted = FALSE
    /\ pc = [t \in Threads |-> IF t \in {"acceptor", "bootinit"} THEN 1 ELSE 0]
    /\ slot = [t \in Threads |-> CASE t = "acceptor" -> [accept |-> Name("kernel", "accept")]
                                   [] t = "bootinit" -> [inbox |-> Name("kernel", "inbox")]
                                   [] OTHER -> << >>]
    /\ serves = [t \in Threads |-> CASE t = "acceptor" -> "kernel"
                                     [] t \in {"bootinit", "logger"} -> t
                                     [] OTHER -> None]
    /\ tags = 0 /\ ctors = << >> /\ failed = {}
    /\ buffer = [p \in Procs |-> 0] /\ printed = [p \in Procs |-> << >>]

-----------------------------------------------------------------------------
(* The steps of thread t, whose next call is c *)

AtCall(t, op) ==
    /\ ~halted /\ t \notin failed
    /\ pc[t] \in DOMAIN Program(t) /\ Program(t)[pc[t]].op = op

Call(t) == Program(t)[pc[t]]

\* The thread goes on, with local variable s set to v, or has failed.
Goes(t, ok, s, v) ==
    /\ pc' = IF ok THEN [pc EXCEPT ![t] = @ + 1] ELSE pc
    /\ slot' = IF ok THEN [slot EXCEPT ![t] = (s :> v) @@ @] ELSE slot
    /\ failed' = IF ok THEN failed ELSE failed \cup {t}

GoesOn(t, ok) ==
    /\ pc' = IF ok THEN [pc EXCEPT ![t] = @ + 1] ELSE pc
    /\ failed' = IF ok THEN failed ELSE failed \cup {t}
    /\ slot' = slot

Expected(m, type) == type \in {"any", m.type} \/ (IsToken(m) /\ about[m.handle].kind = type)

BootRead(t) ==
    /\ AtCall(t, "read")
    /\ LET c == Call(t)
           h == slot[t][c.box]
       IN  \E res \in Results, m \in Messages :
              /\ MailboxRead(serves[t], h, c.mayBlock, res, m)
              /\ Goes(t, res = "ok" /\ Expected(m, c.type), c.into, IF IsToken(m) THEN m.handle ELSE m.data)
    /\ UNCHANGED <<serves, tags, buffer, printed, ctors>>

BootSend(t) ==
    /\ AtCall(t, "send")
    /\ \E res \in Results :
          /\ MailboxWrite(serves[t], slot[t][Call(t).box], Token(slot[t][Call(t).what]), res)
          /\ GoesOn(t, res = "ok")
    /\ UNCHANGED <<serves, tags, buffer, printed, ctors>>

BootSendUser(t) ==
    /\ AtCall(t, "send_user")
    /\ \E res \in Results :
          /\ MailboxWrite(serves[t], slot[t][Call(t).box], User(Call(t).data), res)
          /\ GoesOn(t, res = "ok")
    /\ UNCHANGED <<serves, tags, buffer, printed, ctors>>

\* println formats the next line into log_buffer, and flush announces it.
BootFlush(t) ==
    /\ AtCall(t, "flush")
    /\ buffer' = [buffer EXCEPT ![serves[t]] = @ + 1]
    /\ \E res \in Results :
          MailboxWrite(serves[t], slot[t]["log_write"], User(Line), res) /\ GoesOn(t, res = "ok")
    /\ UNCHANGED <<serves, tags, printed, ctors>>

BootCreate(t) ==
    /\ AtCall(t, "create")
    /\ LET c == Call(t)
       IN  /\ MailboxCreate(serves[t], Name(t, c.box), Name(t, c.read), Name(t, c.write))
           /\ slot' = [slot EXCEPT ![t] = (c.read :> Name(t, c.read)) @@ (c.write :> Name(t, c.write)) @@ @]
    /\ pc' = [pc EXCEPT ![t] = @ + 1]
    /\ UNCHANGED <<serves, tags, buffer, printed, ctors, failed>>

BootRelease(t) ==
    /\ AtCall(t, "release")
    /\ TokenRelease(serves[t], slot[t][Call(t).what])
    /\ GoesOn(t, TRUE)
    /\ UNCHANGED <<serves, tags, buffer, printed, ctors>>

\* The calls that create an object other than a mailbox, and its token.
BootObject(t) ==
    /\ \/ AtCall(t, "vmo_create") /\ VmoCreate(serves[t], Name(t, Call(t).into)) /\ Goes(t, TRUE, Call(t).into, Name(t, Call(t).into))
       \/ /\ \E op \in {"mapping_create", "vas_create", "process_create"} : AtCall(t, op)
          /\ LET c == Call(t)
                 h == Name(t, c.into)
             IN  \E res \in Results :
                    /\ CASE c.op = "mapping_create" -> MappingCreate(serves[t], slot[t][c.vas], slot[t][c.vmo], h, res)
                         [] c.op = "vas_create" -> VasCreate(serves[t], slot[t][c.caps], c.proc, h, res)
                         [] OTHER -> ProcessCreate(serves[t], slot[t][c.caps], slot[t][c.vas], h, res)
                    /\ Goes(t, res = "ok", c.into, h)
    /\ UNCHANGED <<serves, tags, buffer, printed, ctors>>

BootMappingDestroy(t) ==
    /\ AtCall(t, "mapping_destroy")
    /\ \E res \in Results : MappingDestroy(serves[t], slot[t][Call(t).what], res)
    /\ GoesOn(t, TRUE)      \* an error is only reported
    /\ UNCHANGED <<serves, tags, buffer, printed, ctors>>

\* The first thread of the new process gets the bootstrap token.
BootStart(t) ==
    /\ AtCall(t, "start")
    /\ LET c    == Call(t)
           boot == slot[t][c.boot]
           new  == about[slot[t][c.process]].obj
       IN  \E res \in Results :
              /\ ProcessStart(serves[t], slot[t][c.process], boot, res)
              /\ pc' = IF res = "ok" THEN [pc EXCEPT ![t] = @ + 1, ![new] = 1] ELSE pc
              /\ slot' = IF res = "ok" THEN [slot EXCEPT ![new] = [inbox |-> boot]] ELSE slot
              /\ failed' = IF res = "ok" THEN failed ELSE failed \cup {t}
    /\ UNCHANGED <<serves, tags, buffer, printed, ctors>>

\* The loop of __init: as many messages as have been announced.
BootRunCtors(t) ==
    /\ AtCall(t, "run_ctors")
    /\ LET n == slot[t]["count"][2]
       IN  \/ /\ n = 0
              /\ GoesOn(t, TRUE) /\ UNCHANGED <<handleVars, ctors>>
           \/ /\ n > 0
              /\ \E res \in Results, m \in Messages :
                    /\ MailboxRead(serves[t], slot[t]["runtime"], TRUE, res, m)
                    /\ IF res = "ok" /\ ~IsToken(m)
                       THEN /\ ctors' = Append(ctors, m.data)
                            /\ slot' = [slot EXCEPT ![t]["count"] = <<"count", n - 1>>]
                            /\ UNCHANGED failed
                       ELSE failed' = failed \cup {t} /\ UNCHANGED <<ctors, slot>>
              /\ UNCHANGED pc
    /\ UNCHANGED <<serves, tags, buffer, printed>>

\* log_acceptor creates a handler in the process it has been told of, with
\* handles of its own for the two mailboxes, or panics after the last tag.
BootSpawn(t) ==
    /\ AtCall(t, "spawn")
    /\ LET p  == about[slot[t]["process"]].obj
           hs == CASE tags = 0 -> "handler1" [] tags = 1 -> "handler2" [] OTHER -> "handler3"
           handle(s, perm) == [kind |-> "mailbox", obj |-> about[slot[t][s]].obj, perms |-> {perm}]
       IN  /\ about' = [about EXCEPT ![Name(hs, "log")] = handle("log", "read"), ![Name(hs, "ack")] = handle("ack", "write")]
           /\ table' = [table EXCEPT ![p] = @ \cup {Name(hs, "log"), Name(hs, "ack")}]
           /\ started' = started \cup {p}
           /\ slot' = [slot EXCEPT ![hs] = [log |-> Name(hs, "log"), ack |-> Name(hs, "ack")]]
           /\ serves' = [serves EXCEPT ![hs] = p]
           /\ pc' = [pc EXCEPT ![hs] = 1, ![t] = 1]
    /\ tags' = tags + 1
    /\ halted' = (tags + 1 = Cardinality(Handlers))     \* "implement thread termination"
    /\ UNCHANGED <<mail, made, buffer, printed, ctors, failed>>

\* log_handler copies what is in the buffer now.
BootPrint(t) ==
    /\ AtCall(t, "print")
    /\ printed' = [printed EXCEPT ![serves[t]] = Append(@, buffer[serves[t]])]
    /\ GoesOn(t, TRUE)
    /\ UNCHANGED <<handleVars, serves, tags, buffer, ctors>>

BootAgain(t) ==
    /\ AtCall(t, "again")
    /\ pc' = [pc EXCEPT ![t] = 1]
    /\ UNCHANGED <<handleVars, slot, serves, tags, buffer, printed, ctors, failed>>

BootStep(t) ==
    \/ BootRead(t) \/ BootSend(t) \/ BootSendUser(t) \/ BootFlush(t) \/ BootCreate(t) \/ BootRelease(t)
    \/ BootObject(t) \/ BootMappingDestroy(t) \/ BootStart(t) \/ BootRunCtors(t) \/ BootSpawn(t)
    \/ BootPrint(t) \/ BootAgain(t)

BootNext == \E t \in Threads : BootStep(t)

-----------------------------------------------------------------------------
(* Properties *)

\* Every call of bootinit, the logger, the acceptor and the handlers returns
\* what the program needs: none of their panics is reached, in any order in
\* which the threads run, the reads that must not block included.
NoThreadFails == failed = {} /\ ~halted

\* The kernel's log has the lines of every process once, complete and in
\* order: log_buffer is not overwritten before the handler has copied it.
LinesInOrder ==
    \A p \in Procs : printed[p] = [i \in 1..Len(printed[p]) |-> i] /\ buffer[p] - Len(printed[p]) \in {0, 1}

\* A handler reads the log of the process in whose address space it runs:
\* the three handles that the acceptor takes for one process belong together.
HandlerServesItsProcess ==
    \A t \in Handlers :
        pc[t] # 0 => /\ about[slot[t]["log"]].obj = Name(serves[t], "log")
                     /\ about[slot[t]["ack"]].obj = Name(serves[t], "ack")

\* The logger runs the init arrays, all of them, in the order sent, and never
\* takes a message about fini arrays for one.
CtorsRun ==
    /\ ctors = [i \in 1..Len(ctors) |-> <<"init", i>>]
    /\ pc["logger"] > 3 => Len(ctors) = InitArrays

\* User space starts as it should: no program gives up, every line is logged,
\* by the handler of its process, and the constructors run.
UserSpaceStarts == NoThreadFails /\ LinesInOrder /\ HandlerServesItsProcess /\ CtorsRun

\* Once bootinit has got its first message, it and the logger come to their
\* end, with everything printed.
BootCompletes ==
    pc["bootinit"] > 1 ~>
        \A t \in {"bootinit", "logger"} : pc[t] = Len(Program(t)) + 1 /\ Len(printed[t]) = buffer[t]
=============================================================================
