----------------------------- MODULE HandleCalls -----------------------------
(***************************************************************************)
(* Processes that make any of the system calls of Handles with any tokens, *)
(* their own or not.  The first process starts with what kernel_main gives *)
(* to bootinit: a handle of the kernel capabilities and the read end of a  *)
(* mailbox, which it may not transfer.                                     *)
(*                                                                         *)
(* Handles are numbers; a call that makes one takes the least that is      *)
(* free, as the name of a handle means nothing.  A read that may block is  *)
(* one that returns later.                                                 *)
(***************************************************************************)
EXTENDS Handles

CONSTANTS
    FirstProc,  \* the process the kernel starts with
    FirstBox,   \* its mailbox
    MaxMail     \* bound: messages in a mailbox

ASSUME CallsAssumption == FirstProc \in Procs /\ FirstBox \in Boxes /\ MaxMail \in Nat /\ {1, 2} \subseteq Handles /\ Handles \subseteq Nat \ {0}

CallsInit ==
    /\ about = [h \in Handles |->
          CASE h = 1 -> [kind |-> "kernel_caps", obj |-> None, perms |-> AllPerms]
            [] h = 2 -> [kind |-> "mailbox", obj |-> FirstBox, perms |-> {"read"}]
            [] OTHER -> None]
    /\ table = [p \in Procs |-> IF p = FirstProc THEN {1, 2} ELSE {}]
    /\ mail = [b \in Boxes |-> << >>]
    /\ made = {<<"mailbox", FirstBox>>, <<"vas", FirstProc>>, <<"process", FirstProc>>}
    /\ started = {FirstProc} /\ halted = FALSE

IsLeast(h, hs) == h \in hs /\ \A g \in hs : h <= g

\* The tokens that p may name: its own, and 0 for one that it does not have.
Tokens(p) == table[p] \cup {0}

\* What a read may yield.
Arrived == {Head(mail[b]) : b \in {x \in Boxes : mail[x] # << >>}} \cup {[type |-> "none"]}

\* The calls that make handle h, and another one.
CallsCreate(p, h) ==
    \/ \E b \in Boxes, w \in Handles : IsLeast(w, Unused \ {h}) /\ MailboxCreate(p, b, h, w)
    \/ VmoCreate(p, h)
    \/ \E v, vmo \in Tokens(p), res \in Results : MappingCreate(p, v, vmo, h, res)
    \/ \E caps \in Tokens(p), q \in Procs, res \in Results : VasCreate(p, caps, q, h, res)
    \/ \E caps, v \in Tokens(p), res \in Results : ProcessCreate(p, caps, v, h, res)

\* The calls that move, change or end a handle.
CallsUse(p) ==
    \/ \E h \in Tokens(p) \cup {None} : TokenRelease(p, h)
    \/ /\ \A b \in Boxes : Len(mail[b]) < MaxMail
       /\ \E w, h \in Tokens(p), res \in Results : MailboxWrite(p, w, Token(h), res)
    \/ \E r \in Tokens(p), res \in Results, m \in Arrived : MailboxRead(p, r, FALSE, res, m)
    \/ \E h \in Tokens(p), res \in Results : MappingDestroy(p, h, res)
    \/ \E h, boot \in Tokens(p), res \in Results : ProcessStart(p, h, boot, res)

CallsNext == ~halted /\ \E p \in started : \/ CallsUse(p)
                                               \/ \E h \in Handles : IsLeast(h, Unused) /\ CallsCreate(p, h)

HandlesSpec == CallsInit /\ [][CallsNext]_handleVars

-----------------------------------------------------------------------------
(* Properties *)

\* A mailbox of which only the read end was ever given out stays empty,
\* whatever calls the processes make with it: no sequence of creations,
\* transfers and releases gives a handle a permission it did not have.
UnwritableStaysEmpty == mail[FirstBox] = << >>
=============================================================================
