--------------------------- MODULE ExchangeProofs ---------------------------
(***************************************************************************)
(* What one hands to another arrives, once: messages between threads,      *)
(* handles between processes and calls between cores.                      *)
(***************************************************************************)
EXTENDS Mailbox, HandleCalls, IpiQueue, TLAPS

-----------------------------------------------------------------------------
(* Messages (Mailbox) *)

\* Messages and wake-ups are not lost, for any number of cores, threads,
\* messages and reads

\* A reader waits at most once, in its own mailbox.
WaitsOnce == \A t \in Threads : waiters[t] \in {<<>>, <<t>>}

\* A thread is ready on one core, or runs on one core, or waits.
OnePlace ==
    \A t \in Threads : \A c \in Cores :
        /\ waiters[t] # <<>> => running[c] # t /\ t \notin runnable[c]
        /\ \A d \in Cores :
              /\ t \in runnable[c] => running[d] # t /\ (t \in runnable[d] => c = d)
              /\ running[c] = t /\ running[d] = t => c = d

\* Whoever is about to set a continuation has a thread to set it for.
SetsForThread == \A c \in Cores : pc[c] = "set" => prev[c] \in Threads

MailInv ==
    /\ TypeOK /\ SetsForThread
    /\ WaitsOnce /\ OnePlace
    /\ NoneWaitsForQueued /\ DeliveredInOrder

-----------------------------------------------------------------------------
(* Facts about sequences *)

\* A message behind the queued ones is behind the delivered ones too.
LEMMA ConcatAppend ==
    ASSUME NEW n \in Nat, NEW s \in Seq(1 .. n), NEW t \in Seq(1 .. n), NEW e \in 1 .. n
    PROVE  s \o Append(t, e) = Append(s \o t, e)
BY SMTT(30)

\* Delivering the first message leaves the whole sequence as it was.
LEMMA MoveHead ==
    ASSUME NEW S, NEW s \in Seq(S), NEW t \in Seq(S), t # <<>>
    PROVE  Append(s, Head(t)) \o Tail(t) = s \o t
OBVIOUS

\* The numbers up to n, and one more.
LEMMA CountOn ==
    ASSUME NEW n \in Nat
    PROVE  Append([i \in 1 .. n |-> i], n + 1) = [i \in 1 .. n + 1 |-> i]
OBVIOUS

\* A queue of one.
LEMMA Single == \A x : <<x>> # <<>> /\ Head(<<x>>) = x /\ Tail(<<x>>) = <<>> /\ Append(<<>>, x) = <<x>>
OBVIOUS

-----------------------------------------------------------------------------
(* What the parts of the actions do *)

\* Waking a thread that waits keeps the threads in their places.
LEMMA WakeFirstStep ==
    ASSUME MailInv, NEW m \in Threads, WakeFirst(m)
    PROVE  /\ running' \in [Cores -> Threads \cup {Idle}]
           /\ runnable' \in [Cores -> SUBSET Threads]
           /\ waiters' \in [Threads -> Seq(Threads)]
           /\ waiters'[m] = <<>>
           /\ \A t \in Threads \ {m} : waiters'[t] = waiters[t]
           /\ OnePlace'
           /\ UNCHANGED lifeVars \/ LifeNext
<1> USE MailAssumption DEF MailInv, TypeOK
<1>1. CASE waiters[m] = <<>>
  BY <1>1, Zenon DEF WakeFirst, lifeVars, OnePlace
<1>2. CASE waiters[m] # <<>>
  <2>1. waiters[m] = <<m>>
    BY <1>2, Zenon DEF WaitsOnce
  <2>2. PICK d \in Cores : Wake(d, m)
    BY <1>2, <2>1, Single DEF WakeFirst
  <2>3. waiters' = [waiters EXCEPT ![m] = <<>>]
    BY <1>2, <2>1, Single, Zenon DEF WakeFirst
  <2>4. running' = running /\ runnable' = [runnable EXCEPT ![d] = @ \cup {m}]
    BY <2>2, Zenon DEF Wake
  <2>5. \A c \in Cores : running[c] # m /\ m \notin runnable[c]
    BY <1>2, Zenon DEF OnePlace
  <2>6. OnePlace'
    <3>1. \A c \in Cores : runnable'[c] = IF c = d THEN runnable[c] \cup {m} ELSE runnable[c]
      BY <2>4, Zenon
    <3>2. \A t \in Threads : waiters'[t] = IF t = m THEN <<>> ELSE waiters[t]
      BY <2>3, Zenon
    <3> SUFFICES ASSUME NEW t \in Threads, NEW c \in Cores
                 PROVE  /\ waiters'[t] # <<>> => running'[c] # t /\ t \notin runnable'[c]
                        /\ \A e \in Cores :
                              /\ t \in runnable'[c] => running'[e] # t /\ (t \in runnable'[e] => c = e)
                              /\ running'[c] = t /\ running'[e] = t => c = e
      BY Zenon DEF OnePlace
    <3>3. CASE t = m
      BY <2>4, <2>5, <3>1, <3>2, <3>3, Zenon
    <3>4. CASE t # m
      BY <2>4, <3>1, <3>2, <3>4, Zenon DEF OnePlace
    <3> QED  BY <3>3, <3>4, Zenon
  <2>7. m \in Blocked
    BY <2>5 DEF Blocked
  <2>8. LifeNext
    BY <2>2, <2>7, Zenon DEF LifeNext
  <2> QED  BY <2>3, <2>4, <2>6, <2>8
<1> QED  BY <1>1, <1>2, Zenon

\* A thread that blocks leaves its core to one that is ready there.
LEMMA WaitsStep ==
    ASSUME MailInv, NEW c \in Cores, NEW t \in Threads, running[c] = t, Waits(c, t)
    PROVE  /\ running' \in [Cores -> Threads \cup {Idle}]
           /\ runnable' \in [Cores -> SUBSET Threads]
           /\ waiters' = [waiters EXCEPT ![t] = <<t>>]
           /\ messages[t] = <<>>
           /\ OnePlace'
           /\ LifeNext
<1> USE MailAssumption DEF MailInv, TypeOK
<1>1. PICK u \in Threads \cup {Idle} : Block(c, u)
  BY Zenon DEF Waits
<1>2. /\ u \in runnable[c] \/ (u = Idle /\ runnable[c] = {})
      /\ running' = [running EXCEPT ![c] = u]
      /\ runnable' = [runnable EXCEPT ![c] = @ \ {u}]
  BY <1>1, Zenon DEF Block, SwitchTo
<1>3. waiters[t] = <<>>
  BY Zenon DEF OnePlace
<1>4. waiters' = [waiters EXCEPT ![t] = <<t>>]
  BY <1>3, Single, Zenon DEF Waits
<1>5. OnePlace'
  <2>1. /\ waiters'[t] = <<t>> /\ \A s \in Threads \ {t} : waiters'[s] = waiters[s]
        /\ running'[c] = u /\ \A d \in Cores \ {c} : running'[d] = running[d]
        /\ runnable'[c] = runnable[c] \ {u} /\ \A d \in Cores \ {c} : runnable'[d] = runnable[d]
    BY <1>2, <1>4, Zenon
  <2>2. Idle \notin Threads /\ u # t
    BY <1>2, Zenon DEF OnePlace
  <2>3. u \in Threads => \A d \in Cores : u \notin runnable'[d] /\ running[d] # u /\ (running'[d] = u => d = c)
    <3>1. ASSUME u \in Threads PROVE u \in runnable[c] /\ \A d \in Cores : running[d] # u /\ (u \in runnable[d] => d = c)
      BY <1>2, <2>2, <3>1, Zenon DEF OnePlace
    <3> QED BY <2>1, <3>1, Zenon
  <2>4. ASSUME NEW d \in Cores, NEW s \in Threads, s # u
        PROVE  (running'[d] = s => running[d] = s /\ s # t) /\ (s \in runnable'[d] => s \in runnable[d])
    <3>1. CASE d = c
      BY <2>1, <2>4, <3>1, Zenon
    <3>2. CASE d # c
      <4>1. running'[d] = running[d] /\ runnable'[d] = runnable[d]
        BY <2>1, <3>2, Zenon
      <4>2. running[d] # t
        BY <3>2, Zenon DEF OnePlace
      <4> QED  BY <4>1, <4>2, Zenon
    <3> QED  BY <3>1, <3>2, Zenon
  <2>5. waiters[t] = <<>> /\ \A d \in Cores : t \notin runnable[d]
    BY <1>3, Zenon DEF OnePlace
  <2>6. OnePlace /\ (u \in Threads => waiters[u] = <<>>)
    BY <1>2, <2>2, Zenon DEF OnePlace
  <2> HIDE DEF MailInv, TypeOK
  <2> SUFFICES ASSUME NEW s \in Threads, NEW d \in Cores
               PROVE  /\ waiters'[s] # <<>> => running'[d] # s /\ s \notin runnable'[d]
                      /\ \A e \in Cores :
                            /\ s \in runnable'[d] => running'[e] # s /\ (s \in runnable'[e] => d = e)
                            /\ running'[d] = s /\ running'[e] = s => d = e
    BY Zenon DEF OnePlace
  <2>7. CASE s = u
    BY <2>1, <2>2, <2>3, <2>6, <2>7, Zenon
  <2>8. CASE s # u
    <3>1. waiters'[s] # <<>> => s = t \/ waiters[s] # <<>>
      BY <2>1, Zenon
    <3>2. s = t => running'[d] # s /\ s \notin runnable'[d]
      BY <2>4, <2>5, <2>8
    <3> QED  BY <2>4, <2>6, <2>8, <3>1, <3>2, Zenon DEF OnePlace
  <2> QED  BY <2>7, <2>8, Zenon
<1>6. LifeNext
  BY <1>1, Zenon DEF LifeNext
<1> QED  BY <1>2, <1>4, <1>5, <1>6, Zenon DEF Waits

\* A received message moves from the queue to the reader.
LEMMA ReceiveStep ==
    ASSUME MailInv, NEW t \in Threads, Receive(t), UNCHANGED sent
    PROVE  /\ messages' \in [Threads -> Seq(1 .. MaxMessages)]
           /\ got' \in [Threads -> Seq(1 .. MaxMessages)]
           /\ returned' \in [Threads -> Nat]
           /\ \A m \in Threads : messages[m] = <<>> => messages'[m] = <<>>
           /\ DeliveredInOrder'
<1> USE MailAssumption DEF MailInv, TypeOK
<1>1. /\ messages' = [messages EXCEPT ![t] = Tail(@)]
      /\ got' = [got EXCEPT ![t] = Append(@, Head(messages[t]))]
      /\ messages[t] # <<>>
  BY Zenon DEF Receive
<1>2. Head(messages[t]) \in 1 .. MaxMessages /\ Tail(messages[t]) \in Seq(1 .. MaxMessages)
  BY <1>1, SMTT(30)
<1>3. got'[t] \o messages'[t] = got[t] \o messages[t]
  <2>1. got'[t] = Append(got[t], Head(messages[t])) /\ messages'[t] = Tail(messages[t])
    BY <1>1, Zenon
  <2>2. got[t] \in Seq(1 .. MaxMessages) /\ messages[t] \in Seq(1 .. MaxMessages)
    BY Zenon
  <2>3. Append(got[t], Head(messages[t])) \o Tail(messages[t]) = got[t] \o messages[t]
    <3>1. messages[t] # <<>>
      BY <1>1, Zenon
    <3> HIDE DEF MailInv, TypeOK
    <3> QED  BY <2>2, <3>1, MoveHead, Zenon
  <2> QED  BY <2>1, <2>3, Zenon
<1>4. \A m \in Threads : got'[m] \o messages'[m] = got[m] \o messages[m]
  BY <1>1, <1>3, Zenon
<1>5. DeliveredInOrder'
  BY <1>4, Zenon DEF DeliveredInOrder
<1>6. messages' \in [Threads -> Seq(1 .. MaxMessages)] /\ got' \in [Threads -> Seq(1 .. MaxMessages)]
  BY <1>1, <1>2, SMTT(30)
<1>7. returned' \in [Threads -> Nat]
  <2>1. returned' = [returned EXCEPT ![t] = @ + 1] /\ returned \in [Threads -> Nat]
    BY Zenon DEF Receive
  <2> HIDE DEF MailInv, TypeOK
  <2> QED  BY <2>1
<1> QED  BY <1>1, <1>5, <1>6, <1>7, Zenon

\* A system call of a thread keeps its registers and its count of calls in their types.
LEMMA IssueStep ==
    ASSUME TypeOK, NEW c \in Cores, NEW t \in Threads, Issue(c, t)
    PROVE  regs' \in [Cores -> 0 .. MaxReads] /\ issued' \in [Threads -> Nat]
<1>1. regs[c] + 1 \in 0 .. MaxReads /\ issued[t] + 1 \in Nat
  BY MailAssumption, SMTT(30) DEF TypeOK, Issue
<1> QED  BY <1>1, Zenon DEF TypeOK, Issue

\* Loading a context keeps the registers in their type.
LEMMA LoadStep ==
    ASSUME TypeOK, NEW c \in Cores, LoadFrom(c)
    PROVE  regs' \in [Cores -> 0 .. MaxReads]
BY MailAssumption DEF TypeOK, LoadFrom

-----------------------------------------------------------------------------
(* The invariant *)

\* The initial states satisfy the invariant.
LEMMA MailInitInv == Init => MailInv
<1> SUFFICES ASSUME Init PROVE MailInv
  BY Zenon
<1>1. TypeOK
  BY MailAssumption DEF Init, TypeOK
<1>2. SetsForThread /\ WaitsOnce /\ NoneWaitsForQueued
  BY Zenon DEF Init, SetsForThread, WaitsOnce, NoneWaitsForQueued
<1>3. OnePlace
  BY MailAssumption, Zenon DEF Init, OnePlace
<1>4. DeliveredInOrder
  BY DEF Init, DeliveredInOrder
<1> QED  BY <1>1, <1>2, <1>3, <1>4, Zenon DEF MailInv

\* Every step of every core keeps the invariant, and does with the scheduler
\* only what the scheduler offers.
LEMMA MailStep ==
    ASSUME MailInv, [Next]_vars
    PROVE  MailInv' /\ [LifeNext]_lifeVars
<1> USE MailAssumption DEF MailInv
<1>1. ASSUME NEW c \in Cores, NEW m \in Threads, Write(c, m)
      PROVE  MailInv' /\ [LifeNext]_lifeVars
  <2>1. WakeFirst(m)
    BY <1>1, Zenon DEF Write
  <2>2. /\ sent' = [sent EXCEPT ![m] = @ + 1]
        /\ messages' = [messages EXCEPT ![m] = Append(@, sent[m] + 1)]
        /\ sent[m] + 1 \in 1 .. MaxMessages
    <3>1. /\ sent' = [sent EXCEPT ![m] = sent[m] + 1] /\ sent[m] < MaxMessages /\ sent \in [Threads -> 0 .. MaxMessages]
          /\ messages' = [messages EXCEPT ![m] = Append(messages[m], sent'[m])]
      BY <1>1, Zenon DEF Write, PushBack, TypeOK
    <3>2. sent'[m] = sent[m] + 1 /\ sent[m] \in 0 .. MaxMessages
      BY ONLY m \in Threads, <3>1, Zenon
    <3>3. sent[m] + 1 \in 1 .. MaxMessages
      BY ONLY MailAssumption, <3>1, <3>2
    <3> QED  BY <3>1, <3>2, <3>3, Zenon
  <2>3. UNCHANGED <<got, pc, prev, regs, ctx, cont, issued, returned>>
    BY <1>1, Zenon DEF Write, cpuVars, runVars
  <2>4. messages[m] \in Seq(1 .. MaxMessages) /\ got[m] \in Seq(1 .. MaxMessages)
    BY Zenon DEF TypeOK
  <2>5. TypeOK'
    <3>1. sent' \in [Threads -> 0 .. MaxMessages]
      BY <2>2, SMTT(30) DEF TypeOK
    <3>2. messages' \in [Threads -> Seq(1 .. MaxMessages)]
      BY <2>2, <2>4 DEF TypeOK
    <3> QED  BY <2>1, <2>3, <3>1, <3>2, WakeFirstStep, Zenon DEF TypeOK
  <2>6. SetsForThread'
    BY <2>3, Zenon DEF SetsForThread
  <2>7. WaitsOnce' /\ OnePlace'
    BY <2>1, WakeFirstStep, Zenon DEF WaitsOnce
  <2>8. NoneWaitsForQueued'
    BY <2>1, <2>2, WakeFirstStep, Zenon DEF NoneWaitsForQueued, TypeOK
  <2>9. DeliveredInOrder'
    <3>1. ASSUME NEW t \in Threads PROVE got'[t] \o messages'[t] = [i \in 1 .. sent'[t] |-> i]
      <4>1. CASE t = m
        <5>1. got[m] \o messages[m] = [i \in 1 .. sent[m] |-> i] 
          BY Zenon DEF DeliveredInOrder
        <5>2. got[m] \o Append(messages[m], sent[m] + 1) = Append(got[m] \o messages[m], sent[m] + 1)
          <6> HIDE DEF MailInv
          <6>1. sent[m] + 1 \in 1 .. MaxMessages
            BY <2>2, Zenon
          <6>2. MaxMessages \in Nat
            BY MailAssumption, Zenon
          <6> QED  BY <2>4, <6>1, <6>2, ConcatAppend, Zenon
        <5>4. sent[m] \in Nat
          BY DEF TypeOK
        <5>3. messages'[m] = Append(messages[m], sent[m] + 1) /\ sent'[m] = sent[m] + 1 /\ got'[m] = got[m]
          BY <2>2, <2>3, Zenon DEF TypeOK
        <5> QED  BY <4>1, <5>1, <5>2, <5>3, <5>4, CountOn, Zenon
      <4>2. CASE t # m
        BY <2>2, <2>3, <4>2, Zenon DEF DeliveredInOrder, TypeOK
      <4> QED  BY <4>1, <4>2, Zenon
    <3> QED  BY <3>1, Zenon DEF DeliveredInOrder
  <2> QED  BY <2>1, <2>5, <2>6, <2>7, <2>8, <2>9, WakeFirstStep, Zenon
<1>2. ASSUME NEW c \in Cores, NEW t \in Threads, ReadNow(c, t)
      PROVE  MailInv' /\ [LifeNext]_lifeVars
  <2>1. Issue(c, t) /\ Receive(t) /\ UNCHANGED <<lifeVars, waiters, sent, pc, prev, ctx, cont>>
    BY <1>2, Zenon DEF ReadNow
  <2>2. TypeOK'
    <3>1. regs' \in [Cores -> 0 .. MaxReads] /\ issued' \in [Threads -> Nat]
      BY <2>1, IssueStep, Zenon
    <3>2. /\ messages' \in [Threads -> Seq(1 .. MaxMessages)]
          /\ got' \in [Threads -> Seq(1 .. MaxMessages)]
          /\ returned' \in [Threads -> Nat]
      BY <2>1, ReceiveStep, Zenon
    <3> QED  BY <2>1, <3>1, <3>2, Zenon DEF TypeOK, lifeVars
  <2>3. SetsForThread' /\ WaitsOnce' /\ OnePlace'
    BY <2>1, Zenon DEF SetsForThread, WaitsOnce, OnePlace, lifeVars
  <2>4. NoneWaitsForQueued'
    BY <2>1, ReceiveStep, Zenon DEF NoneWaitsForQueued
  <2> QED  BY <2>1, <2>2, <2>3, <2>4, ReceiveStep, Zenon
<1>3. ASSUME NEW c \in Cores, NEW t \in Threads, ReadNotReady(c, t)
      PROVE  MailInv' /\ [LifeNext]_lifeVars
  <2> USE <1>3 DEF ReadNotReady, lifeVars, mailVars
  <2>1. TypeOK'
    <3>1. regs' \in [Cores -> 0 .. MaxReads] /\ issued' \in [Threads -> Nat]
      BY IssueStep, Zenon
    <3>2. returned' \in [Threads -> Nat]
      BY DEF TypeOK
    <3> QED  BY <3>1, <3>2, Zenon DEF TypeOK
  <2>2. SetsForThread' /\ WaitsOnce' /\ OnePlace' /\ NoneWaitsForQueued' /\ DeliveredInOrder'
    BY Zenon DEF SetsForThread, WaitsOnce, OnePlace, NoneWaitsForQueued, DeliveredInOrder
  <2> QED  BY <2>1, <2>2, Zenon
<1>4. ASSUME NEW c \in Cores, NEW t \in Threads, ReadBlocks(c, t)
      PROVE  MailInv' /\ [LifeNext]_lifeVars
  <2>1. Issue(c, t) /\ Waits(c, t) /\ running[c] = t
    BY <1>4, Zenon DEF ReadBlocks, Issue
  <2>2. /\ prev' = [prev EXCEPT ![c] = t] /\ pc' = [pc EXCEPT ![c] = "set"]
        /\ UNCHANGED <<messages, sent, got, ctx, cont, returned>>
    BY <1>4, Zenon DEF ReadBlocks
  <2>9. /\ running' \in [Cores -> Threads \cup {Idle}]
        /\ runnable' \in [Cores -> SUBSET Threads]
        /\ waiters' = [waiters EXCEPT ![t] = <<t>>]
        /\ messages[t] = <<>>
    BY <2>1, WaitsStep, Zenon
  <2>3. TypeOK'
    <3>1. regs' \in [Cores -> 0 .. MaxReads] /\ issued' \in [Threads -> Nat]
      BY <2>1, IssueStep, Zenon
    <3>2. <<t>> \in Seq(Threads)
      OBVIOUS
    <3>3. waiters' \in [Threads -> Seq(Threads)]
      BY <2>9, <3>2, Zenon DEF TypeOK
    <3> QED  BY <2>2, <2>9, <3>1, <3>3, Zenon DEF TypeOK
  <2>4. SetsForThread'
    BY <2>2, Zenon DEF SetsForThread, TypeOK
  <2>5. WaitsOnce' /\ NoneWaitsForQueued'
    <3>1. \A m \in Threads : waiters'[m] = IF m = t THEN <<t>> ELSE waiters[m]
      BY <2>9, Zenon DEF TypeOK
    <3> QED  BY <2>2, <2>9, <3>1, Zenon DEF WaitsOnce, NoneWaitsForQueued
  <2>6. DeliveredInOrder'
    BY <2>2, Zenon DEF DeliveredInOrder
  <2> QED  BY <2>1, <2>3, <2>4, <2>5, <2>6, WaitsStep, Zenon
<1>5. ASSUME NEW c \in Cores, PreemptThread(c)
      PROVE  MailInv' /\ [LifeNext]_lifeVars
  <2>1. PICK t \in runnable[c] : Preempt(c, t)
    BY <1>5, Zenon DEF PreemptThread
  <2>2. /\ prev' = [prev EXCEPT ![c] = running[c]] /\ pc' = [pc EXCEPT ![c] = "save"]
        /\ UNCHANGED <<messages, waiters, sent, got, regs, ctx, cont, issued, returned>>
    BY <1>5, Zenon DEF PreemptThread, mailVars, runVars
  <2>3. /\ t \in Threads
        /\ running' = [running EXCEPT ![c] = t]
        /\ runnable' = [runnable EXCEPT ![c] = (@ \cup ({running[c]} \ {Idle})) \ {t}]
    BY <2>1, Zenon DEF Preempt, SwitchTo, TypeOK
  <2>4. TypeOK'
    <3>1. running' \in [Cores -> Threads \cup {Idle}] /\ runnable' \in [Cores -> SUBSET Threads]
      <4>1. running \in [Cores -> Threads \cup {Idle}] /\ runnable \in [Cores -> SUBSET Threads]
        BY Zenon DEF TypeOK
      <4> QED BY ONLY c \in Cores, <2>3, <4>1
    <3>2. prev' \in [Cores -> Threads \cup {Idle}] /\ pc' \in [Cores -> {"user", "set", "save", "load", "halted"}]
      <4>1. running[c] \in Threads \cup {Idle} /\ prev \in [Cores -> Threads \cup {Idle}]
        BY Zenon DEF TypeOK
      <4>2. pc \in [Cores -> {"user", "set", "save", "load", "halted"}]
        BY Zenon DEF TypeOK
      <4>3. prev' \in [Cores -> Threads \cup {Idle}]
        BY ONLY c \in Cores, <2>2, <4>1
      <4>4. pc' \in [Cores -> {"user", "set", "save", "load", "halted"}]
        BY ONLY c \in Cores, <2>2, <4>2
      <4> QED BY <4>3, <4>4, Zenon
    <3> QED BY <2>2, <3>1, <3>2, Zenon DEF TypeOK
  <2>5. OnePlace'
    BY <2>2, <2>3, ZenonT(40) DEF OnePlace, TypeOK
  <2>6. SetsForThread' /\ WaitsOnce' /\ NoneWaitsForQueued' /\ DeliveredInOrder'
    BY <2>2, Zenon DEF SetsForThread, WaitsOnce, NoneWaitsForQueued, DeliveredInOrder, TypeOK
  <2>7. LifeNext
    BY <2>1, <2>3, Zenon DEF LifeNext
  <2> QED  BY <2>4, <2>5, <2>6, <2>7, Zenon
<1>6. ASSUME NEW c \in Cores, SetContinuation(c)
      PROVE  MailInv' /\ [LifeNext]_lifeVars
  <2> USE <1>6 DEF SetContinuation, lifeVars, mailVars
  <2>1. TypeOK'
    BY Zenon DEF TypeOK, SetsForThread
  <2>2. SetsForThread'
    BY DEF TypeOK, SetsForThread
  <2>3. WaitsOnce' /\ OnePlace' /\ NoneWaitsForQueued' /\ DeliveredInOrder'
    BY Zenon DEF WaitsOnce, OnePlace, NoneWaitsForQueued, DeliveredInOrder
  <2> QED  BY <2>1, <2>2, <2>3, Zenon
<1>7. ASSUME NEW c \in Cores, SaveTo(c)
      PROVE  MailInv' /\ [LifeNext]_lifeVars
  <2> USE <1>7 DEF SaveTo, lifeVars, mailVars
  <2>1. TypeOK'
    BY Zenon DEF TypeOK
  <2>2. SetsForThread'
    BY Zenon DEF TypeOK, SetsForThread
  <2>3. WaitsOnce' /\ OnePlace' /\ NoneWaitsForQueued' /\ DeliveredInOrder'
    BY Zenon DEF WaitsOnce, OnePlace, NoneWaitsForQueued, DeliveredInOrder
  <2> QED  BY <2>1, <2>2, <2>3, Zenon
<1>8. ASSUME NEW c \in Cores, Resume(c)
      PROVE  MailInv' /\ [LifeNext]_lifeVars
  <2> USE <1>8 DEF Resume, LoadFrom, lifeVars, mailVars, runVars
  <2>1. TypeOK'
    BY DEF TypeOK
  <2>2. SetsForThread'
    BY Zenon DEF TypeOK, SetsForThread
  <2>3. WaitsOnce' /\ OnePlace' /\ NoneWaitsForQueued' /\ DeliveredInOrder'
    BY Zenon DEF WaitsOnce, OnePlace, NoneWaitsForQueued, DeliveredInOrder
  <2> QED  BY <2>1, <2>2, <2>3, Zenon
<1>9. ASSUME NEW c \in Cores, NEW t \in Threads, ContinueRead(c, t)
      PROVE  MailInv' /\ [LifeNext]_lifeVars
  <2>1. /\ LoadFrom(c) /\ Receive(t)
        /\ cont' = [cont EXCEPT ![t] = FALSE]
        /\ pc' = [pc EXCEPT ![c] = "user"] /\ prev' = [prev EXCEPT ![c] = Idle]
        /\ UNCHANGED <<running, runnable, waiters, sent, ctx, issued>>
    BY <1>9, Zenon DEF ContinueRead, lifeVars
  <2>2. TypeOK'
    <3>1. regs' \in [Cores -> 0 .. MaxReads]
      BY <2>1, LoadStep, Zenon
    <3>2. /\ messages' \in [Threads -> Seq(1 .. MaxMessages)]
          /\ got' \in [Threads -> Seq(1 .. MaxMessages)]
          /\ returned' \in [Threads -> Nat]
      BY <2>1, ReceiveStep, Zenon
    <3> QED  BY <2>1, <3>1, <3>2, Zenon DEF TypeOK
  <2>3. SetsForThread' /\ WaitsOnce' /\ OnePlace'
    BY <2>1, Zenon DEF SetsForThread, WaitsOnce, OnePlace, TypeOK
  <2>4. NoneWaitsForQueued'
    BY <2>1, ReceiveStep, Zenon DEF NoneWaitsForQueued
  <2> QED  BY <2>1, <2>2, <2>3, <2>4, ReceiveStep, Zenon DEF lifeVars
<1>10. ASSUME NEW c \in Cores, NEW t \in Threads, ContinueBlocks(c, t)
       PROVE  MailInv' /\ [LifeNext]_lifeVars
  <2>1. /\ LoadFrom(c) /\ Waits(c, t) /\ running[c] = t
        /\ cont' = [cont EXCEPT ![t] = FALSE]
        /\ UNCHANGED <<messages, sent, got, pc, prev, ctx, issued, returned>>
    BY <1>10, Zenon DEF ContinueBlocks
  <2>9. /\ running' \in [Cores -> Threads \cup {Idle}]
        /\ runnable' \in [Cores -> SUBSET Threads]
        /\ waiters' = [waiters EXCEPT ![t] = <<t>>]
        /\ messages[t] = <<>>
    BY <2>1, WaitsStep, Zenon
  <2>2. TypeOK'
    <3>1. regs' \in [Cores -> 0 .. MaxReads]
      BY <2>1, LoadStep, Zenon
    <3>2. <<t>> \in Seq(Threads)
      OBVIOUS
    <3>3. waiters' \in [Threads -> Seq(Threads)]
      BY <2>9, <3>2, Zenon DEF TypeOK
    <3> QED  BY <2>1, <2>9, <3>1, <3>3, Zenon DEF TypeOK
  <2>3. SetsForThread' /\ DeliveredInOrder'
    BY <2>1, Zenon DEF SetsForThread, DeliveredInOrder
  <2>4. WaitsOnce' /\ NoneWaitsForQueued'
    <3>1. \A m \in Threads : waiters'[m] = IF m = t THEN <<t>> ELSE waiters[m]
      BY <2>9, Zenon DEF TypeOK
    <3> QED  BY <2>1, <2>9, <3>1, Zenon DEF WaitsOnce, NoneWaitsForQueued
  <2> QED  BY <2>1, <2>2, <2>3, <2>4, WaitsStep, Zenon
<1>11. CASE UNCHANGED vars
  <2> USE <1>11 DEF vars, lifeVars, mailVars, cpuVars, runVars
  <2>1. TypeOK'
    BY Zenon DEF TypeOK
  <2>2. SetsForThread' /\ WaitsOnce' /\ OnePlace' /\ NoneWaitsForQueued' /\ DeliveredInOrder'
    BY Zenon DEF SetsForThread, WaitsOnce, OnePlace, NoneWaitsForQueued, DeliveredInOrder
  <2> QED  BY <2>1, <2>2, Zenon
<1> QED
  BY <1>1, <1>2, <1>3, <1>4, <1>5, <1>6, <1>7, <1>8, <1>9, <1>10, <1>11, Zenon DEF Next, KernelStep

\* The invariant holds in every state.
LEMMA MailAlways == Spec => []MailInv
<1>1. Init => MailInv
  BY MailInitInv, Zenon
<1>2. MailInv /\ [Next]_vars => MailInv'
  BY MailStep, Zenon
<1> QED  BY <1>1, <1>2, PTL DEF Spec

-----------------------------------------------------------------------------
(* Results *)

\* Messages are delivered once and in the order of sending, whichever cores
\* the readers block, wake and go on on (rose_mailbox_read, rose_mailbox_write
\* and the continuation of a blocked read).
THEOREM MessagesInOrder == Spec => [](TypeOK /\ DeliveredInOrder)
<1>1. MailInv => TypeOK /\ DeliveredInOrder
  BY Zenon DEF MailInv
<1> QED  BY <1>1, MailAlways, PTL

\* No wake-up is lost: the write that finds a reader waiting takes it out of
\* the queue, and a reader queues itself only in the step in which it finds no
\* message, so that nobody waits for a message that is there.
THEOREM NoLostWakeup == Spec => []NoneWaitsForQueued
<1>1. MailInv => NoneWaitsForQueued
  BY Zenon DEF MailInv
<1> QED  BY <1>1, MailAlways, PTL

\* The mailboxes use the scheduler as it may be used: scheduler::schedule is
\* called only for a thread that neither runs nor is queued, on any core, and
\* deschedule only for the thread that runs.  With ImplementsThreadLife this
\* makes what is shown of mailboxes hold for mailboxes on the scheduler.
THEOREM MailboxUsesThreadLife == Spec => [][LifeNext]_lifeVars
<1>1. MailInv /\ [Next]_vars => [LifeNext]_lifeVars
  BY MailStep, Zenon
<1> QED  BY <1>1, MailAlways, PTL DEF Spec

-----------------------------------------------------------------------------
(* Handles (HandleCalls) *)

\* No handle is lost, duplicated or strengthened, for any processes,
\* mailboxes and handles, and any sequence of system calls.

Posted(h, b, i) == i \in DOMAIN mail[b] /\ mail[b][i] = Token(h)

\* No handle is in two places; HandleInOnePlace without sets of places.
NotTwice ==
    \A h \in Handles :
        /\ \A p, q \in Procs : h \in table[p] /\ h \in table[q] => p = q
        /\ \A p \in Procs, b \in Boxes, i \in Nat : h \in table[p] => ~Posted(h, b, i)
        /\ \A b, c \in Boxes, i, j \in Nat : Posted(h, b, i) /\ Posted(h, c, j) => b = c /\ i = j

\* The handles that are somewhere are the ones that refer to something.
Somewhere ==
    \A h \in Handles :
        about[h] # None <=> \/ \E p \in Procs : h \in table[p]
                            \/ \E b \in Boxes, i \in Nat : Posted(h, b, i)

\* What a handle refers to is an object of its kind; it may not write to FirstBox.
Sound(x) ==
    /\ x.kind = "mailbox" => x.obj \in Boxes
    /\ x.kind \in {"vas", "process"} => x.obj \in Procs
    /\ x.kind = "mailbox" /\ "write" \in x.perms => x.obj # FirstBox

KindsSound == \A h \in Handles : about[h] # None => Sound(about[h])

HandlesInv ==
    /\ HandlesTypeOK
    /\ NotTwice /\ Somewhere /\ KindsSound
    /\ Exists("mailbox", FirstBox)
    /\ UnwritableStaysEmpty

-----------------------------------------------------------------------------
(* Messages, payloads and places *)

\* A message that carries a handle says which.
LEMMA TokenFacts ==
    /\ \A g, h : Token(g) = Token(h) => g = h
    /\ \A h : IsToken(Token(h)) /\ Token(h).handle = h
    /\ \A h \in Handles : Token(h) \in Messages
    /\ \A m \in Messages : IsToken(m) => m.handle \in Handles /\ m = Token(m.handle)
    /\ \A m \in Messages, h \in Handles : m = Token(h) => IsToken(m)
<1>1. \A g, h : Token(g) = Token(h) => g = h
  <2> TAKE g, h
  <2> HAVE Token(g) = Token(h)
  <2>1. Token(g).handle = Token(h).handle
    BY Zenon
  <2> QED  BY <2>1, Zenon DEF Token
<1>2. \A h : IsToken(Token(h)) /\ Token(h).handle = h
  BY Zenon DEF IsToken, Token
<1>3. \A d : ~IsToken(User(d))
  BY Zenon DEF IsToken, User
<1>4. \A h \in Handles : Token(h) \in Messages
  BY Zenon DEF Messages
<1>5. \A m \in Messages : IsToken(m) => \E h \in Handles : m = Token(h)
  BY <1>3, Zenon DEF Messages
<1> QED  BY <1>1, <1>2, <1>4, <1>5, Zenon

\* The messages behind the first move up.
LEMMA TailFacts ==
    ASSUME NEW s \in Seq(Messages), s # << >>
    PROVE  /\ DOMAIN s = 1 .. Len(s) /\ DOMAIN Tail(s) = 1 .. Len(s) - 1
           /\ \A i \in 1 .. Len(s) - 1 : Tail(s)[i] = s[i + 1]
OBVIOUS

\* What a handle of a process refers to.
LEMMA Known ==
    ASSUME HandlesInv, NEW p \in Procs, NEW h \in table[p]
    PROVE  h \in Handles /\ about[h] # None /\ about[h] \in Payloads /\ Sound(about[h])
BY Zenon DEF HandlesInv, HandlesTypeOK, Somewhere, KindsSound

\* What the check of a handle has established when it succeeds.
LEMMA CheckedOk ==
    ASSUME NEW p, NEW h, NEW kind, NEW perm, Checked(p, h, kind, perm) = "ok"
    PROVE  h \in table[p] /\ about[h].kind = kind /\ PermissionBit(perm) \in about[h].perms
BY Zenon DEF Checked

\* A handle that may be sent is in the process and has the permission.
LEMMA TransferableOk ==
    ASSUME NEW p, NEW h, Transferable(p, h) = "ok"
    PROVE  h \in table[p] /\ "transfer" \in about[h].perms
BY Zenon DEF Transferable

\* Two checks in a row succeed only if both do.
LEMMA ThenOk == \A a, b : Then(a, b) = "ok" => a = "ok" /\ b = "ok"
BY Zenon DEF Then

\* The places of a handle, one by one.
LEMMA PlacesAre ==
    ASSUME NEW h \in Handles, HandlesTypeOK
    PROVE  \A x : x \in Places(h) <=> \/ \E p \in Procs : h \in table[p] /\ x = <<"table", p>>
                                      \/ \E b \in Boxes, i \in Nat : Posted(h, b, i) /\ x = <<"mail", b, i>>
<1>1. \A b \in Boxes : DOMAIN mail[b] \subseteq Nat
  BY DEF HandlesTypeOK
<1> DEFINE Tables == {<<"table", p>> : p \in {q \in Procs : h \in table[q]}}
           Mails == UNION {{<<"mail", b, i>> : i \in {j \in DOMAIN mail[b] : mail[b][j] = Token(h)}} : b \in Boxes}
<1>2. \A x : x \in Tables <=> \E p \in Procs : h \in table[p] /\ x = <<"table", p>>
  BY Zenon
<1>3. \A x : x \in Mails
                <=> \E b \in Boxes : \E i \in DOMAIN mail[b] : mail[b][i] = Token(h) /\ x = <<"mail", b, i>>
  OBVIOUS
<1>4. \A x : (\E b \in Boxes : \E i \in DOMAIN mail[b] : mail[b][i] = Token(h) /\ x = <<"mail", b, i>>)
                <=> \E b \in Boxes, i \in Nat : Posted(h, b, i) /\ x = <<"mail", b, i>>
  BY <1>1, Zenon DEF Posted
<1>5. Places(h) = Tables \cup Mails
  BY Zenon DEF Places
<1> HIDE DEF Tables, Mails
<1> QED  BY <1>2, <1>3, <1>4, <1>5

\* The invariant says where every handle is.
LEMMA InvInOnePlace == HandlesInv => HandleInOnePlace
<1> SUFFICES ASSUME HandlesInv PROVE HandleInOnePlace
  BY Zenon
<1>1. HandlesTypeOK
  BY Zenon DEF HandlesInv
<1>2. ASSUME NEW h \in Handles, about[h] = None PROVE Places(h) = {}
  BY <1>1, <1>2, PlacesAre, Zenon DEF HandlesInv, Somewhere
<1>3. ASSUME NEW h \in Handles, about[h] # None PROVE \E x \in Places(h) : Places(h) = {x}
  <2>1. PICK x : x \in Places(h)
    BY <1>1, <1>3, PlacesAre, ZenonT(40) DEF HandlesInv, Somewhere
  <2>2. \A y \in Places(h) : y = x
    <3> TAKE y \in Places(h)
    <3>1. CASE \E p \in Procs : h \in table[p] /\ x = <<"table", p>>
      BY <1>1, <3>1, PlacesAre, Zenon DEF HandlesInv, NotTwice
    <3>2. CASE \E b \in Boxes, i \in Nat : Posted(h, b, i) /\ x = <<"mail", b, i>>
      <4>1. PICK b \in Boxes, i \in Nat : Posted(h, b, i) /\ x = <<"mail", b, i>>
        BY <3>2, Zenon
      <4>2. PICK c \in Boxes, j \in Nat : Posted(h, c, j) /\ y = <<"mail", c, j>>
        BY <1>1, <4>1, PlacesAre, Zenon DEF HandlesInv, NotTwice
      <4>3. b = c /\ i = j
        BY <4>1, <4>2, Zenon DEF HandlesInv, NotTwice
      <4> QED  BY <4>1, <4>2, <4>3, Zenon
    <3> QED  BY <1>1, <2>1, <3>1, <3>2, PlacesAre
  <2> QED  BY <2>1, <2>2, Zenon
<1> QED  BY <1>1, <1>2, <1>3, Zenon DEF HandleInOnePlace

-----------------------------------------------------------------------------
(* What a journey of one step does to the places *)

\* Handles that referred to nothing are registered; or nothing moves.
LEMMA Created ==
    ASSUME HandlesInv, NEW p \in Procs, NEW hs \in SUBSET Handles,
           table' = [table EXCEPT ![p] = @ \cup hs], mail' = mail,
           \A h \in hs : about[h] = None /\ about'[h] # None,
           \A h \in Handles \ hs : about'[h] = None <=> about[h] = None
    PROVE  NotTwice' /\ Somewhere'
<1>1. \A q \in Procs, h \in Handles : h \in table'[q] <=> h \in table[q] \/ (q = p /\ h \in hs)
  BY Zenon DEF HandlesInv, HandlesTypeOK
<1>2. \A h, b, i : Posted(h, b, i)' <=> Posted(h, b, i)
  BY Zenon DEF Posted
<1>3. \A h \in hs : (\A q \in Procs : h \notin table[q]) /\ \A b \in Boxes, i \in Nat : ~Posted(h, b, i)
  BY Zenon DEF HandlesInv, Somewhere
<1>4. NotTwice'
  BY <1>1, <1>2, <1>3 DEF HandlesInv, NotTwice
<1>5. Somewhere'
  BY <1>1, <1>2, <1>3, Zenon DEF HandlesInv, Somewhere
<1> QED  BY <1>4, <1>5, Zenon

\* A handle that is released leaves the others where they are.
LEMMA Released ==
    ASSUME HandlesInv, NEW p \in Procs, NEW h \in table[p],
           table' = [table EXCEPT ![p] = @ \ {h}], mail' = mail, about' = [about EXCEPT ![h] = None]
    PROVE  NotTwice' /\ Somewhere'
<1>1. \A q \in Procs, g \in Handles : g \in table'[q] <=> g \in table[q] /\ ~(q = p /\ g = h)
  BY Zenon DEF HandlesInv, HandlesTypeOK
<1>2. \A g, b, i : Posted(g, b, i)' <=> Posted(g, b, i)
  BY Zenon DEF Posted
<1>3. h \in Handles /\ \A g \in Handles : about'[g] = IF g = h THEN None ELSE about[g]
  BY Known, Zenon DEF HandlesInv, HandlesTypeOK
<1>4. NotTwice'
  BY <1>1, <1>2, Zenon DEF HandlesInv, NotTwice
<1>5. Somewhere'
  BY <1>1, <1>2, <1>3 DEF HandlesInv, Somewhere, NotTwice
<1> QED  BY <1>4, <1>5, Zenon

\* A handle that is sent moves from its process into the message.
LEMMA Sent ==
    ASSUME HandlesInv, NEW p \in Procs, NEW h \in table[p], NEW b \in Boxes,
           table' = [table EXCEPT ![p] = @ \ {h}],
           mail' = [mail EXCEPT ![b] = Append(@, Token(h))], about' = about
    PROVE  NotTwice' /\ Somewhere'
<1>1. \A q \in Procs, g \in Handles : g \in table'[q] <=> g \in table[q] /\ ~(q = p /\ g = h)
  BY Zenon DEF HandlesInv, HandlesTypeOK
<1>2. mail[b] \in Seq(Messages) /\ Len(mail[b]) \in Nat /\ h \in Handles
  BY Known DEF HandlesInv, HandlesTypeOK
<1>3. \A g \in Handles, c \in Boxes, i \in Nat :
          Posted(g, c, i)' <=> Posted(g, c, i) \/ (g = h /\ c = b /\ i = Len(mail[b]) + 1)
  <2> SUFFICES ASSUME NEW g \in Handles, NEW c \in Boxes, NEW i \in Nat
               PROVE Posted(g, c, i)' <=> Posted(g, c, i) \/ (g = h /\ c = b /\ i = Len(mail[b]) + 1)
    BY Zenon
  <2>1. CASE c # b
    BY <2>1, Zenon DEF Posted, HandlesInv, HandlesTypeOK
  <2>2. CASE c = b
    <3>1. mail'[b] = Append(mail[b], Token(h))
      BY Zenon DEF HandlesInv, HandlesTypeOK
    <3>2. DOMAIN mail'[b] = 1 .. Len(mail[b]) + 1 /\ DOMAIN mail[b] = 1 .. Len(mail[b])
      BY <1>2, <3>1
    <3>3. i \in 1 .. Len(mail[b]) => mail'[b][i] = mail[b][i]
      BY <1>2, <3>1
    <3>4. mail'[b][Len(mail[b]) + 1] = Token(h)
      BY <1>2, <3>1
    <3> QED  BY <1>2, <2>2, <3>2, <3>3, <3>4, TokenFacts DEF Posted
  <2> QED  BY <2>1, <2>2, Zenon
<1>4. \A c \in Boxes, i \in Nat : ~Posted(h, c, i)
  BY <1>2, Zenon DEF HandlesInv, NotTwice
<1>5. NotTwice'
  <2> SUFFICES ASSUME NEW g \in Handles
        PROVE  /\ \A q, r \in Procs : g \in table'[q] /\ g \in table'[r] => q = r
               /\ \A q \in Procs, c \in Boxes, i \in Nat : g \in table'[q] => ~Posted(g, c, i)'
               /\ \A c, d \in Boxes, i, j \in Nat : Posted(g, c, i)' /\ Posted(g, d, j)' => c = d /\ i = j
    BY Zenon DEF NotTwice
  <2>1. CASE g = h
    BY <1>1, <1>3, <1>4, <2>1 DEF HandlesInv, NotTwice
  <2>2. CASE g # h
    BY <1>1, <1>3, <2>2 DEF HandlesInv, NotTwice
  <2> QED  BY <2>1, <2>2, Zenon
<1>6. Somewhere'
  <2> SUFFICES ASSUME NEW g \in Handles
        PROVE  about[g] # None <=> \/ \E q \in Procs : g \in table'[q]
                                   \/ \E c \in Boxes, i \in Nat : Posted(g, c, i)'
    BY Zenon DEF Somewhere
  <2>1. CASE g = h
    <3>1. PICK n \in Nat : n = Len(mail[b]) + 1
      BY <1>2
    <3>2. Posted(h, b, n)'
      BY <1>2, <1>3, <3>1, Zenon
    <3> QED  BY <2>1, <3>1, <3>2, Known, Zenon
  <2>2. CASE g # h
    BY <1>1, <1>3, <2>2, Zenon DEF HandlesInv, Somewhere
  <2> QED  BY <2>1, <2>2, Zenon
<1> QED  BY <1>5, <1>6, Zenon

\* The first message of a mailbox is taken out; if it is a token, its handle
\* is registered.
LEMMA Received ==
    ASSUME HandlesInv, NEW p \in Procs, NEW b \in Boxes, mail[b] # << >>,
           mail' = [mail EXCEPT ![b] = Tail(@)], about' = about,
           table' = IF IsToken(Head(mail[b])) THEN [table EXCEPT ![p] = @ \cup {Head(mail[b]).handle}] ELSE table
    PROVE  NotTwice' /\ Somewhere'
<1> DEFINE m == Head(mail[b])
<1>1. mail[b] \in Seq(Messages) /\ Len(mail[b]) \in Nat /\ m \in Messages
      /\ 1 \in DOMAIN mail[b] /\ mail[b][1] = m
  BY DEF HandlesInv, HandlesTypeOK
<1>2. \A g \in Handles, c \in Boxes, i \in Nat :
          Posted(g, c, i)' <=> Posted(g, c, IF c = b THEN i + 1 ELSE i) /\ (c = b => i # 0)
  <2> SUFFICES ASSUME NEW g \in Handles, NEW c \in Boxes, NEW i \in Nat
               PROVE Posted(g, c, i)' <=> Posted(g, c, IF c = b THEN i + 1 ELSE i) /\ (c = b => i # 0)
    BY Zenon
  <2>1. CASE c # b
    BY <2>1, Zenon DEF Posted, HandlesInv, HandlesTypeOK
  <2>2. CASE c = b
    <3>1. mail'[b] = Tail(mail[b])
      BY Zenon DEF HandlesInv, HandlesTypeOK
    <3>2. DOMAIN mail'[b] = 1 .. Len(mail[b]) - 1 /\ DOMAIN mail[b] = 1 .. Len(mail[b])
      BY <1>1, <3>1, TailFacts, Zenon
    <3>3. i \in 1 .. Len(mail[b]) - 1 => mail'[b][i] = mail[b][i + 1]
      BY <1>1, <3>1, TailFacts, Zenon
    <3> QED  BY <1>1, <2>2, <3>2, <3>3 DEF Posted
  <2> QED  BY <2>1, <2>2, Zenon
<1>3. \A g \in Handles : IsToken(m) /\ m.handle = g <=> Posted(g, b, 1)
  BY <1>1, TokenFacts, Zenon DEF Posted
<1>4. \A q \in Procs, g \in Handles : g \in table'[q] <=> g \in table[q] \/ (q = p /\ Posted(g, b, 1))
  BY <1>3, Zenon DEF HandlesInv, HandlesTypeOK
<1> HIDE DEF m
<1>5. NotTwice'
  <2> SUFFICES ASSUME NEW g \in Handles
        PROVE  /\ \A q, r \in Procs : g \in table'[q] /\ g \in table'[r] => q = r
               /\ \A q \in Procs, c \in Boxes, i \in Nat : g \in table'[q] => ~Posted(g, c, i)'
               /\ \A c, d \in Boxes, i, j \in Nat : Posted(g, c, i)' /\ Posted(g, d, j)' => c = d /\ i = j
    BY Zenon DEF NotTwice
  <2>1. CASE Posted(g, b, 1)
    <3>1. \A q \in Procs : g \notin table[q]
      BY <2>1, Zenon DEF HandlesInv, NotTwice
    <3>2. \A c \in Boxes, i \in Nat : ~Posted(g, c, i)'
      BY <1>2, <2>1 DEF HandlesInv, NotTwice
    <3> QED  BY <1>4, <3>1, <3>2, Zenon
  <2>2. CASE ~Posted(g, b, 1)
    <3>1. \A q \in Procs : g \in table'[q] <=> g \in table[q]
      BY <1>4, <2>2, Zenon
    <3>2. ASSUME NEW q \in Procs, NEW c \in Boxes, NEW i \in Nat, g \in table'[q] PROVE ~Posted(g, c, i)'
      BY <1>2, <3>1, <3>2 DEF HandlesInv, NotTwice
    <3>3. ASSUME NEW c \in Boxes, NEW d \in Boxes, NEW i \in Nat, NEW j \in Nat, Posted(g, c, i)', Posted(g, d, j)'
          PROVE  c = d /\ i = j
      BY <1>2, <3>3 DEF HandlesInv, NotTwice
    <3>4. \A q, r \in Procs : g \in table'[q] /\ g \in table'[r] => q = r
      BY <3>1, Zenon DEF HandlesInv, NotTwice
    <3> QED  BY <3>2, <3>3, <3>4, Zenon
  <2> QED  BY <2>1, <2>2, Zenon
<1>6. Somewhere'
  <2> SUFFICES ASSUME NEW g \in Handles
        PROVE  about[g] # None <=> \/ \E q \in Procs : g \in table'[q]
                                   \/ \E c \in Boxes, i \in Nat : Posted(g, c, i)'
    BY Zenon DEF Somewhere
  <2>1. CASE Posted(g, b, 1)
    <3>1. about[g] # None
      BY <2>1, Zenon DEF HandlesInv, Somewhere
    <3> QED  BY <1>4, <2>1, <3>1, Zenon
  <2>2. CASE ~Posted(g, b, 1)
    <3>1. \A c \in Boxes, i \in Nat : Posted(g, c, i)' => \E k \in Nat : Posted(g, c, k)
      BY <1>2
    <3>2. ASSUME NEW c \in Boxes, NEW i \in Nat, Posted(g, c, i) PROVE \E k \in Nat : Posted(g, c, k)'
      <4>1. CASE c # b
        BY <1>2, <3>2, <4>1, Zenon
      <4>2. CASE c = b
        <5>1. i - 1 \in Nat /\ i - 1 # 0 /\ i - 1 + 1 = i
          BY <1>1, <2>2, <3>2, <4>2 DEF Posted
        <5> QED  BY <1>2, <3>2, <4>2, <5>1, Zenon
      <4> QED  BY <4>1, <4>2, Zenon
    <3>3. \A q \in Procs : g \in table'[q] <=> g \in table[q]
      BY <1>4, <2>2, Zenon
    <3> QED  BY <3>1, <3>2, <3>3, Zenon DEF HandlesInv, Somewhere
  <2> QED  BY <2>1, <2>2, Zenon
<1> QED  BY <1>5, <1>6, Zenon

\* A handle that is given to a new process moves there.
LEMMA Given ==
    ASSUME HandlesInv, NEW p \in Procs, NEW q \in Procs, NEW h \in table[p],
           table' = [[table EXCEPT ![p] = @ \ {h}] EXCEPT ![q] = @ \cup {h}],
           mail' = mail, about' = about
    PROVE  NotTwice' /\ Somewhere'
<1>1. \A r \in Procs, g \in Handles : g \in table'[r] <=> IF g = h THEN r = q \/ (r # p /\ h \in table[r]) ELSE g \in table[r]
  BY Zenon DEF HandlesInv, HandlesTypeOK
<1>2. \A r \in Procs : h \in table'[r] <=> r = q
  BY <1>1, Known, Zenon DEF HandlesInv, NotTwice
<1>3. \A g, b, i : Posted(g, b, i)' <=> Posted(g, b, i)
  BY Zenon DEF Posted
<1>4. h \in Handles /\ \A b \in Boxes, i \in Nat : ~Posted(h, b, i)
  BY Known, Zenon DEF HandlesInv, NotTwice
<1>5. NotTwice'
  <2> SUFFICES ASSUME NEW g \in Handles
        PROVE  /\ \A r, t \in Procs : g \in table'[r] /\ g \in table'[t] => r = t
               /\ \A r \in Procs, c \in Boxes, i \in Nat : g \in table'[r] => ~Posted(g, c, i)'
               /\ \A c, d \in Boxes, i, j \in Nat : Posted(g, c, i)' /\ Posted(g, d, j)' => c = d /\ i = j
    BY Zenon DEF NotTwice
  <2>1. CASE g = h
    BY <1>2, <1>3, <1>4, <2>1, Zenon
  <2>2. CASE g # h
    BY <1>1, <1>3, <2>2, Zenon DEF HandlesInv, NotTwice
  <2> QED  BY <2>1, <2>2, Zenon
<1>6. Somewhere'
  <2> SUFFICES ASSUME NEW g \in Handles
        PROVE  about[g] # None <=> \/ \E r \in Procs : g \in table'[r]
                                   \/ \E c \in Boxes, i \in Nat : Posted(g, c, i)'
    BY Zenon DEF Somewhere
  <2>1. CASE g = h
    BY <1>2, <2>1, Known, Zenon
  <2>2. CASE g # h
    BY <1>1, <1>3, <2>2, Zenon DEF HandlesInv, Somewhere
  <2> QED  BY <2>1, <2>2, Zenon
<1> QED  BY <1>5, <1>6, Zenon

-----------------------------------------------------------------------------
(* The system calls *)

\* The action of OnlyTransferableMoves.
MovesTransferable ==
    \A h \in Handles : \A p \in Procs :
        h \in table[p] \ table'[p] => about'[h] = None \/ "transfer" \in about[h].perms

\* A call that makes the handles hs, or fails and makes none.
LEMMA Creates ==
    ASSUME HandlesInv, NEW p \in Procs, NEW hs \in SUBSET Unused,
           table' = [table EXCEPT ![p] = @ \cup hs], about' \in [Handles -> Payloads \cup {None}],
           \A h \in Handles \ hs : about'[h] = about[h],
           \A h \in hs : about'[h] \in Payloads /\ Sound(about'[h]),
           made \subseteq made', made' \subseteq {"mailbox", "vas", "process"} \X (Boxes \cup Procs),
           UNCHANGED <<mail, started, halted>>
    PROVE  HandlesInv' /\ MovesTransferable
<1>1. hs \in SUBSET Handles
  BY Zenon DEF Unused
<1>2. HandlesTypeOK'
  BY <1>1, Zenon DEF HandlesInv, HandlesTypeOK
<1>3. \A h \in hs : about[h] = None /\ about'[h] # None
  BY PayloadsAssumption, Zenon DEF Unused
<1>4. NotTwice' /\ Somewhere'
  BY <1>1, <1>3, Created, Zenon
<1>5. KindsSound'
  BY <1>1, Zenon DEF HandlesInv, KindsSound, Sound
<1>6. Exists("mailbox", FirstBox)' /\ UnwritableStaysEmpty'
  BY Zenon DEF HandlesInv, Exists, UnwritableStaysEmpty
<1>7. MovesTransferable
  BY <1>1, Zenon DEF MovesTransferable, HandlesInv, HandlesTypeOK
<1> QED  BY <1>2, <1>4, <1>5, <1>6, <1>7, Zenon DEF HandlesInv

\* The same for one handle.
LEMMA CreatesOne ==
    ASSUME HandlesInv, NEW p \in Procs, NEW h \in Unused,
           NEW kind \in Kinds, NEW obj \in Boxes \cup Procs \cup {None}, NEW perms \in SUBSET AllPerms,
           kind # "mailbox", kind \in {"vas", "process"} => obj \in Procs,
           about' = Describe(h, kind, obj, perms), table' = Registered(p, h),
           made \subseteq made', made' \subseteq {"mailbox", "vas", "process"} \X (Boxes \cup Procs),
           UNCHANGED <<mail, started, halted>>
    PROVE  HandlesInv' /\ MovesTransferable
<1> DEFINE x == [kind |-> kind, obj |-> obj, perms |-> perms]
<1>1. x \in Payloads /\ Sound(x)
  BY Zenon DEF Payloads, Sound
<1> HIDE DEF x
<1>2. about' = [about EXCEPT ![h] = x]
  BY Zenon DEF Describe, x
<1>3. {h} \in SUBSET Unused /\ h \in Handles
  BY Zenon DEF Unused
<1>4. /\ about' \in [Handles -> Payloads \cup {None}]
      /\ \A g \in Handles \ {h} : about'[g] = about[g]
      /\ \A g \in {h} : about'[g] \in Payloads /\ Sound(about'[g])
  BY <1>1, <1>2, <1>3, Zenon DEF HandlesInv, HandlesTypeOK
<1> QED  BY <1>3, <1>4, Creates, Zenon DEF Registered

\* A call that fails.
LEMMA Fails == ASSUME HandlesInv, UNCHANGED handleVars PROVE HandlesInv' /\ MovesTransferable
<1> USE DEF handleVars
<1>1. HandlesTypeOK' /\ KindsSound' /\ Exists("mailbox", FirstBox)' /\ UnwritableStaysEmpty'
  BY Zenon DEF HandlesInv, HandlesTypeOK, KindsSound, Exists, UnwritableStaysEmpty
<1>2. NotTwice' /\ Somewhere'
  BY DEF HandlesInv, NotTwice, Somewhere, Posted
<1>3. MovesTransferable
  BY Zenon DEF MovesTransferable
<1> QED  BY <1>1, <1>2, <1>3, Zenon DEF HandlesInv

\* rose_token_release keeps the invariant.
LEMMA TokenReleaseStep ==
    ASSUME HandlesInv, NEW p \in Procs, NEW h, TokenRelease(p, h) PROVE HandlesInv' /\ MovesTransferable
<1>1. CASE h \in table[p]
  <2>1. /\ table' = [table EXCEPT ![p] = @ \ {h}] /\ about' = [about EXCEPT ![h] = None]
        /\ UNCHANGED <<mail, made, started, halted>>
    BY <1>1, Zenon DEF TokenRelease, Unregistered
  <2>2. HandlesTypeOK' /\ Exists("mailbox", FirstBox)' /\ UnwritableStaysEmpty'
    BY <2>1, Zenon DEF HandlesInv, HandlesTypeOK, Exists, UnwritableStaysEmpty
  <2>3. NotTwice' /\ Somewhere'
    BY <1>1, <2>1, Released, Zenon
  <2>4. \A g \in Handles : about'[g] = IF g = h THEN None ELSE about[g]
    BY <2>1, Zenon DEF HandlesInv, HandlesTypeOK
  <2>5. KindsSound'
    BY <2>4, Zenon DEF HandlesInv, KindsSound, Sound
  <2>6. MovesTransferable
    BY <2>1, <2>4, Zenon DEF HandlesInv, HandlesTypeOK, MovesTransferable
  <2> QED  BY <2>2, <2>3, <2>5, <2>6, Zenon DEF HandlesInv
<1>2. CASE h \notin table[p]
  <2>1. UNCHANGED <<about, table, mail, made, started>> /\ halted' \in BOOLEAN
    BY <1>2, Zenon DEF TokenRelease
  <2>2. HandlesTypeOK' /\ KindsSound' /\ Exists("mailbox", FirstBox)' /\ UnwritableStaysEmpty'
    BY <2>1, Zenon DEF HandlesInv, HandlesTypeOK, KindsSound, Exists, UnwritableStaysEmpty
  <2>3. NotTwice' /\ Somewhere'
    BY <2>1 DEF HandlesInv, NotTwice, Somewhere, Posted
  <2>4. MovesTransferable
    BY <2>1, Zenon DEF MovesTransferable
  <2> QED  BY <2>2, <2>3, <2>4, Zenon DEF HandlesInv
<1> QED  BY <1>1, <1>2, Zenon

\* rose_mailbox_create keeps the invariant, and moves nothing.
LEMMA MailboxCreateStep ==
    ASSUME HandlesInv, NEW p \in Procs, NEW b \in Boxes, NEW r \in Handles, NEW w \in Handles, MailboxCreate(p, b, r, w)
    PROVE  HandlesInv' /\ MovesTransferable
<1> DEFINE x == [kind |-> "mailbox", obj |-> b, perms |-> {"read", "transfer", "clone"}]
           y == [kind |-> "mailbox", obj |-> b, perms |-> {"write", "transfer", "clone"}]
<1>1. b # FirstBox
  BY Zenon DEF MailboxCreate, HandlesInv
<1>2. x \in Payloads /\ Sound(x) /\ y \in Payloads /\ Sound(y)
  BY <1>1, Zenon DEF Payloads, Sound, Kinds, AllPerms, GlobalPerms
<1> HIDE DEF x, y
<1>3. about' = [[about EXCEPT ![r] = x] EXCEPT ![w] = y] /\ table' = [table EXCEPT ![p] = @ \cup {r, w}]
  BY Zenon DEF MailboxCreate, Describe, x, y
<1>4. {r, w} \in SUBSET Unused /\ r # w
  BY Zenon DEF MailboxCreate
<1>5. /\ about' \in [Handles -> Payloads \cup {None}]
      /\ \A g \in Handles \ {r, w} : about'[g] = about[g]
      /\ \A g \in {r, w} : about'[g] \in Payloads /\ Sound(about'[g])
  BY <1>2, <1>3, <1>4, Zenon DEF HandlesInv, HandlesTypeOK
<1>6. made \subseteq made' /\ made' \subseteq {"mailbox", "vas", "process"} \X (Boxes \cup Procs)
  BY DEF MailboxCreate, HandlesInv, HandlesTypeOK
<1>7. UNCHANGED <<mail, started, halted>>
  BY Zenon DEF MailboxCreate
<1> QED  BY <1>3, <1>4, <1>5, <1>6, <1>7, Creates, Zenon

\* rose_mailbox_write keeps the invariant, and moves a transferable handle only.
LEMMA MailboxWriteStep ==
    ASSUME HandlesInv, NEW p \in Procs, NEW w, NEW h, NEW res, MailboxWrite(p, w, Token(h), res)
    PROVE  HandlesInv' /\ MovesTransferable
<1>1. CASE res = "ok"
  <2>1. Checked(p, w, "mailbox", "write") = "ok" /\ Transferable(p, h) = "ok"
    BY <1>1, ThenOk, TokenFacts DEF MailboxWrite
  <2>2. h \in table[p] /\ "transfer" \in about[h].perms
    BY <2>1, TransferableOk, Zenon
  <2>3. w \in table[p] /\ about[w].kind = "mailbox" /\ "write" \in about[w].perms
    BY <2>1, CheckedOk, Zenon DEF PermissionBit, GlobalPerms
  <2>4. PICK b \in Boxes : b = about[w].obj /\ b # FirstBox
    BY <2>3, Known, Zenon DEF Sound
  <2>5. /\ mail' = [mail EXCEPT ![b] = Append(@, Token(h))] /\ table' = [table EXCEPT ![p] = @ \ {h}]
        /\ UNCHANGED <<about, made, started, halted>>
    BY <1>1, <2>4, TokenFacts, Zenon DEF MailboxWrite, Unregistered
  <2>6. h \in Handles /\ Token(h) \in Messages
    BY <2>2, Known, TokenFacts, Zenon
  <2>7. HandlesTypeOK'
    <3>1. Append(mail[b], Token(h)) \in Seq(Messages)
      BY <2>6 DEF HandlesInv, HandlesTypeOK
    <3> QED  BY <2>5, <3>1, Zenon DEF HandlesInv, HandlesTypeOK
  <2>8. NotTwice' /\ Somewhere'
    BY <2>2, <2>5, Sent, Zenon
  <2>9. KindsSound' /\ Exists("mailbox", FirstBox)' /\ UnwritableStaysEmpty'
    BY <2>4, <2>5, CallsAssumption, Zenon DEF HandlesInv, HandlesTypeOK, KindsSound, Exists, UnwritableStaysEmpty
  <2>10. MovesTransferable
    BY <2>2, <2>5, Zenon DEF HandlesInv, HandlesTypeOK, MovesTransferable
  <2> QED  BY <2>7, <2>8, <2>9, <2>10, Zenon DEF HandlesInv
<1>2. CASE res # "ok"
  BY <1>2, Fails, Zenon DEF MailboxWrite, handleVars
<1> QED  BY <1>1, <1>2, Zenon

\* rose_mailbox_read keeps the invariant: the handle goes from the message to the reader.
LEMMA MailboxReadStep ==
    ASSUME HandlesInv, NEW p \in Procs, NEW r, NEW mayBlock, NEW res, NEW m, MailboxRead(p, r, mayBlock, res, m)
    PROVE  HandlesInv' /\ MovesTransferable
<1> DEFINE check == Checked(p, r, "mailbox", "read")
<1>1. CASE check = "ok" /\ mail[about[r].obj] # << >>
  <2>1. r \in table[p] /\ about[r].kind = "mailbox"
    BY <1>1, CheckedOk, Zenon
  <2>2. PICK b \in Boxes : b = about[r].obj
    BY <2>1, Known, Zenon DEF Sound
  <2>3. mail[b] # << >>
    BY <1>1, <2>2, Zenon
  <2>4. /\ mail' = [mail EXCEPT ![b] = Tail(@)]
        /\ table' = IF IsToken(Head(mail[b])) THEN [table EXCEPT ![p] = @ \cup {Head(mail[b]).handle}] ELSE table
        /\ UNCHANGED <<about, made, started, halted>>
    BY <1>1, <2>2, Zenon DEF MailboxRead, Registered
  <2>5. mail[b] \in Seq(Messages)
    BY Zenon DEF HandlesInv, HandlesTypeOK
  <2>6. Head(mail[b]) \in Messages /\ Tail(mail[b]) \in Seq(Messages)
    BY <2>3, <2>5
  <2>7. IsToken(Head(mail[b])) => Head(mail[b]).handle \in Handles
    BY <2>6, TokenFacts, Zenon
  <2>8. HandlesTypeOK'
    <3>1. table' \in [Procs -> SUBSET Handles]
      BY <2>4, <2>7, Zenon DEF HandlesInv, HandlesTypeOK
    <3>2. mail' \in [Boxes -> Seq(Messages)]
      BY <2>4, <2>6, Zenon DEF HandlesInv, HandlesTypeOK
    <3> QED  BY <2>4, <3>1, <3>2, Zenon DEF HandlesInv, HandlesTypeOK
  <2>9. NotTwice' /\ Somewhere'
    BY <2>3, <2>4, Received, Zenon
  <2>10. b # FirstBox
    BY <2>3, Zenon DEF HandlesInv, UnwritableStaysEmpty
  <2>11. KindsSound' /\ Exists("mailbox", FirstBox)' /\ UnwritableStaysEmpty'
    BY <2>4, <2>10, CallsAssumption, Zenon DEF HandlesInv, HandlesTypeOK, KindsSound, Exists, UnwritableStaysEmpty
  <2>12. MovesTransferable
    BY <2>4, Zenon DEF HandlesInv, HandlesTypeOK, MovesTransferable
  <2> QED  BY <2>8, <2>9, <2>11, <2>12, Zenon DEF HandlesInv
<1>2. CASE ~(check = "ok" /\ mail[about[r].obj] # << >>)
  BY <1>2, Fails, Zenon DEF MailboxRead, handleVars
<1> QED  BY <1>1, <1>2, Zenon

\* rose_vmo_create keeps the invariant, and moves nothing.
LEMMA VmoCreateStep ==
    ASSUME HandlesInv, NEW p \in Procs, NEW h, VmoCreate(p, h) PROVE HandlesInv' /\ MovesTransferable
<1>1. /\ h \in Unused /\ about' = Describe(h, "vmo", None, AllPerms) /\ table' = Registered(p, h)
      /\ UNCHANGED <<mail, made, started, halted>>
  BY Zenon DEF VmoCreate
<1>2. "vmo" \in Kinds /\ AllPerms \in SUBSET AllPerms /\ "vmo" \notin {"mailbox", "vas", "process"}
  BY Zenon DEF Kinds
<1>3. made \subseteq made' /\ made' \subseteq {"mailbox", "vas", "process"} \X (Boxes \cup Procs)
  BY <1>1, Zenon DEF HandlesInv, HandlesTypeOK
<1> QED  BY <1>1, <1>2, <1>3, CreatesOne, Zenon

\* rose_mapping_create keeps the invariant, and moves nothing.
LEMMA MappingCreateStep ==
    ASSUME HandlesInv, NEW p \in Procs, NEW v, NEW vmo, NEW h, NEW res, MappingCreate(p, v, vmo, h, res)
    PROVE  HandlesInv' /\ MovesTransferable
<1>1. CASE res = "ok"
  <2>1. Checked(p, v, "vas", "create_mapping") = "ok"
    BY <1>1, ThenOk, Zenon DEF MappingCreate
  <2>2. about[v].obj \in Procs
    BY <2>1, CheckedOk, Known, Zenon DEF Sound
  <2>3. /\ h \in Unused /\ about' = Describe(h, "vmo_mapping", about[v].obj, AllPerms) /\ table' = Registered(p, h)
        /\ UNCHANGED <<mail, made, started, halted>>
    BY <1>1, Zenon DEF MappingCreate
  <2>4. "vmo_mapping" \in Kinds /\ AllPerms \in SUBSET AllPerms /\ "vmo_mapping" \notin {"mailbox", "vas", "process"}
    BY Zenon DEF Kinds
  <2>5. made \subseteq made' /\ made' \subseteq {"mailbox", "vas", "process"} \X (Boxes \cup Procs)
    BY <2>3, Zenon DEF HandlesInv, HandlesTypeOK
  <2> QED  BY <2>2, <2>3, <2>4, <2>5, CreatesOne, Zenon
<1>2. CASE res # "ok"
  BY <1>2, Fails, Zenon DEF MappingCreate, handleVars
<1> QED  BY <1>1, <1>2, Zenon

\* rose_mapping_destroy keeps the invariant, and takes the handle of the mapping only.
LEMMA MappingDestroyStep ==
    ASSUME HandlesInv, NEW p \in Procs, NEW h, NEW res, MappingDestroy(p, h, res)
    PROVE  HandlesInv' /\ MovesTransferable
<1>1. CASE res = "ok"
  <2>1. Checked(p, h, "vmo_mapping", "destroy") = "ok"
    BY <1>1, ThenOk, Zenon DEF MappingDestroy
  <2>2. h \in table[p] /\ about[h].kind = "vmo_mapping"
    BY <2>1, CheckedOk, Zenon
  <2>3. h \in Handles /\ about[h] \in Payloads /\ about[h] # None
    BY <2>2, Known, Zenon
  <2> DEFINE x == [about[h] EXCEPT !.obj = None]
  <2>4. x \in Payloads /\ Sound(x)
    BY <2>2, <2>3, Zenon DEF Payloads, Sound
  <2>5. about' = [about EXCEPT ![h] = x] /\ UNCHANGED <<table, mail, made, started, halted>>
    BY <1>1, Zenon DEF MappingDestroy
  <2> HIDE DEF x
  <2>6. about' \in [Handles -> Payloads \cup {None}] /\ \A g \in Handles : about'[g] = IF g = h THEN x ELSE about[g]
    BY <2>3, <2>4, <2>5, Zenon DEF HandlesInv, HandlesTypeOK
  <2>7. HandlesTypeOK' /\ Exists("mailbox", FirstBox)' /\ UnwritableStaysEmpty'
    BY <2>5, <2>6, Zenon DEF HandlesInv, HandlesTypeOK, Exists, UnwritableStaysEmpty
  <2>8. KindsSound'
    BY <2>4, <2>6, Zenon DEF HandlesInv, KindsSound
  <2>9. \A g \in Handles : about'[g] = None <=> about[g] = None
    BY <2>3, <2>4, <2>6, PayloadsAssumption, Zenon
  <2>10. NotTwice' /\ Somewhere'
    BY <2>5, <2>9 DEF HandlesInv, NotTwice, Somewhere, Posted
  <2>11. MovesTransferable
    BY <2>5, Zenon DEF MovesTransferable
  <2> QED  BY <2>7, <2>8, <2>10, <2>11, Zenon DEF HandlesInv
<1>2. CASE res # "ok"
  BY <1>2, Fails, Zenon DEF MappingDestroy, handleVars
<1> QED  BY <1>1, <1>2, Zenon

\* rose_vas_create keeps the invariant, and moves nothing.
LEMMA VasCreateStep ==
    ASSUME HandlesInv, NEW p \in Procs, NEW caps, NEW q \in Procs, NEW v, NEW res, VasCreate(p, caps, q, v, res)
    PROVE  HandlesInv' /\ MovesTransferable
<1>1. CASE res = "ok"
  <2> DEFINE perms == GlobalPerms \cup {PermissionBit("create_mapping")}
  <2>1. /\ v \in Unused /\ about' = Describe(v, "vas", q, perms) /\ table' = Registered(p, v)
        /\ made' = made \cup {<<"vas", q>>} /\ UNCHANGED <<mail, started, halted>>
    BY <1>1, Zenon DEF VasCreate
  <2>2. "vas" \in Kinds /\ perms \in SUBSET AllPerms /\ "vas" # "mailbox"
    BY Zenon DEF Kinds, PermissionBit, AllPerms, GlobalPerms
  <2>3. made \subseteq made' /\ made' \subseteq {"mailbox", "vas", "process"} \X (Boxes \cup Procs)
    BY <2>1 DEF HandlesInv, HandlesTypeOK
  <2> HIDE DEF perms
  <2> QED  BY <2>1, <2>2, <2>3, CreatesOne, Zenon
<1>2. CASE res # "ok"
  BY <1>2, Fails, Zenon DEF VasCreate, handleVars
<1> QED  BY <1>1, <1>2, Zenon

\* rose_process_create keeps the invariant, and moves nothing.
LEMMA ProcessCreateStep ==
    ASSUME HandlesInv, NEW p \in Procs, NEW caps, NEW v, NEW h, NEW res, ProcessCreate(p, caps, v, h, res)
    PROVE  HandlesInv' /\ MovesTransferable
<1>1. CASE res = "ok"
  <2>1. Checked(p, v, "vas", "write") = "ok"
    BY <1>1, ThenOk DEF ProcessCreate
  <2>2. PICK q \in Procs : q = about[v].obj
    BY <2>1, CheckedOk, Known, Zenon DEF Sound
  <2>3. /\ h \in Unused /\ about' = Describe(h, "process", q, GlobalPerms) /\ table' = Registered(p, h)
        /\ made' = made \cup {<<"process", q>>} /\ UNCHANGED <<mail, started, halted>>
    BY <1>1, <2>2, Zenon DEF ProcessCreate
  <2>4. "process" \in Kinds /\ GlobalPerms \in SUBSET AllPerms /\ "process" # "mailbox"
    BY Zenon DEF Kinds, AllPerms
  <2>5. made \subseteq made' /\ made' \subseteq {"mailbox", "vas", "process"} \X (Boxes \cup Procs)
    BY <2>3 DEF HandlesInv, HandlesTypeOK
  <2> QED  BY <2>3, <2>4, <2>5, CreatesOne, Zenon
<1>2. CASE res # "ok"
  BY <1>2, Fails, Zenon DEF ProcessCreate, handleVars
<1> QED  BY <1>1, <1>2, Zenon

\* rose_process_start keeps the invariant, and moves a transferable handle only.
LEMMA ProcessStartStep ==
    ASSUME HandlesInv, NEW p \in Procs, NEW h, NEW boot, NEW res, ProcessStart(p, h, boot, res)
    PROVE  HandlesInv' /\ MovesTransferable
<1>1. CASE res = "ok"
  <2>1. Checked(p, h, "process", "write") = "ok" /\ Transferable(p, boot) = "ok"
    BY <1>1, ThenOk DEF ProcessStart
  <2>2. boot \in table[p] /\ "transfer" \in about[boot].perms /\ boot \in Handles
    BY <2>1, TransferableOk, Known, Zenon
  <2>3. PICK q \in Procs : q = about[h].obj
    BY <2>1, CheckedOk, Known, Zenon DEF Sound
  <2>4. /\ table' = [[table EXCEPT ![p] = @ \ {boot}] EXCEPT ![q] = @ \cup {boot}]
        /\ started' = started \cup {q} /\ UNCHANGED <<about, mail, made, halted>>
    BY <1>1, <2>3, Zenon DEF ProcessStart, Unregistered
  <2>5. HandlesTypeOK'
    BY <2>2, <2>4, Zenon DEF HandlesInv, HandlesTypeOK
  <2>6. NotTwice' /\ Somewhere'
    BY <2>2, <2>4, Given, Zenon
  <2>7. KindsSound' /\ Exists("mailbox", FirstBox)' /\ UnwritableStaysEmpty'
    BY <2>4, Zenon DEF HandlesInv, KindsSound, Exists, UnwritableStaysEmpty
  <2>8. MovesTransferable
    BY <2>2, <2>4, Zenon DEF HandlesInv, HandlesTypeOK, MovesTransferable
  <2> QED  BY <2>5, <2>6, <2>7, <2>8, Zenon DEF HandlesInv
<1>2. CASE res # "ok"
  BY <1>2, Fails, Zenon DEF ProcessStart, handleVars
<1> QED  BY <1>1, <1>2, Zenon

-----------------------------------------------------------------------------
(* The invariant *)

\* The handles of the first process satisfy the invariant.
LEMMA HandlesInit == CallsInit => HandlesInv
<1> SUFFICES ASSUME CallsInit PROVE HandlesInv
  BY Zenon
<1> USE CallsAssumption, PayloadsAssumption
<1> DEFINE caps == [kind |-> "kernel_caps", obj |-> None, perms |-> AllPerms]
           box == [kind |-> "mailbox", obj |-> FirstBox, perms |-> {"read"}]
<1>1. caps \in Payloads /\ Sound(caps) /\ box \in Payloads /\ Sound(box)
  BY Zenon DEF Payloads, Sound, Kinds, AllPerms, GlobalPerms
<1>2. about = [h \in Handles |-> CASE h = 1 -> caps [] h = 2 -> box [] OTHER -> None]
  BY Zenon DEF CallsInit
<1> HIDE DEF caps, box
<1>3. \A h \in Handles : about[h] = IF h = 1 THEN caps ELSE IF h = 2 THEN box ELSE None
  BY <1>2
<1>4. about \in [Handles -> Payloads \cup {None}]
  BY <1>1, <1>2, Zenon
<1>5. HandlesTypeOK
  <2>1. table \in [Procs -> SUBSET Handles]
    BY Zenon DEF CallsInit
  <2>2. mail \in [Boxes -> Seq(Messages)]
    BY DEF CallsInit
  <2>3. made \subseteq {"mailbox", "vas", "process"} \X (Boxes \cup Procs)
    BY DEF CallsInit
  <2>4. started \subseteq Procs /\ halted \in BOOLEAN
    BY Zenon DEF CallsInit
  <2> QED  BY <1>4, <2>1, <2>2, <2>3, <2>4, Zenon DEF HandlesTypeOK
<1>6. \A h, b, i : b \in Boxes => ~Posted(h, b, i)
  BY DEF CallsInit, Posted
<1>7. NotTwice
  BY <1>6, Zenon DEF CallsInit, NotTwice
<1>8. Somewhere
  BY <1>1, <1>3, <1>6, Zenon DEF CallsInit, Somewhere
<1>9. KindsSound
  BY <1>1, <1>3, Zenon DEF KindsSound
<1>10. Exists("mailbox", FirstBox) /\ UnwritableStaysEmpty
  BY Zenon DEF CallsInit, Exists, UnwritableStaysEmpty
<1> QED  BY <1>5, <1>7, <1>8, <1>9, <1>10, Zenon DEF HandlesInv

\* Every call keeps the invariant, and moves transferable handles only.
LEMMA HandlesStep ==
    HandlesInv /\ [CallsNext]_handleVars => HandlesInv' /\ [MovesTransferable]_handleVars
<1> SUFFICES ASSUME HandlesInv, [CallsNext]_handleVars PROVE HandlesInv' /\ [MovesTransferable]_handleVars
  BY Zenon
<1>1. CASE UNCHANGED handleVars
  BY <1>1, Fails, Zenon
<1>2. ASSUME NEW p \in started, CallsUse(p) PROVE HandlesInv' /\ MovesTransferable
  <2>1. p \in Procs
    BY Zenon DEF HandlesInv, HandlesTypeOK
  <2> QED
    BY <1>2, <2>1, TokenReleaseStep, MailboxWriteStep, MailboxReadStep, MappingDestroyStep, ProcessStartStep, Zenon DEF CallsUse
<1>3. ASSUME NEW p \in started, NEW h \in Handles, CallsCreate(p, h) PROVE HandlesInv' /\ MovesTransferable
  <2>1. p \in Procs
    BY Zenon DEF HandlesInv, HandlesTypeOK
  <2> QED
    BY <1>3, <2>1, MailboxCreateStep, VmoCreateStep, MappingCreateStep, VasCreateStep, ProcessCreateStep, Zenon DEF CallsCreate
<1> QED  BY <1>1, <1>2, <1>3, Zenon DEF CallsNext

\* The invariant holds in every state that a sequence of calls reaches.
LEMMA HandlesAlways == HandlesSpec => []HandlesInv
<1>1. HandlesInv /\ [CallsNext]_handleVars => HandlesInv'
  BY HandlesStep, Zenon
<1> QED  BY <1>1, HandlesInit, PTL DEF HandlesSpec

-----------------------------------------------------------------------------
(* Results *)

\* Whatever system calls the processes make, failed ones included, a handle
\* that has not been released is in one process or in one message
\* (register_for_token and unregister_token of process.cpp, and their callers).
THEOREM NoHandleLost == HandlesSpec => []HandleInOnePlace
BY HandlesAlways, InvInOnePlace, PTL

\* The mailbox of the first process, of which kernel_main gave out the read end
\* only, stays empty: permissions are set where the object is made and travel
\* with the handle unchanged, so that no call ever finds a handle to write with.
THEOREM NoPermissionGained == HandlesSpec => []UnwritableStaysEmpty
<1>1. HandlesInv => UnwritableStaysEmpty
  BY Zenon DEF HandlesInv
<1> QED  BY <1>1, HandlesAlways, PTL

\* A handle leaves a process by being released or with the permission
\* "transfer", in rose_mailbox_write and in rose_process_start.
THEOREM NoHandleTaken == HandlesSpec => OnlyTransferableMoves
<1>1. HandlesInv /\ [CallsNext]_handleVars => [MovesTransferable]_handleVars
  BY HandlesStep, Zenon
<1>2. HandlesSpec => [][MovesTransferable]_handleVars
  BY <1>1, HandlesAlways, PTL DEF HandlesSpec
<1> QED  BY <1>2, Zenon DEF OnlyTransferableMoves, MovesTransferable

-----------------------------------------------------------------------------
(* Calls on other cores (IpiQueue) *)

\* parallel_execute runs its function once on each core, and only while
\* its caller waits, for any number of cores and calls, as long as no item
\* is queued with the next pointer of an earlier use.

IpiTypeOK ==
    /\ head \in [IpiCores -> (IpiCores \X IpiCores) \cup {IpiNull}]
    /\ tail \in [IpiCores -> (IpiCores \X IpiCores) \cup {IpiNull}]
    /\ next \in [IpiCores \X IpiCores -> (IpiCores \X IpiCores) \cup {IpiNull}]
    /\ ipiPc \in [IpiCores -> {"idle", "spin", "locked", "push", "send", "wait"}]
    /\ targets \in [IpiCores -> SUBSET IpiCores]
    /\ unfinished \in [IpiCores -> Nat]
    /\ draining \in [IpiCores -> (IpiCores \X IpiCores) \cup {IpiNull}]
    /\ ran \in [IpiCores -> SUBSET IpiCores]

-----------------------------------------------------------------------------
(* The queues as lists: w[q] has the callers whose items are in queue q *)

Lists == [IpiCores -> Seq(IpiCores)]

\* The pointers of queue q form the list s.
Chain(s, q) ==
    /\ s = << >> => head[q] = IpiNull
    /\ s # << >> =>
         /\ head[q] = <<s[1], q>> /\ tail[q] = <<s[Len(s)], q>>
         /\ \A i \in 1 .. Len(s) - 1 : next[<<s[i], q>>] = <<s[i + 1], q>>
         /\ next[<<s[Len(s)], q>>] = IpiNull

\* An item is in a queue once; the one that is drained is not in it.
Once(s, q) ==
    /\ \A i, j \in 1 .. Len(s) : s[i] = s[j] => i = j
    /\ \A i \in 1 .. Len(s) : draining[q] # <<s[i], q>>
    /\ draining[q] = IpiNull \/ \E k \in IpiCores : draining[q] = <<k, q>>

\* The cores that have still to run the function of the call of k.
Outstanding(w, k) ==
    {d \in IpiCores : (\E i \in 1 .. Len(w[d]) : w[d][i] = k) \/ draining[d] = <<k, d>>}

\* The counter of a call counts them, and they are neither cores that have run
\* the function nor cores to queue it for; a call that has any is not over.
Counts(w, k) ==
    /\ unfinished[k] = Cardinality(Outstanding(w, k))
    /\ \A d \in Outstanding(w, k) : d \notin targets[k] /\ d \notin ran[k]
    /\ \A d \in targets[k] : d \notin ran[k]
    /\ Outstanding(w, k) # {} => ipiPc[k] \in {"push", "send", "wait"}

Listed(w) ==
    /\ \A q \in IpiCores : Chain(w[q], q) /\ Once(w[q], q)
    /\ \A k \in IpiCores : Counts(w, k)

IpiInv == ~relinked => IpiTypeOK /\ ~ranAstray /\ \E w \in Lists : Listed(w)

-----------------------------------------------------------------------------
\* What the proofs use of sets of cores: how they are counted, and that they
\* have a least element.  CoresCount below shows that it is so.
CoresCounted ==
    /\ Cardinality({}) = 0
    /\ \A S \in SUBSET IpiCores : Cardinality(S) \in Nat /\ (Cardinality(S) = 0 => S = {})
    /\ \A S \in SUBSET IpiCores : \A d \in IpiCores \ S : Cardinality(S \cup {d}) = Cardinality(S) + 1
    /\ \A S \in SUBSET IpiCores : \A d \in S : Cardinality(S \ {d}) = Cardinality(S) - 1
    /\ \A S \in SUBSET IpiCores : S # {} => (CHOOSE d \in S : \A e \in S : d <= e) \in S

\* An item is not the null pointer.
LEMMA ItemsNotNull == \A k, d \in IpiCores : <<k, d>> # IpiNull
BY IpiAssumption

\* The initial states satisfy the invariant, with empty queues.
LEMMA IpiInitInv == ASSUME CoresCounted, IpiInit PROVE IpiInv
<1>1. IpiTypeOK
  BY Zenon DEF IpiInit, IpiTypeOK
<1> DEFINE w == [q \in IpiCores |-> << >>]
<1>2. w \in Lists
  BY DEF Lists
<1>3. \A q \in IpiCores : w[q] = << >> /\ Len(w[q]) = 0
  BY Zenon
<1> HIDE DEF w
<1>4. \A q \in IpiCores : Chain(w[q], q) /\ Once(w[q], q)
  BY <1>3 DEF Chain, Once, IpiInit
<1>5. ASSUME NEW k \in IpiCores PROVE Counts(w, k)
  <2>1. Outstanding(w, k) = {}
    <3>1. \A d \in IpiCores : draining[d] # <<k, d>>
      BY ItemsNotNull, Zenon DEF IpiInit
    <3>2. \A d \in IpiCores : ~\E i \in 1 .. Len(w[d]) : w[d][i] = k
      BY <1>3
    <3> QED  BY <3>1, <3>2, Zenon DEF Outstanding
  <2>2. Cardinality(Outstanding(w, k)) = 0
    BY <2>1, Zenon DEF CoresCounted
  <2> QED  BY <2>1, <2>2, Zenon DEF Counts, IpiInit
<1>6. Listed(w)
  BY <1>4, <1>5, Zenon DEF Listed
<1> QED  BY <1>1, <1>2, <1>6, Zenon DEF IpiInv, IpiInit

-----------------------------------------------------------------------------
(* The steps *)

\* A step that leaves the queues alone changes the lists and what is
\* outstanding in nothing.
LEMMA QueuesUnchanged ==
    ASSUME NEW w \in Lists, Listed(w), UNCHANGED <<head, tail, next, draining>>
    PROVE  /\ \A q \in IpiCores : (Chain(w[q], q) /\ Once(w[q], q))'
           /\ \A k \in IpiCores : Outstanding(w, k)' = Outstanding(w, k)
<1>1. \A q \in IpiCores : (Chain(w[q], q) /\ Once(w[q], q))'
  BY Zenon DEF Listed, Chain, Once
<1>2. \A k \in IpiCores : Outstanding(w, k)' = Outstanding(w, k)
  BY Zenon DEF Outstanding
<1> QED  BY <1>1, <1>2, Zenon

\* Taking the lock of the address space keeps the queues.
LEMMA IpiLockStep ==
    ASSUME IpiTypeOK, ~ranAstray, NEW w \in Lists, Listed(w), NEW c \in IpiCores, IpiLock(c)
    PROVE  IpiTypeOK' /\ ~ranAstray' /\ Listed(w)'
<1>1. /\ ipiPc[c] \in {"idle", "spin"} /\ \E to \in {"locked", "spin"} : ipiPc' = [ipiPc EXCEPT ![c] = to]
      /\ UNCHANGED <<head, tail, next, draining, targets, unfinished, ran, ranAstray>>
  BY Zenon DEF IpiLock, Queues
<1>2. IpiTypeOK'
  BY <1>1 DEF IpiTypeOK
<1>3. ASSUME NEW k \in IpiCores PROVE Counts(w, k)'
  <2>1. Counts(w, k) /\ Outstanding(w, k)' = Outstanding(w, k)
    BY <1>1, QueuesUnchanged, Zenon DEF Listed
  <2>2. k # c => ipiPc'[k] = ipiPc[k]
    BY <1>1, Zenon DEF IpiTypeOK
  <2> QED  BY <1>1, <2>1, <2>2, Zenon DEF Counts
<1> QED  BY <1>1, <1>2, <1>3, QueuesUnchanged, Zenon DEF Listed

\* A call starts with none of its items queued, and no core outstanding.
LEMMA ParallelExecuteStep ==
    ASSUME CoresCounted, IpiTypeOK, ~ranAstray, NEW w \in Lists, Listed(w), NEW c \in IpiCores, ParallelExecute(c)
    PROVE  IpiTypeOK' /\ ~ranAstray' /\ Listed(w)'
<1>1. /\ ipiPc[c] \in {"idle", "locked"} /\ ipiPc' = [ipiPc EXCEPT ![c] = "push"]
      /\ unfinished' = [unfinished EXCEPT ![c] = 0] /\ ran' = [ran EXCEPT ![c] = {}]
      /\ UNCHANGED <<head, tail, next, draining, ranAstray>>
  BY Zenon DEF ParallelExecute, Queues
<1>2. PICK T \in SUBSET IpiCores : targets' = [targets EXCEPT ![c] = T]
  BY Zenon DEF ParallelExecute
<1>3. IpiTypeOK'
  BY <1>1, <1>2, Zenon DEF IpiTypeOK
<1>4. ASSUME NEW k \in IpiCores PROVE Counts(w, k)'
  <2>1. Counts(w, k) /\ Outstanding(w, k)' = Outstanding(w, k)
    BY <1>1, QueuesUnchanged, Zenon DEF Listed
  <2>2. CASE k = c
    <3>1. Outstanding(w, k) = {}
      BY <1>1, <2>1, <2>2, Zenon DEF Counts
    <3>2. Cardinality(Outstanding(w, k)) = 0
      BY <3>1, Zenon DEF CoresCounted
    <3>3. unfinished'[k] = 0 /\ ran'[k] = {}
      BY <1>1, <2>2, Zenon DEF IpiTypeOK
    <3> QED  BY <2>1, <3>1, <3>2, <3>3, Zenon DEF Counts
  <2>3. CASE k # c
    <3>1. unfinished'[k] = unfinished[k] /\ ran'[k] = ran[k] /\ targets'[k] = targets[k] /\ ipiPc'[k] = ipiPc[k]
      BY <1>1, <1>2, <2>3, Zenon DEF IpiTypeOK
    <3> QED  BY <2>1, <3>1, Zenon DEF Counts
  <2> QED  BY <2>2, <2>3, Zenon
<1> QED  BY <1>1, <1>3, <1>4, QueuesUnchanged, Zenon DEF Listed

\* Sending the IPI keeps the queues.
LEMMA IpiSendStep ==
    ASSUME IpiTypeOK, ~ranAstray, NEW w \in Lists, Listed(w), NEW c \in IpiCores, IpiSend(c)
    PROVE  IpiTypeOK' /\ ~ranAstray' /\ Listed(w)'
<1>1. /\ ipiPc' = [ipiPc EXCEPT ![c] = "wait"]
      /\ UNCHANGED <<head, tail, next, draining, targets, unfinished, ran, ranAstray>>
  BY Zenon DEF IpiSend, Queues
<1>2. IpiTypeOK'
  BY <1>1, Zenon DEF IpiTypeOK
<1>3. ASSUME NEW k \in IpiCores PROVE Counts(w, k)'
  <2>1. Counts(w, k) /\ Outstanding(w, k)' = Outstanding(w, k)
    BY <1>1, QueuesUnchanged, Zenon DEF Listed
  <2>2. ipiPc'[k] = IF k = c THEN "wait" ELSE ipiPc[k]
    BY <1>1, Zenon DEF IpiTypeOK
  <2> QED  BY <1>1, <2>1, <2>2, Zenon DEF Counts
<1> QED  BY <1>1, <1>2, <1>3, QueuesUnchanged, Zenon DEF Listed

\* A caller returns when none of its items is queued or being run.
LEMMA IpiReturnStep ==
    ASSUME CoresCounted, IpiTypeOK, ~ranAstray, NEW w \in Lists, Listed(w), NEW c \in IpiCores, IpiReturn(c)
    PROVE  IpiTypeOK' /\ ~ranAstray' /\ Listed(w)'
<1>1. /\ ipiPc' = [ipiPc EXCEPT ![c] = "idle"] /\ unfinished[c] = 0
      /\ UNCHANGED <<head, tail, next, draining, targets, unfinished, ran, ranAstray>>
  BY Zenon DEF IpiReturn, Queues, StillRuns
<1>2. IpiTypeOK'
  BY <1>1, Zenon DEF IpiTypeOK
<1>3. ASSUME NEW k \in IpiCores PROVE Counts(w, k)'
  <2>1. Counts(w, k) /\ Outstanding(w, k)' = Outstanding(w, k)
    BY <1>1, QueuesUnchanged, Zenon DEF Listed
  <2>2. k = c => Outstanding(w, k) = {}
    <3>1. Outstanding(w, k) \in SUBSET IpiCores
      BY Zenon DEF Outstanding
    <3> QED  BY <1>1, <2>1, <3>1, Zenon DEF Counts, CoresCounted
  <2>3. k # c => ipiPc'[k] = ipiPc[k]
    BY <1>1, Zenon DEF IpiTypeOK
  <2> QED  BY <1>1, <2>1, <2>2, <2>3, Zenon DEF Counts
<1> QED  BY <1>1, <1>2, <1>3, QueuesUnchanged, Zenon DEF Listed

\* An item that is put behind the others.
LEMMA PushChain ==
    ASSUME IpiTypeOK, NEW t \in IpiCores, NEW c \in IpiCores, NEW s \in Seq(IpiCores), Chain(s, t),
           Push(<<c, t>>, t), next[<<c, t>>] = IpiNull, \A i \in 1 .. Len(s) : s[i] # c
    PROVE  /\ Chain(Append(s, c), t)' /\ IpiTypeOK!1' /\ IpiTypeOK!2' /\ IpiTypeOK!3'
           /\ \A q \in IpiCores \ {t}, r \in Seq(IpiCores) : Chain(r, q) => Chain(r, q)'
<1>1. <<c, t>> \in IpiCores \X IpiCores /\ <<c, t>> # IpiNull
  BY ItemsNotNull, Zenon
<1>2. tail'[t] = <<c, t>> /\ \A q \in IpiCores \ {t} : head'[q] = head[q] /\ tail'[q] = tail[q]
  BY Zenon DEF Push, IpiTypeOK
<1>3. CASE s = << >>
  <2>1. head'[t] = <<c, t>> /\ next' = next
    BY <1>3, Zenon DEF Chain, Push, IpiTypeOK
  <2>2. Append(s, c) # << >> /\ Len(Append(s, c)) = 1 /\ Append(s, c)[1] = c
    BY <1>3
  <2>3. Chain(Append(s, c), t)'
    BY <1>2, <2>1, <2>2 DEF Chain
  <2>4. \A q \in IpiCores \ {t}, r \in Seq(IpiCores) : Chain(r, q) => Chain(r, q)'
    BY <1>2, <2>1, Zenon DEF Chain
  <2>5. IpiTypeOK!1' /\ IpiTypeOK!2' /\ IpiTypeOK!3'
    BY <1>1, <2>1, Zenon DEF IpiTypeOK, Push
  <2> QED  BY <2>3, <2>4, <2>5, Zenon
<1>4. CASE s # << >>
  <2>1. Len(s) \in Nat \ {0} /\ s[1] \in IpiCores /\ s[Len(s)] \in IpiCores
    BY <1>4
  <2>2. head[t] = <<s[1], t>> /\ tail[t] = <<s[Len(s)], t>> /\ head[t] # IpiNull
    BY <1>4, <2>1, ItemsNotNull, Zenon DEF Chain
  <2>3. head' = head /\ next' = [next EXCEPT ![<<s[Len(s)], t>>] = <<c, t>>]
    BY <2>2, Zenon DEF Push
  <2>4. \A k, q \in IpiCores : next'[<<k, q>>] = IF k = s[Len(s)] /\ q = t THEN <<c, t>> ELSE next[<<k, q>>]
    BY <2>1, <2>3, Zenon DEF IpiTypeOK
  <2>5. PICK r \in Seq(IpiCores) : r = Append(s, c)
    <3>1. Append(s, c) \in Seq(IpiCores)
      OBVIOUS
    <3> QED  BY <3>1, Zenon
  <2>6. r # << >> /\ Len(r) = Len(s) + 1 /\ r[1] = s[1] /\ r[Len(r)] = c /\ \A i \in 1 .. Len(s) : r[i] = s[i]
    BY <2>1, <2>5
  <2>7. next'[<<r[Len(r)], t>>] = IpiNull
    <3>1. s[Len(s)] # c
      BY <2>1
    <3> QED  BY <2>4, <2>6, <3>1, Zenon
  <2>8. ASSUME NEW i \in 1 .. Len(r) - 1 PROVE next'[<<r[i], t>>] = <<r[i + 1], t>>
    <3>1. i \in 1 .. Len(s) /\ r[i] = s[i] /\ s[i] \in IpiCores
      BY <2>1, <2>6
    <3>2. CASE i = Len(s)
      BY <2>1, <2>4, <2>6, <3>1, <3>2, Zenon
    <3>3. CASE i # Len(s)
      <4>1. i \in 1 .. Len(s) - 1 /\ i + 1 \in 1 .. Len(s)
        BY <2>1, <3>1, <3>3
      <4>2. next[<<s[i], t>>] = <<s[i + 1], t>>
        BY <1>4, <4>1, Zenon DEF Chain
      <4>3. s[i] # s[Len(s)]
        <5>1. s[i + 1] \in IpiCores
          BY <4>1
        <5>2. next[<<s[i], t>>] # IpiNull /\ next[<<s[Len(s)], t>>] = IpiNull
          BY <1>4, <4>2, <5>1, ItemsNotNull, Zenon DEF Chain
        <5> QED  BY <5>2, Zenon
      <4>4. next'[<<s[i], t>>] = next[<<s[i], t>>]
        BY <2>4, <3>1, <4>3, Zenon
      <4>5. r[i + 1] = s[i + 1]
        BY <2>6, <4>1, Zenon
      <4> QED  BY <3>1, <4>2, <4>4, <4>5, Zenon
    <3> QED  BY <3>2, <3>3, Zenon
  <2>9. Chain(r, t)'
    BY <1>2, <2>2, <2>3, <2>6, <2>7, <2>8, Zenon DEF Chain
  <2>10. ASSUME NEW q \in IpiCores \ {t}, NEW z \in Seq(IpiCores), Chain(z, q) PROVE Chain(z, q)'
    <3>1. \A i \in 1 .. Len(z) : next'[<<z[i], q>>] = next[<<z[i], q>>]
      BY <2>4
    <3>2. z # << >> => Len(z) \in 1 .. Len(z) /\ \A i \in 1 .. Len(z) - 1 : i \in 1 .. Len(z)
      OBVIOUS
    <3> QED  BY <1>2, <2>3, <2>10, <3>1, <3>2, Zenon DEF Chain
  <2>11. IpiTypeOK!1' /\ IpiTypeOK!2' /\ IpiTypeOK!3'
    <3>1. <<s[Len(s)], t>> \in IpiCores \X IpiCores
      BY <2>1, Zenon
    <3> QED  BY <1>1, <2>3, <3>1, Zenon DEF IpiTypeOK, Push
  <2> QED  BY <2>5, <2>9, <2>10, <2>11, Zenon
<1> QED  BY <1>3, <1>4, Zenon

\* push links an item behind the tail of the queue of its core.
LEMMA IpiPushStep ==
    ASSUME CoresCounted, IpiTypeOK, ~ranAstray, ~relinked', NEW w \in Lists, Listed(w), NEW c \in IpiCores, IpiPush(c)
    PROVE  IpiTypeOK' /\ ~ranAstray' /\ \E v \in Lists : Listed(v)'
<1>1. PICK t : t = CHOOSE d \in targets[c] : \A e \in targets[c] : d <= e
  BY Zenon
<1>2. /\ ipiPc[c] = "push" /\ targets[c] # {} /\ Push(<<c, t>>, t)
      /\ targets' = [targets EXCEPT ![c] = @ \ {t}] /\ next[<<c, t>>] = IpiNull
      /\ unfinished' = [unfinished EXCEPT ![c] = @ + 1]
      /\ \E to \in {"push", "send"} : ipiPc' = [ipiPc EXCEPT ![c] = to]
      /\ UNCHANGED <<draining, ran, ranAstray>>
  BY <1>1, Zenon DEF IpiPush, IpiTypeOK
<1>3. t \in targets[c] /\ t \in IpiCores
  <2>1. targets[c] \in SUBSET IpiCores
    BY Zenon DEF IpiTypeOK
  <2> QED  BY <1>1, <1>2, <2>1, Zenon DEF CoresCounted
<1>4. /\ t \notin Outstanding(w, c) /\ t \notin ran[c]
      /\ unfinished[c] = Cardinality(Outstanding(w, c))
      /\ \A d \in Outstanding(w, c) : d \notin targets[c] /\ d \notin ran[c]
      /\ \A d \in targets[c] : d \notin ran[c]
  BY <1>3, Zenon DEF Listed, Counts
<1>5. w[t] \in Seq(IpiCores) /\ draining[t] # <<c, t>> /\ \A i \in 1 .. Len(w[t]) : w[t][i] # c
  BY <1>3, <1>4, Zenon DEF Outstanding, Lists
<1>6. PICK s \in Seq(IpiCores) : s = w[t]
  BY <1>5, Zenon
<1>7. PICK r \in Seq(IpiCores) : r = Append(s, c)
  <2>1. Append(s, c) \in Seq(IpiCores)
    OBVIOUS
  <2> QED  BY <2>1, Zenon
<1>8. Len(r) = Len(s) + 1 /\ r[Len(r)] = c /\ \A i \in 1 .. Len(s) : r[i] = s[i]
  BY <1>7
<1>9. PICK v \in Lists : \A q \in IpiCores : v[q] = IF q = t THEN r ELSE w[q]
  <2>1. [w EXCEPT ![t] = r] \in Lists
    BY Zenon DEF Lists
  <2> QED  BY <2>1, Zenon DEF Lists
<1>10. /\ Chain(r, t)' /\ IpiTypeOK!1' /\ IpiTypeOK!2' /\ IpiTypeOK!3'
       /\ \A q \in IpiCores \ {t}, z \in Seq(IpiCores) : Chain(z, q) => Chain(z, q)'
  <2>1. Chain(s, t)
    BY <1>3, <1>6, Zenon DEF Listed
  <2>2. Chain(Append(s, c), t)' <=> Chain(r, t)'
    BY <1>7, Zenon
  <2> QED  BY <1>2, <1>3, <1>5, <1>6, <2>1, <2>2, PushChain, Zenon
<1>11. IpiTypeOK'
  <2>1. /\ ipiPc' \in [IpiCores -> {"idle", "spin", "locked", "push", "send", "wait"}]
        /\ targets' \in [IpiCores -> SUBSET IpiCores]
        /\ unfinished' \in [IpiCores -> Nat]
        /\ draining' \in [IpiCores -> (IpiCores \X IpiCores) \cup {IpiNull}]
        /\ ran' \in [IpiCores -> SUBSET IpiCores]
    BY <1>2 DEF IpiTypeOK
  <2> QED  BY <1>10, <2>1, Zenon DEF IpiTypeOK
<1>12. ASSUME NEW q \in IpiCores PROVE (Chain(v[q], q) /\ Once(v[q], q))'
  <2>1. CASE q = t
    <3>1. Once(s, t)
      BY <1>3, <1>6, Zenon DEF Listed
    <3>2. Once(r, t)'
      <4>1. draining'[t] = draining[t]
        BY <1>2, Zenon
      <4>2. \A i \in 1 .. Len(r) : (i \in 1 .. Len(s) /\ r[i] = s[i] /\ s[i] # c) \/ (i = Len(r) /\ r[i] = c)
        BY <1>5, <1>6, <1>8
      <4>3. \A i, j \in 1 .. Len(r) : r[i] = r[j] => i = j
        BY <3>1, <4>2, Zenon DEF Once
      <4>4. \A i \in 1 .. Len(r) : draining[t] # <<r[i], t>>
        BY <1>5, <3>1, <4>2, Zenon DEF Once
      <4> QED  BY <3>1, <4>1, <4>3, <4>4, Zenon DEF Once
    <3> QED  BY <1>9, <1>10, <2>1, <3>2, Zenon
  <2>2. CASE q # t
    <3>1. v[q] = w[q] /\ w[q] \in Seq(IpiCores)
      BY <1>9, <2>2, Zenon DEF Lists
    <3>2. Chain(w[q], q)' /\ Once(w[q], q)'
      BY <1>2, <1>10, <2>2, <3>1, Zenon DEF Listed, Once
    <3> QED  BY <3>1, <3>2, Zenon
  <2> QED  BY <2>1, <2>2, Zenon
<1>13. ASSUME NEW k \in IpiCores
       PROVE  Outstanding(v, k)' = IF k = c THEN Outstanding(w, k) \cup {t} ELSE Outstanding(w, k)
  <2>1. \A d \in IpiCores \ {t} : v[d] = w[d]
    BY <1>9, Zenon
  <2>2. v[t] = r
    BY <1>3, <1>9, Zenon
  <2>3. (\E i \in 1 .. Len(r) : r[i] = k) <=> (k = c \/ \E i \in 1 .. Len(s) : s[i] = k)
    <3>1. ASSUME NEW i \in 1 .. Len(r), r[i] = k PROVE k = c \/ \E j \in 1 .. Len(s) : s[j] = k
      <4>1. i = Len(r) \/ i \in 1 .. Len(s)
        BY <1>8
      <4> QED  BY <1>8, <3>1, <4>1, Zenon
    <3>2. ASSUME k = c PROVE \E i \in 1 .. Len(r) : r[i] = k
      <4>1. Len(r) \in 1 .. Len(r)
        BY <1>8
      <4> QED  BY <1>8, <3>2, <4>1, Zenon
    <3>3. ASSUME NEW i \in 1 .. Len(s), s[i] = k PROVE \E j \in 1 .. Len(r) : r[j] = k
      <4>1. i \in 1 .. Len(r)
        BY <1>8
      <4> QED  BY <1>8, <3>3, <4>1, Zenon
    <3> QED  BY <3>1, <3>2, <3>3, Zenon
  <2>4. ASSUME NEW d \in IpiCores
        PROVE  d \in Outstanding(v, k)' <=> (d \in Outstanding(w, k) \/ (k = c /\ d = t))
    <3>1. d = t \/ v[d] = w[d]
      BY <2>1, Zenon
    <3> QED  BY <1>2, <1>6, <2>2, <2>3, <3>1, Zenon DEF Outstanding
  <2>5. Outstanding(v, k)' \subseteq IpiCores /\ Outstanding(w, k) \subseteq IpiCores
    BY Zenon DEF Outstanding
  <2> QED  BY <1>3, <2>4, <2>5, Zenon
<1>14. ASSUME NEW k \in IpiCores PROVE Counts(v, k)'
  <2>1. CASE k = c
    <3>1. Outstanding(v, k)' = Outstanding(w, c) \cup {t}
      BY <1>13, <2>1, Zenon
    <3>2. Cardinality(Outstanding(v, k)') = Cardinality(Outstanding(w, c)) + 1
      <4>1. Outstanding(w, c) \in SUBSET IpiCores /\ t \in IpiCores \ Outstanding(w, c)
        BY <1>3, <1>4, Zenon DEF Outstanding
      <4> QED  BY <3>1, <4>1, Zenon DEF CoresCounted
    <3>3. unfinished'[k] = unfinished[c] + 1 /\ targets'[k] = targets[c] \ {t} /\ ran'[k] = ran[c]
      BY <1>2, <2>1, Zenon DEF IpiTypeOK
    <3>4. ipiPc'[k] \in {"push", "send", "wait"}
      BY <1>2, <2>1, Zenon DEF IpiTypeOK
    <3> QED  BY <1>4, <3>1, <3>2, <3>3, <3>4, Zenon DEF Counts
  <2>2. CASE k # c
    <3>1. Counts(w, k) /\ Outstanding(v, k)' = Outstanding(w, k)
      BY <1>13, <2>2, Zenon DEF Listed
    <3>2. unfinished'[k] = unfinished[k] /\ targets'[k] = targets[k] /\ ran'[k] = ran[k] /\ ipiPc'[k] = ipiPc[k]
      BY <1>2, <2>2, Zenon DEF IpiTypeOK
    <3> QED  BY <3>1, <3>2, Zenon DEF Counts
  <2> QED  BY <2>1, <2>2, Zenon
<1>15. Listed(v)'
  BY <1>12, <1>14, Zenon DEF Listed
<1> QED  BY <1>2, <1>11, <1>15, Zenon

\* drain takes the first item off the queue of its core.
LEMMA DrainTakeStep ==
    ASSUME IpiTypeOK, ~ranAstray, NEW w \in Lists, Listed(w), NEW c \in IpiCores, DrainTake(c)
    PROVE  IpiTypeOK' /\ ~ranAstray' /\ \E v \in Lists : Listed(v)'
<1>1. draining[c] = IpiNull /\ UNCHANGED <<tail, next, ipiPc, targets, unfinished, ran, ranAstray>>
  BY Zenon DEF DrainTake
<1>2. CASE head[c] = IpiNull
  <2>1. UNCHANGED <<head, tail, next, draining>>
    BY <1>1, <1>2, Zenon DEF DrainTake
  <2>2. IpiTypeOK'
    BY <1>1, <2>1, Zenon DEF IpiTypeOK
  <2>3. \A k \in IpiCores : Counts(w, k)'
    BY <1>1, <2>1, QueuesUnchanged, Zenon DEF Counts, Listed
  <2>4. Listed(w)'
    BY <2>1, <2>3, QueuesUnchanged, Zenon DEF Listed
  <2> QED  BY <1>1, <2>2, <2>4, Zenon
<1>3. CASE head[c] # IpiNull
  <2>1. draining' = [draining EXCEPT ![c] = head[c]] /\ head' = [head EXCEPT ![c] = next[head[c]]]
    BY <1>3, Zenon DEF DrainTake
  <2>2. PICK s \in Seq(IpiCores) : s = w[c]
    BY Zenon DEF Lists
  <2>3. Chain(s, c) /\ Once(s, c) /\ s # << >> /\ head[c] = <<s[1], c>>
    BY <1>3, <2>2, Zenon DEF Listed, Chain
  <2>4. Len(s) \in Nat \ {0} /\ s[1] \in IpiCores
    BY <2>3
  <2>5. PICK r \in Seq(IpiCores) : r = Tail(s)
    <3>1. Tail(s) \in Seq(IpiCores)
      BY <2>3
    <3> QED  BY <3>1, Zenon
  <2>6. Len(r) = Len(s) - 1 /\ \A i \in 1 .. Len(r) : r[i] = s[i + 1] /\ i + 1 \in 1 .. Len(s)
    BY <2>3, <2>4, <2>5
  <2>7. /\ draining'[c] = <<s[1], c>> /\ head'[c] = next[<<s[1], c>>]
        /\ \A d \in IpiCores \ {c} : draining'[d] = draining[d] /\ head'[d] = head[d]
    BY <2>1, <2>3, Zenon DEF IpiTypeOK
  <2>8. PICK v \in Lists : \A q \in IpiCores : v[q] = IF q = c THEN r ELSE w[q]
    <3>1. [w EXCEPT ![c] = r] \in Lists
      BY Zenon DEF Lists
    <3> QED  BY <3>1, Zenon DEF Lists
  <2>9. IpiTypeOK'
    <3>1. head[c] \in IpiCores \X IpiCores
      BY <1>3, Zenon DEF IpiTypeOK
    <3> QED  BY <1>1, <2>1, <3>1, Zenon DEF IpiTypeOK
  <2>10. Chain(r, c)'
    <3>1. CASE Len(s) = 1
      <4>1. r = << >>
        BY <2>6, <3>1
      <4>2. next[<<s[1], c>>] = IpiNull
        BY <2>3, <3>1, Zenon DEF Chain
      <4> QED  BY <2>7, <4>1, <4>2, Zenon DEF Chain
    <3>2. CASE Len(s) # 1
      <4>1. r # << >> /\ 1 \in 1 .. Len(r) /\ Len(r) \in 1 .. Len(r) /\ 1 \in 1 .. Len(s) - 1 /\ Len(r) + 1 = Len(s)
        BY <2>4, <2>6, <3>2
      <4>2. r[1] = s[2] /\ r[Len(r)] = s[Len(s)]
        BY <2>6, <4>1
      <4>3. head'[c] = <<r[1], c>>
        BY <2>3, <2>7, <4>1, <4>2 DEF Chain
      <4>4. tail'[c] = <<r[Len(r)], c>> /\ next'[<<r[Len(r)], c>>] = IpiNull
        BY <1>1, <2>3, <4>2, Zenon DEF Chain
      <4>5. ASSUME NEW i \in 1 .. Len(r) - 1 PROVE next'[<<r[i], c>>] = <<r[i + 1], c>>
        <5>1. i \in 1 .. Len(r) /\ i + 1 \in 1 .. Len(r) /\ i + 1 \in 1 .. Len(s) - 1
          BY <2>4, <2>6
        <5>2. r[i] = s[i + 1] /\ r[i + 1] = s[(i + 1) + 1]
          BY <2>6, <5>1, Zenon
        <5> QED  BY <1>1, <2>3, <5>1, <5>2, Zenon DEF Chain
      <4> QED  BY <4>1, <4>3, <4>4, <4>5, Zenon DEF Chain
    <3> QED  BY <3>1, <3>2, Zenon
  <2>11. Once(r, c)'
    <3>1. ASSUME NEW i \in 1 .. Len(r), NEW j \in 1 .. Len(r), r[i] = r[j] PROVE i = j
      <4>1. s[i + 1] = s[j + 1] /\ i + 1 \in 1 .. Len(s) /\ j + 1 \in 1 .. Len(s)
        BY <2>6, <3>1, Zenon
      <4>2. i + 1 = j + 1
        BY <2>3, <4>1, Zenon DEF Once
      <4> QED  BY <4>2
    <3>2. ASSUME NEW i \in 1 .. Len(r) PROVE r[i] # s[1]
      <4>1. r[i] = s[i + 1] /\ i + 1 \in 1 .. Len(s) /\ 1 \in 1 .. Len(s) /\ i + 1 # 1
        BY <2>4, <2>6
      <4> QED  BY <2>3, <4>1, Zenon DEF Once
    <3> QED  BY <2>4, <2>7, <3>1, <3>2 DEF Once
  <2>12. ASSUME NEW q \in IpiCores PROVE (Chain(v[q], q) /\ Once(v[q], q))'
    <3>1. CASE q = c
      BY <2>8, <2>10, <2>11, <3>1, Zenon
    <3>2. CASE q # c
      <4>1. v[q] = w[q]
        BY <2>8, <3>2, Zenon
      <4>2. Chain(w[q], q)' /\ Once(w[q], q)'
        <5>1. Chain(w[q], q) /\ Once(w[q], q)
          BY Zenon DEF Listed
        <5>2. draining'[q] = draining[q] /\ head'[q] = head[q] /\ tail' = tail /\ next' = next
          BY <1>1, <2>7, <3>2, Zenon
        <5>3. Chain(w[q], q)'
          BY <5>1, <5>2, Zenon DEF Chain
        <5>4. Once(w[q], q)'
          BY <5>1, <5>2, Zenon DEF Once
        <5> QED  BY <5>3, <5>4, Zenon
      <4> QED  BY <4>1, <4>2, Zenon
    <3> QED  BY <3>1, <3>2, Zenon
  <2>13. ASSUME NEW k \in IpiCores PROVE Outstanding(v, k)' = Outstanding(w, k)
    <3>1. v[c] = r /\ \A d \in IpiCores \ {c} : v[d] = w[d]
      BY <2>8, Zenon
    <3>2. (\E i \in 1 .. Len(s) : s[i] = k) <=> (k = s[1] \/ \E i \in 1 .. Len(r) : r[i] = k)
      <4>1. ASSUME NEW i \in 1 .. Len(s), s[i] = k PROVE k = s[1] \/ \E j \in 1 .. Len(r) : r[j] = k
        <5>1. CASE i = 1
          BY <4>1, <5>1, Zenon
        <5>2. CASE i # 1
          <6>1. i - 1 \in 1 .. Len(r) /\ (i - 1) + 1 = i
            BY <2>6, <5>2
          <6> QED  BY <2>6, <4>1, <6>1, Zenon
        <5> QED  BY <5>1, <5>2, Zenon
      <4>2. ASSUME NEW j \in 1 .. Len(r), r[j] = k PROVE \E i \in 1 .. Len(s) : s[i] = k
        BY <2>6, <4>2, Zenon
      <4>3. 1 \in 1 .. Len(s)
        BY <2>4
      <4> QED  BY <4>1, <4>2, <4>3, Zenon
    <3>3. draining'[c] = <<k, c>> <=> k = s[1]
      BY <2>7
    <3>4. draining[c] # <<k, c>>
      BY <1>1, ItemsNotNull, Zenon
    <3>5. ASSUME NEW d \in IpiCores PROVE d \in Outstanding(v, k)' <=> d \in Outstanding(w, k)
      <4>1. CASE d = c
        BY <2>2, <3>1, <3>2, <3>3, <3>4, <4>1, Zenon DEF Outstanding
      <4>2. CASE d # c
        BY <2>7, <3>1, <4>2, Zenon DEF Outstanding
      <4> QED  BY <4>1, <4>2, Zenon
    <3>6. Outstanding(v, k)' \subseteq IpiCores /\ Outstanding(w, k) \subseteq IpiCores
      BY Zenon DEF Outstanding
    <3> QED  BY <3>5, <3>6, Zenon
  <2>14. \A k \in IpiCores : Counts(v, k)'
    BY <1>1, <2>13, Zenon DEF Counts, Listed
  <2>15. Listed(v)'
    BY <2>12, <2>14, Zenon DEF Listed
  <2> QED  BY <1>1, <2>9, <2>15, Zenon
<1> QED  BY <1>2, <1>3, Zenon

\* drain runs the function while the caller waits, and counts the core off.
LEMMA DrainRunStep ==
    ASSUME CoresCounted, IpiTypeOK, ~ranAstray, NEW w \in Lists, Listed(w), NEW c \in IpiCores, DrainRun(c)
    PROVE  IpiTypeOK' /\ ~ranAstray' /\ Listed(w)'
<1>1. PICK k \in IpiCores : draining[c] = <<k, c>>
  BY Zenon DEF DrainRun, Listed, Once
<1>2. draining[c][1] = k
  BY <1>1
<1>3. c \in Outstanding(w, k) /\ Counts(w, k)
  BY <1>1, Zenon DEF Outstanding, Listed
<1>4. ipiPc[k] \in {"push", "send", "wait"} /\ c \notin ran[k] /\ c \notin targets[k]
  BY <1>3, Zenon DEF Counts
<1>5. Outstanding(w, k) \in SUBSET IpiCores /\ Outstanding(w, k) \ {c} \in SUBSET IpiCores
  BY Zenon DEF Outstanding
<1>6. /\ Cardinality(Outstanding(w, k)) \in Nat /\ Cardinality(Outstanding(w, k) \ {c}) \in Nat
      /\ Cardinality(Outstanding(w, k) \ {c}) = Cardinality(Outstanding(w, k)) - 1
  BY <1>3, <1>5, Zenon DEF CoresCounted
<1>7. unfinished[k] = Cardinality(Outstanding(w, k)) /\ unfinished[k] # 0
  BY <1>3, <1>6 DEF Counts
<1>8. /\ ~ranAstray' /\ unfinished' = [unfinished EXCEPT ![k] = @ - 1] /\ ran' = [ran EXCEPT ![k] = @ \cup {c}]
      /\ draining' = [draining EXCEPT ![c] = IpiNull]
      /\ UNCHANGED <<head, tail, next, ipiPc, targets>>
  BY <1>2, <1>4, <1>7, Zenon DEF DrainRun, Queues
<1>9. IpiTypeOK'
  <2>1. unfinished[k] - 1 \in Nat
    BY <1>6, <1>7, Zenon
  <2> QED  BY <1>8, <2>1, Zenon DEF IpiTypeOK
<1>10. draining'[c] = IpiNull /\ \A d \in IpiCores \ {c} : draining'[d] = draining[d]
  BY <1>8, Zenon DEF IpiTypeOK
<1>11. ASSUME NEW q \in IpiCores PROVE (Chain(w[q], q) /\ Once(w[q], q))'
  <2>1. Chain(w[q], q) /\ Once(w[q], q)
    BY Zenon DEF Listed
  <2>2. Chain(w[q], q)'
    BY <1>8, <2>1, Zenon DEF Chain
  <2>3. w[q] \in Seq(IpiCores)
    BY Zenon DEF Lists
  <2>4. \A i \in 1 .. Len(w[q]) : w[q][i] \in IpiCores
    BY <2>3
  <2>5. \A i \in 1 .. Len(w[q]) : <<w[q][i], q>> # IpiNull
    BY <2>4, ItemsNotNull, Zenon
  <2>6. Once(w[q], q)'
    BY <1>10, <2>1, <2>5, Zenon DEF Once
  <2> QED  BY <2>2, <2>6, Zenon
<1>12. ASSUME NEW j \in IpiCores
       PROVE  Outstanding(w, j)' = IF j = k THEN Outstanding(w, j) \ {c} ELSE Outstanding(w, j)
  <2>1. \A i \in 1 .. Len(w[c]) : w[c][i] # k
    BY <1>1, Zenon DEF Listed, Once
  <2>2. draining'[c] # <<j, c>>
    BY <1>10, ItemsNotNull, Zenon
  <2>3. draining[c] = <<j, c>> <=> j = k
    BY <1>1
  <2>4. ASSUME NEW d \in IpiCores
        PROVE  d \in Outstanding(w, j)' <=> (d \in Outstanding(w, j) /\ ~(j = k /\ d = c))
    <3>1. CASE d = c
      BY <2>1, <2>2, <2>3, <3>1, Zenon DEF Outstanding
    <3>2. CASE d # c
      BY <1>10, <3>2, Zenon DEF Outstanding
    <3> QED  BY <3>1, <3>2, Zenon
  <2>5. Outstanding(w, j)' \subseteq IpiCores /\ Outstanding(w, j) \subseteq IpiCores
    BY Zenon DEF Outstanding
  <2> QED  BY <2>4, <2>5, Zenon
<1>13. ASSUME NEW j \in IpiCores PROVE Counts(w, j)'
  <2>1. CASE j = k
    <3>1. Outstanding(w, j)' = Outstanding(w, k) \ {c}
      BY <1>12, <2>1, Zenon
    <3>2. unfinished'[j] = unfinished[k] - 1 /\ ran'[j] = ran[k] \cup {c} /\ targets'[j] = targets[k] /\ ipiPc'[j] = ipiPc[k]
      BY <1>8, <2>1, Zenon DEF IpiTypeOK
    <3>3. unfinished'[j] = Cardinality(Outstanding(w, j)')
      BY <1>6, <1>7, <3>1, <3>2, Zenon
    <3> QED  BY <1>3, <1>4, <3>1, <3>2, <3>3, Zenon DEF Counts
  <2>2. CASE j # k
    <3>1. Counts(w, j) /\ Outstanding(w, j)' = Outstanding(w, j)
      BY <1>12, <2>2, Zenon DEF Listed
    <3>2. unfinished'[j] = unfinished[j] /\ targets'[j] = targets[j] /\ ran'[j] = ran[j] /\ ipiPc'[j] = ipiPc[j]
      BY <1>8, <2>2, Zenon DEF IpiTypeOK
    <3> QED  BY <3>1, <3>2, Zenon DEF Counts
  <2> QED  BY <2>1, <2>2, Zenon
<1> QED  BY <1>8, <1>9, <1>11, <1>13, Zenon DEF Listed

\* Every step of every core keeps the invariant.
LEMMA IpiStep == ASSUME CoresCounted, IpiInv, [IpiNext]_ipiVars PROVE IpiInv'
<1> SUFFICES ASSUME ~relinked' PROVE IpiTypeOK' /\ ~ranAstray' /\ \E v \in Lists : Listed(v)'
  BY Zenon DEF IpiInv
<1>1. CASE UNCHANGED ipiVars
  <2>1. UNCHANGED <<head, tail, next, ipiPc, targets, unfinished, draining, ran, relinked, ranAstray>>
    BY <1>1, Zenon DEF ipiVars
  <2>2. IpiTypeOK /\ ~ranAstray
    BY <2>1, Zenon DEF IpiInv
  <2>3. PICK w \in Lists : Listed(w)
    BY <2>1, Zenon DEF IpiInv
  <2>4. IpiTypeOK'
    BY <2>1, <2>2, Zenon DEF IpiTypeOK
  <2>5. \A k \in IpiCores : Counts(w, k)'
    BY <2>1, <2>3, QueuesUnchanged, Zenon DEF Counts, Listed
  <2>6. Listed(w)'
    BY <2>1, <2>3, <2>5, QueuesUnchanged, Zenon DEF Listed
  <2> QED  BY <2>1, <2>2, <2>4, <2>6, Zenon
<1>2. CASE IpiNext
  <2>1. PICK c \in IpiCores : \/ IpiLock(c) \/ ParallelExecute(c) \/ IpiPush(c) \/ IpiSend(c)
                              \/ DrainTake(c) \/ DrainRun(c) \/ IpiReturn(c)
    BY <1>2, Zenon DEF IpiNext
  <2>2. relinked' = relinked \/ (relinked' <=> (relinked \/ next[<<c, CHOOSE d \in targets[c] : \A e \in targets[c] : d <= e>>] # IpiNull))
    BY <2>1, Zenon DEF IpiLock, ParallelExecute, IpiPush, IpiSend, DrainTake, DrainRun, IpiReturn
  <2>3. IpiTypeOK /\ ~ranAstray /\ \E w \in Lists : Listed(w)
    BY <2>2, Zenon DEF IpiInv
  <2>4. PICK w \in Lists : Listed(w)
    BY <2>3, Zenon
  <2> QED  BY <2>1, <2>3, <2>4, IpiLockStep, ParallelExecuteStep, IpiPushStep, IpiSendStep, DrainTakeStep,
              DrainRunStep, IpiReturnStep, Zenon
<1> QED  BY <1>1, <1>2, Zenon

\* The least of a set of numbers that has one without a smaller one.
LEMMA LeastIsIn ==
    ASSUME NEW S \in SUBSET Nat, NEW R, R = {p \in Nat \X Nat : p[1] < p[2]},
           \E d \in S : \A e \in S : ~(<<e, d>> \in R)
    PROVE  (CHOOSE d \in S : \A e \in S : d <= e) \in S
<1>1. \A d, e \in Nat : <<e, d>> \in R <=> e < d
  BY Zenon
<1>2. PICK d \in S : \A e \in S : ~(<<e, d>> \in R)
  BY Zenon
<1>3. ASSUME NEW e \in S PROVE d <= e
  <2>1. d \in Nat /\ e \in Nat /\ ~(<<e, d>> \in R)
    BY <1>2, Zenon
  <2>2. ~(e < d)
    BY <1>1, <2>1, Zenon
  <2> QED  BY <2>1, <2>2
<1> QED  BY <1>3, Zenon

-----------------------------------------------------------------------------
(* Results.  The counting and the least elements that the steps above take *)
(* as assumptions are shown here, from the theorems of the library.        *)

INSTANCE FiniteSetTheorems
INSTANCE WellFoundedInduction

\* The cores are finitely many numbers.
LEMMA CoresCount == CoresCounted
<1>1. Cardinality({}) = 0
  BY FS_EmptySet, Zenon
<1>2. ASSUME NEW S \in SUBSET IpiCores
      PROVE  IsFiniteSet(S) /\ Cardinality(S) \in Nat /\ (Cardinality(S) = 0 => S = {})
  BY IpiAssumption, FS_Subset, FS_CardinalityType, FS_EmptySet, Zenon
<1>3. ASSUME NEW S \in SUBSET IpiCores, NEW d \in IpiCores \ S PROVE Cardinality(S \cup {d}) = Cardinality(S) + 1
  BY <1>2, FS_AddElement, Zenon
<1>4. ASSUME NEW S \in SUBSET IpiCores, NEW d \in S PROVE Cardinality(S \ {d}) = Cardinality(S) - 1
  BY <1>2, FS_RemoveElement, Zenon
<1>5. ASSUME NEW S \in SUBSET IpiCores, S # {} PROVE (CHOOSE d \in S : \A e \in S : d <= e) \in S
  <2> DEFINE R == {p \in Nat \X Nat : p[1] < p[2]}
  <2>1. S \in SUBSET Nat
    BY IpiAssumption, Zenon
  <2>2. IsWellFoundedOn(R, Nat)
    BY NatLessThanWellFounded, Zenon DEF OpToRel
  <2>3. PICK r : r = R
    BY Zenon
  <2>4. \E d \in S : \A e \in S : ~(<<e, d>> \in r)
    <3>1. IsWellFoundedOn(r, Nat)
      BY <2>2, <2>3, Zenon
    <3> HIDE DEF R
    <3> QED  BY <1>5, <2>1, <3>1, WFMin, Zenon
  <2> QED  BY <2>1, <2>3, <2>4, LeastIsIn, Zenon
<1> QED  BY <1>1, <1>2, <1>3, <1>4, <1>5, Zenon DEF CoresCounted

-----------------------------------------------------------------------------
(* The function of a parallel_execute is run once by each core, and only   *)
(* while its caller waits and its counter is not yet zero: the state that  *)
(* drain writes to lies on the stack of a call that has not returned.      *)
(* This holds for any number of cores and of calls at once, until an item  *)
(* is queued whose next pointer was left by an earlier use.                *)
THEOREM NoFunctionRunAstray == IpiSpec => []RunsForItsCaller
<1>1. IpiInv => RunsForItsCaller
  BY Zenon DEF IpiInv, RunsForItsCaller
<1>2. IpiInit => IpiInv
  BY CoresCount, IpiInitInv, Zenon
<1>3. IpiInv /\ [IpiNext]_ipiVars => IpiInv'
  BY CoresCount, IpiStep, Zenon
<1> QED  BY <1>1, <1>2, <1>3, PTL DEF IpiSpec
=============================================================================
