-------------------------- MODULE ProcessorProofs --------------------------
(***************************************************************************)
(* The processors: how the others are started, and how a processor leaves  *)
(* a thread and goes on with it.                                           *)
(***************************************************************************)
EXTENDS ApBoot, Context, TLAPS

-----------------------------------------------------------------------------
(* Starting the processors (ApBoot) *)

CoreObjects == [apic : Cpus, id : Nat, accessed : BOOLEAN, flag : 0 .. ApBatch]
Pages == [flag : Nat, stack : Nat]

\* A core that has not started, is in the trampoline, or has left it.
Unstarted == {"off", "reset", "sipi"}
InTrampoline == {"tramp", "stacked"}
Up == {"lookup", "found", "idle"}

ApTypeOK ==
    /\ cores \in Seq(CoreObjects) /\ booted \in Int /\ checked \in Nat /\ stacks \in Nat
    /\ bspPc \in {"idle", "prepare", "sipi", "sipi2", "check", "done", "panic"}
    /\ page \in [1 .. ApBatch -> Pages]
    /\ cpu \in [Cpus -> Unstarted \cup InTrampoline \cup Up \cup {"panic"}]
    /\ startPage \in [Cpus -> 0 .. ApBatch]
    /\ bspPc \notin {"check", "panic"} => booted \in Nat
    /\ bspPc = "check" => checked > booted /\ checked > 0 /\ checked <= booted + ApBatch + 1
    /\ bspPc = "idle" => booted = 0 /\ Len(cores) = ApCount /\ \A i \in 1 .. ApCount : cores[i].apic = i

\* A processor is in the array once.
ObjectsApart == \A i, j \in 1 .. Len(cores) : cores[i].apic = cores[j].apic => i = j

\* The last index that is settled, and the last one of the batches that were begun.
Settled == IF bspPc = "check" THEN checked - 1 ELSE booted
Begun == IF bspPc \in {"sipi", "sipi2", "check"} THEN booted + ApBatch ELSE booted

\* The cores of this batch that the last loop has not come to.
Unchecked == {i \in 1 .. Len(cores) : Settled < i /\ i <= Begun /\ cores[i].apic # ApBsp}

\* A core whose index is settled has it for an id, and runs.
SettledRun ==
    \A i \in 1 .. Len(cores) : i <= Settled /\ cores[i].apic # ApBsp =>
        cores[i].id = i /\ cpu[cores[i].apic] \in Up

\* The cores of later batches wait.
LaterWait == \A i \in 1 .. Len(cores) : i > Begun /\ cores[i].apic # ApBsp => cpu[cores[i].apic] \in {"off", "reset"}

\* The page of a core of this batch: the flag says how far the core is.
PageOfCore(i) ==
    LET c == cores[i].apic
        p == cores[i].flag
    IN  /\ p \in 1 .. ApBatch
        /\ bspPc \in {"sipi", "sipi2"} => p = i - booted
        /\ cpu[c] \in Unstarted \cup InTrampoline \cup Up
        /\ cpu[c] \in Unstarted => page[p].flag = 0
        /\ cpu[c] \in InTrampoline => page[p].flag = 1
        /\ cpu[c] \in Up => page[p].flag = 2
        /\ cpu[c] \in {"sipi"} \cup InTrampoline => startPage[c] = p
        /\ page[p].stack = stacks - ApBatch + p
        /\ \A d \in Cpus : d # c => apStack[d] # page[p].stack

BatchSound ==
    /\ \A i \in Unchecked : PageOfCore(i)
    /\ \A i, j \in Unchecked : cores[i].flag = cores[j].flag => i = j

\* What holds until a core starts late.
OnTime ==
    /\ \A c, d \in Cpus : c # d /\ apStack[c] # 0 => apStack[c] # apStack[d]
    /\ apStack \in [Cpus -> Nat] /\ \A c \in Cpus : apStack[c] <= stacks
    /\ bspPc # "panic" => SettledRun /\ LaterWait /\ BatchSound
    /\ bspPc = "done" => booted >= Len(cores) /\ \A i \in 1 .. Len(cores) : cores[i].id = i

ApInv == ApTypeOK /\ ObjectsApart /\ cpu[ApBsp] = "idle" /\ (Late = {} => OnTime)

\* What replacing an element of a sequence does.
LEMMA ElementReplaced ==
    ASSUME NEW S, NEW s \in Seq(S), NEW k \in 1 .. Len(s), NEW x \in S, NEW t, t = [s EXCEPT ![k] = x]
    PROVE  t \in Seq(S) /\ Len(t) = Len(s) /\ t[k] = x /\ \A i \in 1 .. Len(s) : i # k => t[i] = s[i]
  OBVIOUS

\* The core object at an index is that of a processor of the machine.
LEMMA ApicOfCore == ASSUME ApTypeOK, NEW i \in 1 .. Len(cores) PROVE cores[i].apic \in Cpus
  <1>1. cores[i] \in CoreObjects
    BY DEF ApTypeOK
  <1> QED BY <1>1, Zenon DEF CoreObjects

\* The initial states satisfy the invariant.
LEMMA ApInitInv == ApInit => ApInv
  <1> SUFFICES ASSUME ApInit PROVE ApInv
    BY Zenon
  <1> USE ApAssumption
  <1>1. /\ cores = [i \in 1 .. ApCount |-> [apic |-> i, id |-> 0, accessed |-> i = ApBsp, flag |-> 0]]
        /\ booted = 0 /\ bspPc = "idle" /\ checked = 0 /\ stacks = 0
        /\ page = [p \in 1 .. ApBatch |-> [flag |-> 0, stack |-> 0]]
        /\ cpu = [c \in Cpus |-> IF c = ApBsp THEN "idle" ELSE "off"]
        /\ startPage = [c \in Cpus |-> 0] /\ apStack = [c \in Cpus |-> 0]
    BY Zenon DEF ApInit, Cpus
  <1>2. \A i \in 1 .. ApCount : [apic |-> i, id |-> 0, accessed |-> i = ApBsp, flag |-> 0] \in CoreObjects
    BY DEF CoreObjects, Cpus
  <1>3. cores \in Seq(CoreObjects) /\ Len(cores) = ApCount /\ \A i \in 1 .. ApCount : cores[i].apic = i
    BY <1>1, <1>2
  <1>4. ApTypeOK
    BY <1>1, <1>3 DEF ApTypeOK, Pages, Unstarted, Up
  <1>5. ObjectsApart
    BY <1>3, Zenon DEF ObjectsApart
  <1>6. Settled = 0 /\ Begun = 0 /\ Unchecked = {}
    BY <1>1 DEF Settled, Begun, Unchecked
  <1>7. SettledRun /\ BatchSound
    BY <1>3, <1>6 DEF SettledRun, BatchSound
  <1>8. LaterWait
    BY <1>1, <1>3, Zenon DEF LaterWait, Cpus
  <1>9. OnTime
    BY <1>1, <1>7, <1>8 DEF OnTime
  <1> QED BY <1>1, <1>4, <1>5, <1>9, Zenon DEF ApInv, Cpus

\* Once a core is late, one is late for ever.
LEMMA LateForEver ==
    ASSUME ApTypeOK, Present' \subseteq Present,
           \A c \in Cpus : cpu[c] \notin Unstarted => cpu'[c] \notin Unstarted,
           Late' = {}
    PROVE  Late = {}
  BY Zenon DEF Late, Unstarted

\* The INIT IPI resets the processors, before any of them has a page.
LEMMA ApResetInv == ASSUME ApInv, ApReset PROVE ApInv'
  <1> USE ApAssumption
  <1>1. PICK alive \in SUBSET (Cpus \ {ApBsp}) : cpu' = [c \in Cpus |-> IF c \in alive THEN "reset" ELSE cpu[c]]
    BY Zenon DEF ApReset
  <1>2. /\ bspPc = "idle" /\ bspPc' = "prepare" /\ UNCHANGED <<cores, booted, checked, page, startPage, apStack, own, stacks>>
        /\ ApTypeOK /\ Len(cores) = ApCount /\ \A i \in 1 .. ApCount : cores[i].apic = i
    BY Zenon DEF ApReset, ApInv, ApTypeOK
  <1>3. ApTypeOK'
    BY <1>1, <1>2, Zenon DEF ApTypeOK, Unstarted
  <1>4. ObjectsApart' /\ cpu'[ApBsp] = "idle"
    BY <1>1, <1>2, Zenon DEF ApInv, ObjectsApart, Cpus
  <1>5. DOMAIN cores = 1 .. ApCount
    BY <1>2 DEF ApTypeOK
  <1>6. Present = Cpus
    BY <1>2, <1>5 DEF Present, Cpus
  <1>7. Late = {}
    BY <1>6, Zenon DEF Late
  <1>8. OnTime
    BY <1>7, Zenon DEF ApInv
  <1>9. Settled' = Settled /\ Begun' = Begun /\ Unchecked' = {} /\ Settled = booted /\ Begun = booted
    BY <1>2 DEF Settled, Begun, Unchecked, ApTypeOK
  <1>10. \A i \in 1 .. Len(cores) : i > 0
    OBVIOUS
  <1>11. \A i \in 1 .. Len(cores) : cores[i].apic # ApBsp => cpu'[cores[i].apic] \in {"off", "reset"}
    BY <1>1, <1>2, <1>8, <1>9, SMTT(30) DEF OnTime, LaterWait, ApTypeOK, Cpus
  <1>12. LaterWait' /\ SettledRun' /\ BatchSound'
    BY <1>2, <1>9, <1>11 DEF LaterWait, SettledRun, BatchSound, ApTypeOK
  <1>13. OnTime'
    BY <1>2, <1>8, <1>12, Zenon DEF OnTime
  <1> QED BY <1>3, <1>4, <1>13, Zenon DEF ApInv

\* The same cores are in the array, and late.
LEMMA SameCores ==
    ASSUME ApTypeOK, Len(cores') = Len(cores), cores' \in Seq(CoreObjects),
           \A i \in 1 .. Len(cores) : cores'[i].apic = cores[i].apic
    PROVE  Present' = Present
  <1>1. DOMAIN cores = 1 .. Len(cores) /\ DOMAIN cores' = 1 .. Len(cores)
    BY DEF ApTypeOK
  <1> QED BY <1>1, Zenon DEF Present

\* Preparing a batch gives each of its cores a page and a stack of its own.
LEMMA ApPrepareInv == ASSUME ApInv, ApPrepare PROVE ApInv'
  <1> USE ApAssumption
  <1>1. /\ bspPc = "prepare" /\ booted \in Nat /\ UNCHANGED <<booted, checked, cpu, startPage, apStack, own>>
        /\ cores \in Seq(CoreObjects) /\ DOMAIN cores = 1 .. Len(cores) /\ Len(cores) \in Nat /\ stacks \in Nat /\ ApTypeOK
    BY DEF ApPrepare, ApInv, ApTypeOK, Hardware
  <1>2. \A i \in 1 .. Len(cores) : cores[i] \in CoreObjects
    BY <1>1
  <1>3. Settled = booted /\ Begun = booted
    BY <1>1, Zenon DEF Settled, Begun
  <1>4. CASE booted >= Len(cores)
    <2>1. /\ cores' = [i \in DOMAIN cores |-> IF cores[i].apic = ApBsp THEN [cores[i] EXCEPT !.id = i] ELSE cores[i]]
          /\ bspPc' = "done" /\ UNCHANGED <<page, stacks>>
      BY <1>4, Zenon DEF ApPrepare
    <2> DEFINE New(i) == IF cores[i].apic = ApBsp THEN [cores[i] EXCEPT !.id = i] ELSE cores[i]
    <2>2. \A i \in 1 .. Len(cores) : New(i) \in CoreObjects /\ New(i).apic = cores[i].apic
                                     /\ New(i).id = IF cores[i].apic = ApBsp THEN i ELSE cores[i].id
      BY <1>2 DEF CoreObjects
    <2>3. cores' = [i \in 1 .. Len(cores) |-> New(i)]
      BY <1>1, <2>1, Zenon
    <2> HIDE DEF New
    <2>4. cores' \in Seq(CoreObjects) /\ Len(cores') = Len(cores)
      BY <1>1, <2>2, <2>3
    <2>5. \A i \in 1 .. Len(cores) : cores'[i].apic = cores[i].apic
                                     /\ cores'[i].id = IF cores[i].apic = ApBsp THEN i ELSE cores[i].id
      BY <2>2, <2>3, Zenon
    <2>6. ApTypeOK' /\ ObjectsApart' /\ cpu'[ApBsp] = "idle"
      BY <1>1, <2>1, <2>4, <2>5 DEF ApInv, ApTypeOK, ObjectsApart
    <2>7. ASSUME Late' = {} PROVE OnTime'
      <3>1. Late = {}
        BY <1>1, <2>4, <2>5, <2>7, SameCores, Zenon DEF Late
      <3>2. OnTime
        BY <3>1, Zenon DEF ApInv
      <3>3. Settled' = booted /\ Begun' = booted /\ Unchecked' = {}
        BY <1>1, <2>1, <2>4 DEF Settled, Begun, Unchecked
      <3>4. SettledRun' /\ LaterWait' /\ BatchSound'
        BY <1>1, <1>3, <1>4, <2>4, <2>5, <3>2, <3>3, Zenon DEF OnTime, SettledRun, LaterWait, BatchSound
      <3>5. \A i \in 1 .. Len(cores) : cores'[i].id = i
        BY <1>1, <1>3, <1>4, <2>1, <2>5, <3>2 DEF OnTime, SettledRun
      <3> QED BY <1>1, <1>4, <2>1, <2>4, <3>2, <3>4, <3>5, Zenon DEF OnTime
    <2> QED BY <2>6, <2>7, Zenon DEF ApInv
  <1>5. CASE booted < Len(cores)
    <2> DEFINE NewPage(p) == IF booted + p \in InBatch THEN [flag |-> 0, stack |-> stacks + p] ELSE page[p]
               New(i) == IF i \in InBatch THEN [cores[i] EXCEPT !.flag = i - booted] ELSE cores[i]
    <2>1. /\ page' = [p \in 1 .. ApBatch |-> NewPage(p)] /\ cores' = [i \in 1 .. Len(cores) |-> New(i)]
          /\ stacks' = stacks + ApBatch /\ bspPc' = "sipi"
      BY <1>1, <1>5 DEF ApPrepare, ApTypeOK
    <2>2. InBatch = {i \in 1 .. Len(cores) : booted < i /\ i <= booted + ApBatch /\ cores[i].apic # ApBsp}
      BY <1>1, Zenon DEF InBatch
    <2>3. \A i \in InBatch : i - booted \in 1 .. ApBatch /\ booted + (i - booted) = i
      BY <1>1, <2>2
    <2>4. ASSUME NEW i \in 1 .. Len(cores)
          PROVE  /\ New(i) \in CoreObjects /\ New(i).apic = cores[i].apic /\ New(i).id = cores[i].id
                 /\ i \in InBatch => New(i).flag = i - booted
      BY <1>2, <2>3 DEF CoreObjects
    <2>5. \A p \in 1 .. ApBatch : NewPage(p) \in Pages
      BY <1>1 DEF Pages, ApTypeOK
    <2>6. \A i \in InBatch : NewPage(i - booted) = [flag |-> 0, stack |-> stacks + (i - booted)]
      BY <2>3, Zenon
    <2> HIDE DEF New, NewPage
    <2>7. cores' \in Seq(CoreObjects) /\ Len(cores') = Len(cores) /\ page' \in [1 .. ApBatch -> Pages]
      BY <1>1, <2>1, <2>4, <2>5
    <2>8. \A i \in 1 .. Len(cores) : /\ cores'[i].apic = cores[i].apic /\ cores'[i].id = cores[i].id
                                     /\ i \in InBatch => cores'[i].flag = i - booted
      BY <2>1, <2>4, Zenon
    <2>9. ApTypeOK' /\ ObjectsApart' /\ cpu'[ApBsp] = "idle"
      BY <1>1, <2>1, <2>7, <2>8 DEF ApInv, ApTypeOK, ObjectsApart
    <2>10. ASSUME Late' = {} PROVE OnTime'
      <3>1. Late = {}
        BY <1>1, <2>7, <2>8, <2>10, SameCores, Zenon DEF Late
      <3>2. OnTime
        BY <3>1, Zenon DEF ApInv
      <3>3. Settled' = booted /\ Begun' = booted + ApBatch
        BY <1>1, <2>1, Zenon DEF Settled, Begun
      <3>4. Unchecked' = InBatch
        BY <2>2, <2>7, <2>8, <3>3, Zenon DEF Unchecked
      <3>5. SettledRun'
        BY <1>1, <1>3, <2>7, <2>8, <3>2, <3>3, Zenon DEF OnTime, SettledRun
      <3>6. LaterWait'
        <4>1. \A i \in 1 .. Len(cores) : i > booted + ApBatch => i > booted
          BY <1>1, ApAssumption DEF ApTypeOK
        <4> QED BY <1>1, <1>3, <2>7, <2>8, <3>2, <3>3, <4>1, Zenon DEF OnTime, LaterWait
      <3>7. ASSUME NEW i \in InBatch PROVE PageOfCore(i)'
        <4> DEFINE c == cores[i].apic
                   q == i - booted
        <4>1. i \in 1 .. Len(cores) /\ c # ApBsp /\ i > booted /\ q \in 1 .. ApBatch
          BY <2>2, <2>3, Zenon
        <4>2. cpu[c] \in {"off", "reset"}
          BY <1>1, <1>3, <3>2, <4>1, Zenon DEF OnTime, LaterWait
        <4>3. cores'[i].apic = c /\ cores'[i].flag = q
          BY <2>8, <4>1, Zenon
        <4>4. page'[q].flag = 0 /\ page'[q].stack = stacks + q
          <5>1. NewPage(q) = [flag |-> 0, stack |-> stacks + q]
            BY <2>6, Zenon
          <5>2. page'[q] = NewPage(q)
            BY <2>1, <4>1, Zenon
          <5> QED BY <5>1, <5>2
        <4>5. \A d \in Cpus : apStack[d] # stacks + q
          BY <1>1, <3>2, <4>1 DEF OnTime, ApTypeOK
        <4>6. stacks' - ApBatch + q = stacks + q
          BY <1>1, <2>1, <4>1
        <4> HIDE DEF c, q
        <4> QED BY <1>1, <4>1, <4>2, <4>3, <4>4, <4>5, <4>6, Zenon DEF PageOfCore, Unstarted, InTrampoline, Up, q
      <3>8. \A i, j \in InBatch : cores'[i].flag = cores'[j].flag => i = j
        BY <1>1, <2>2, <2>8
      <3>9. BatchSound'
        BY <3>4, <3>7, <3>8, Zenon DEF BatchSound
      <3>10. \A c \in Cpus : apStack[c] <= stacks'
        BY <1>1, <2>1, <3>2 DEF OnTime, ApTypeOK
      <3> QED BY <1>1, <2>1, <3>2, <3>5, <3>6, <3>9, <3>10, Zenon DEF OnTime
    <2> QED BY <2>9, <2>10, Zenon DEF ApInv
  <1> QED BY <1>1, <1>4, <1>5

\* A startup IPI to cores of the batch.
LEMMA SipiInv ==
    ASSUME ApInv, bspPc \in {"sipi", "sipi2"}, NEW woken, woken \subseteq {cores[i].apic : i \in InBatch},
           SipiTo(woken), UNCHANGED <<cores, booted, page, stacks>>,
           \/ bspPc = "sipi" /\ bspPc' = "sipi2" /\ checked' = checked
           \/ bspPc = "sipi2" /\ bspPc' = "check" /\ checked' = booted + 1
    PROVE  ApInv'
  <1> USE ApAssumption
  <1>1. /\ booted \in Nat /\ cores \in Seq(CoreObjects) /\ DOMAIN cores = 1 .. Len(cores) /\ Len(cores) \in Nat
        /\ ApTypeOK /\ UNCHANGED <<apStack, own>>
        /\ cpu' = [c \in Cpus |-> IF c \in woken /\ cpu[c] = "reset" THEN "sipi" ELSE cpu[c]]
        /\ startPage' = [c \in Cpus |->
             IF c \in woken /\ cpu[c] = "reset" THEN (CHOOSE i \in InBatch : cores[i].apic = c) - booted ELSE startPage[c]]
    BY DEF ApInv, ApTypeOK, SipiTo
  <1>2. InBatch = {i \in 1 .. Len(cores) : booted < i /\ i <= booted + ApBatch /\ cores[i].apic # ApBsp}
    BY <1>1, Zenon DEF InBatch
  <1>3. \A i \in 1 .. Len(cores) : cores[i].apic \in Cpus
    BY <1>1, ApicOfCore, Zenon
  <1>4. ASSUME NEW i \in InBatch
        PROVE  (CHOOSE j \in InBatch : cores[j].apic = cores[i].apic) = i
    BY <1>2, Zenon DEF ApInv, ObjectsApart
  <1>5. ASSUME NEW c \in woken, cpu[c] = "reset"
        PROVE  c \in Cpus /\ c # ApBsp /\ \E i \in InBatch : cores[i].apic = c /\ startPage'[c] = i - booted
    <2>1. PICK i \in InBatch : cores[i].apic = c
      BY Zenon
    <2> QED BY <1>1, <1>2, <1>3, <1>4, <1>5, <2>1, Zenon
  <1>6. \A c \in Cpus : startPage'[c] \in 0 .. ApBatch
    <2> TAKE c \in Cpus
    <2>1. CASE c \in woken /\ cpu[c] = "reset"
      BY <1>1, <1>2, <1>5, <2>1
    <2>2. CASE ~ (c \in woken /\ cpu[c] = "reset")
      BY <1>1, <2>2, Zenon DEF ApTypeOK
    <2> QED BY <2>1, <2>2, Zenon
  <1>7. startPage' \in [Cpus -> 0 .. ApBatch]
    BY <1>1, <1>6, Zenon
  <1>8. cpu' \in [Cpus -> Unstarted \cup InTrampoline \cup Up \cup {"panic"}]
    BY <1>1, Zenon DEF ApTypeOK, Unstarted
  <1>9. ApTypeOK'
    <2>1. booted' \in Nat /\ checked' \in Nat /\ apStack' = apStack
      BY DEF ApInv, ApTypeOK, SipiTo
    <2>2. bspPc' \in {"sipi2", "check"} /\ (bspPc' = "check" => checked' = booted + 1)
      BY Zenon
    <2>3. ApTypeOK /\ booted \in Nat
      BY <1>1, Zenon
    <2> QED BY <1>7, <1>8, <2>1, <2>2, <2>3 DEF ApTypeOK
  <1>10. ObjectsApart' /\ cpu'[ApBsp] = "idle"
    BY <1>1, <1>5, Zenon DEF ApInv, ObjectsApart, Cpus
  <1>11. ASSUME Late' = {} PROVE OnTime'
    <2>1. Present' = Present /\ \A c \in Cpus : cpu[c] \notin Unstarted => cpu'[c] \notin Unstarted
      BY <1>1, Zenon DEF Present, Unstarted
    <2>2. OnTime
      BY <1>1, <1>11, <2>1, LateForEver, Zenon DEF ApInv
    <2>3. Settled' = Settled /\ Begun' = Begun /\ Settled = booted /\ Begun = booted + ApBatch
      BY <1>1 DEF Settled, Begun
    <2>4. Unchecked' = InBatch /\ Unchecked = InBatch
      BY <1>2, <2>3, Zenon DEF Unchecked
    <2>5. \A i \in 1 .. Len(cores) : i \notin InBatch => cpu'[cores[i].apic] = cpu[cores[i].apic]
      <3> SUFFICES ASSUME NEW i \in 1 .. Len(cores), i \notin InBatch, cores[i].apic \in woken, cpu[cores[i].apic] = "reset"
                   PROVE  FALSE
        BY <1>1, <1>3, Zenon
      <3>1. PICK j \in InBatch : cores[j].apic = cores[i].apic
        BY Zenon
      <3>2. i = j
        BY <1>2, <3>1, Zenon DEF ApInv, ObjectsApart
      <3> QED BY <3>1, <3>2, Zenon
    <2>6. SettledRun'
      BY <1>1, <1>2, <2>2, <2>3, <2>5 DEF OnTime, SettledRun
    <2>7. LaterWait'
      BY <1>1, <1>2, <2>2, <2>3, <2>5, SMTT(30) DEF OnTime, LaterWait
    <2>8. ASSUME NEW i \in InBatch PROVE PageOfCore(i)'
      <3> DEFINE c == cores[i].apic
      <3>1. PageOfCore(i) /\ c \in Cpus /\ i \in 1 .. Len(cores)
        BY <1>2, <1>3, <2>2, <2>4, Zenon DEF OnTime, BatchSound
      <3>2. cores'[i] = cores[i] /\ page' = page
        BY Zenon
      <3>3. CASE c \in woken /\ cpu[c] = "reset"
        <4>1. cpu'[c] = "sipi" /\ startPage'[c] = i - booted /\ cores[i].flag = i - booted
          BY <1>1, <1>4, <3>1, <3>3, Zenon DEF PageOfCore
        <4> QED BY <1>1, <3>1, <3>2, <3>3, <4>1, Zenon DEF PageOfCore, Unstarted, InTrampoline, Up
      <3>4. CASE ~ (c \in woken /\ cpu[c] = "reset")
        <4>1. cpu'[c] = cpu[c] /\ startPage'[c] = startPage[c]
          BY <1>1, <3>1, <3>4, Zenon
        <4> QED BY <1>1, <3>1, <3>2, <4>1, Zenon DEF PageOfCore
      <3> QED BY <3>3, <3>4, Zenon
    <2>9. BatchSound'
      BY <2>2, <2>4, <2>8, Zenon DEF OnTime, BatchSound
    <2> QED BY <1>1, <2>2, <2>6, <2>7, <2>9, Zenon DEF OnTime
  <1> QED BY <1>9, <1>10, <1>11, Zenon DEF ApInv

\* A startup IPI starts those cores only that have not started, each on its page.
LEMMA ApSipiInv == ASSUME ApInv, ApSipi \/ ApSipi2 PROVE ApInv'
  <1>1. CASE ApSipi
    <2>1. PICK woken \in SUBSET {cores[i].apic : i \in InBatch} : SipiTo(woken)
      BY <1>1, Zenon DEF ApSipi
    <2>2. bspPc = "sipi" /\ bspPc' = "sipi2" /\ UNCHANGED <<cores, booted, checked, page, stacks>>
      BY <1>1, Zenon DEF ApSipi
    <2> QED BY <2>1, <2>2, SipiInv, Zenon
  <1>2. CASE ApSipi2
    <2> DEFINE woken == {cores[i].apic : i \in {j \in InBatch : page[cores[j].flag].flag = 0}}
    <2>1. SipiTo(woken) /\ woken \subseteq {cores[i].apic : i \in InBatch}
      BY <1>2, Zenon DEF ApSipi2
    <2>2. bspPc = "sipi2" /\ bspPc' = "check" /\ checked' = booted + 1 /\ UNCHANGED <<cores, booted, page, stacks>>
      BY <1>2, Zenon DEF ApSipi2
    <2> HIDE DEF woken
    <2> QED BY <2>1, <2>2, SipiInv, Zenon
  <1> QED BY <1>1, <1>2, Zenon

\* The end of the last loop, and a core that needs no look.
LEMMA CheckPassInv ==
    ASSUME ApInv, bspPc = "check", UNCHANGED <<page, Hardware, stacks, cores>>,
           \/ /\ checked > booted + ApBatch \/ checked > Len(cores)
              /\ booted' = booted + ApBatch /\ bspPc' = "prepare" /\ checked' = checked
           \/ /\ checked <= booted + ApBatch /\ checked <= Len(cores) /\ cores[checked].apic = ApBsp
              /\ checked' = checked + 1 /\ UNCHANGED <<booted, bspPc>>
    PROVE  ApInv'
  <1> USE ApAssumption
  <1>1. /\ ApTypeOK /\ Len(cores) \in Nat /\ booted \in Int /\ checked \in Nat /\ checked > 0 /\ checked > booted
        /\ checked <= booted + ApBatch + 1 /\ UNCHANGED <<cpu, startPage, apStack, own>>
    BY DEF ApInv, ApTypeOK, Hardware
  <1>2. ApTypeOK'
    BY <1>1 DEF ApTypeOK
  <1>3. ObjectsApart' /\ cpu'[ApBsp] = "idle"
    BY <1>1, Zenon DEF ApInv, ObjectsApart
  <1>4. ASSUME Late' = {} PROVE OnTime'
    <2>1. OnTime
      BY <1>1, <1>4, Zenon DEF ApInv, Late, Present
    <2>2. Settled = checked - 1 /\ Begun = booted + ApBatch
      BY Zenon DEF Settled, Begun
    <2>3. /\ Begun' = Begun /\ Settled' >= Settled
          /\ \A i \in 1 .. Len(cores) : i <= Settled' /\ cores[i].apic # ApBsp => i <= Settled
      BY <1>1, <2>2, SMTT(30) DEF Settled, Begun
    <2>4. Unchecked' \subseteq Unchecked
      BY <1>1, <2>2, <2>3 DEF Unchecked, Settled
    <2>5. SettledRun' /\ LaterWait'
      BY <1>1, <2>1, <2>3, Zenon DEF OnTime, SettledRun, LaterWait
    <2>6. \A i \in Unchecked' : PageOfCore(i)'
      BY <1>1, <2>1, <2>4, Zenon DEF OnTime, BatchSound, PageOfCore
    <2>7. BatchSound'
      BY <2>1, <2>4, <2>6, Zenon DEF OnTime, BatchSound
    <2> QED BY <1>1, <2>1, <2>5, <2>7, Zenon DEF OnTime
  <1> QED BY <1>2, <1>3, <1>4, Zenon DEF ApInv

\* A core that has left the trampoline gets its id.
LEMMA CheckIdInv ==
    ASSUME ApInv, bspPc = "check", UNCHANGED <<page, Hardware, stacks, booted, bspPc>>,
           checked \in InBatch, page[cores[checked].flag].flag = 2,
           cores' = [cores EXCEPT ![checked] = [cores[checked] EXCEPT !.id = checked]], checked' = checked + 1
    PROVE  ApInv'
  <1> USE ApAssumption
  <1>1. /\ ApTypeOK /\ Len(cores) \in Nat /\ booted \in Int /\ checked \in Nat /\ checked > 0 /\ checked > booted
        /\ checked <= booted + ApBatch + 1 /\ UNCHANGED <<cpu, startPage, apStack, own>>
        /\ cores \in Seq(CoreObjects) /\ DOMAIN cores = 1 .. Len(cores)
    BY DEF ApInv, ApTypeOK, Hardware
  <1>2. checked \in 1 .. Len(cores) /\ checked <= booted + ApBatch /\ cores[checked].apic # ApBsp
    BY <1>1, Zenon DEF InBatch
  <1> DEFINE new == [cores[checked] EXCEPT !.id = checked]
  <1>3. new \in CoreObjects /\ new.apic = cores[checked].apic /\ new.id = checked /\ new.flag = cores[checked].flag
    <2>1. cores[checked] \in CoreObjects
      BY <1>1, <1>2
    <2> QED BY <1>1, <2>1, Zenon DEF CoreObjects
  <1> HIDE DEF new
  <1>4. cores' = [cores EXCEPT ![checked] = new]
    BY Zenon DEF new
  <1>5. /\ cores' \in Seq(CoreObjects) /\ Len(cores') = Len(cores)
        /\ cores'[checked] = new /\ \A i \in 1 .. Len(cores) : i # checked => cores'[i] = cores[i]
    <2>1. cores \in Seq(CoreObjects) /\ checked \in 1 .. Len(cores) /\ new \in CoreObjects
      BY <1>1, <1>2, <1>3, Zenon
    <2> QED BY ONLY <1>4, <2>1, ElementReplaced
  <1>6. \A i \in 1 .. Len(cores) : cores'[i].apic = cores[i].apic /\ cores'[i].flag = cores[i].flag
    BY <1>3, <1>5, Zenon
  <1>7. ApTypeOK' /\ ObjectsApart' /\ cpu'[ApBsp] = "idle"
    <2>1. ApTypeOK'
      BY <1>1, <1>2, <1>5, SMTT(30) DEF ApTypeOK
    <2> QED BY <1>1, <1>5, <1>6, <2>1 DEF ApInv, ObjectsApart
  <1>8. ASSUME Late' = {} PROVE OnTime'
    <2>1. OnTime
      BY <1>1, <1>5, <1>6, <1>8, SameCores, Zenon DEF ApInv, Late
    <2>2. Settled = checked - 1 /\ Settled' = checked /\ Begun = booted + ApBatch /\ Begun' = Begun
      BY <1>1 DEF Settled, Begun
    <2>3. checked \in Unchecked /\ Unchecked' \subseteq Unchecked
      BY <1>1, <1>2, <1>5, <1>6, <2>2 DEF Unchecked
    <2>4. cpu[cores[checked].apic] \in Up
      BY <2>1, <2>3 DEF OnTime, BatchSound, PageOfCore, Unstarted, InTrampoline, Up
    <2>5. SettledRun'
      BY <1>1, <1>3, <1>5, <2>1, <2>2, <2>4 DEF OnTime, SettledRun
    <2>6. LaterWait'
      BY <1>1, <1>5, <1>6, <2>1, <2>2 DEF OnTime, LaterWait
    <2>7. ASSUME NEW i \in Unchecked' PROVE PageOfCore(i)'
      <3>1. i \in Unchecked /\ i \in 1 .. Len(cores)
        BY <2>3, Zenon DEF Unchecked
      <3>2. cores'[i].apic = cores[i].apic /\ cores'[i].flag = cores[i].flag /\ PageOfCore(i)
        BY <1>6, <2>1, <3>1, Zenon DEF OnTime, BatchSound
      <3> QED BY <1>1, <3>2, Zenon DEF PageOfCore
    <2>8. Unchecked \subseteq 1 .. Len(cores)
      BY Zenon DEF Unchecked
    <2>9. BatchSound'
      BY <1>6, <2>1, <2>3, <2>7, <2>8 DEF OnTime, BatchSound
    <2> QED BY <1>1, <2>1, <2>5, <2>6, <2>9, Zenon DEF OnTime
  <1> QED BY <1>7, <1>8, Zenon DEF ApInv

\* A core that has not started leaves the array, and the others move up.
LEMMA CheckOutInv ==
    ASSUME ApInv, bspPc = "check", UNCHANGED <<page, Hardware, stacks, bspPc>>,
           checked \in InBatch, page[cores[checked].flag].flag = 0,
           cores' = Without(checked), booted' = booted - 1, checked' = checked
    PROVE  ApInv'
  <1> USE ApAssumption
  <1>1. /\ ApTypeOK /\ Len(cores) \in Nat /\ booted \in Int /\ checked \in Nat /\ checked > 0 /\ checked > booted
        /\ checked <= booted + ApBatch + 1 /\ UNCHANGED <<cpu, startPage, apStack, own>>
        /\ cores \in Seq(CoreObjects) /\ DOMAIN cores = 1 .. Len(cores)
    BY DEF ApInv, ApTypeOK, Hardware
  <1>2. checked \in 1 .. Len(cores) /\ checked <= booted + ApBatch /\ cores[checked].apic # ApBsp
    BY <1>1, Zenon DEF InBatch
  <1> DEFINE n == Len(cores) - 1
             Old(j) == IF j < checked THEN j ELSE j + 1
             New(j) == IF j < checked THEN cores[j] ELSE [cores[j + 1] EXCEPT !.accessed = cores[j].accessed]
  <1>3. n \in Nat /\ cores' = [j \in 1 .. n |-> New(j)]
    BY <1>1, <1>2 DEF Without
  <1>4. ASSUME NEW j \in 1 .. n
        PROVE  /\ Old(j) \in 1 .. Len(cores) /\ Old(j) # checked
               /\ New(j) \in CoreObjects /\ New(j).apic = cores[Old(j)].apic /\ New(j).id = cores[Old(j)].id
               /\ New(j).flag = cores[Old(j)].flag
    <2>1. Old(j) \in 1 .. Len(cores) /\ Old(j) # checked /\ j \in 1 .. Len(cores)
      BY <1>1, <1>2, <1>3
    <2>2. cores[j] \in CoreObjects /\ cores[Old(j)] \in CoreObjects
      BY <1>1, <2>1
    <2>3. CASE j < checked
      BY <2>1, <2>2, <2>3, Zenon
    <2>4. CASE ~ j < checked
      <3> DEFINE o == cores[j + 1]
      <3>1. o \in CoreObjects /\ o = cores[Old(j)] /\ New(j) = [o EXCEPT !.accessed = cores[j].accessed]
        BY <2>2, <2>4, Zenon
      <3> HIDE DEF o, New
      <3> QED BY <2>1, <2>2, <3>1, Zenon DEF CoreObjects
    <2> QED BY <2>3, <2>4, Zenon
  <1> HIDE DEF New
  <1>5. cores' \in Seq(CoreObjects) /\ Len(cores') = n /\ DOMAIN cores' = 1 .. n
    BY <1>3, <1>4
  <1>6. \A j \in 1 .. n : /\ Old(j) \in 1 .. Len(cores) /\ Old(j) # checked /\ cores'[j].apic = cores[Old(j)].apic
                          /\ cores'[j].id = cores[Old(j)].id /\ cores'[j].flag = cores[Old(j)].flag
    BY <1>3, <1>4
  <1>7. ApTypeOK'
    BY <1>1, <1>2, <1>5 DEF ApTypeOK
  <1>8. \A i, j \in 1 .. n : Old(i) = Old(j) => i = j
    BY <1>3, <1>1, SMTT(30)
  <1>9. ObjectsApart' /\ cpu'[ApBsp] = "idle"
    <2>1. ASSUME NEW i \in 1 .. n, NEW j \in 1 .. n, cores'[i].apic = cores'[j].apic PROVE i = j
      <3>1. cores[Old(i)].apic = cores[Old(j)].apic /\ Old(i) \in 1 .. Len(cores) /\ Old(j) \in 1 .. Len(cores)
        BY <1>6, <2>1, Zenon
      <3>2. Old(i) = Old(j)
        BY <3>1, Zenon DEF ApInv, ObjectsApart
      <3> QED BY <1>8, <3>2, Zenon
    <2>2. cpu'[ApBsp] = "idle"
      BY <1>1, Zenon DEF ApInv
    <2> QED BY <1>5, <2>1, <2>2 DEF ObjectsApart
  <1>10. ASSUME Late' = {} PROVE OnTime'
    <2>1. Present' \subseteq Present
      <3> SUFFICES ASSUME NEW j \in 1 .. n PROVE cores'[j].apic \in Present
        BY <1>5 DEF Present
      <3>1. Old(j) \in DOMAIN cores /\ cores'[j].apic = cores[Old(j)].apic
        BY <1>1, <1>6, Zenon DEF ApTypeOK
      <3> HIDE DEF Old
      <3> QED BY <3>1, Zenon DEF Present
    <2>2. OnTime
      BY <1>1, <1>10, <2>1, LateForEver, Zenon DEF ApInv
    <2>3. Settled = checked - 1 /\ Settled' = checked - 1 /\ Begun = booted + ApBatch /\ Begun' = booted - 1 + ApBatch
      BY <1>1, Zenon DEF Settled, Begun
    <2>4. ASSUME NEW j \in Unchecked' PROVE Old(j) \in Unchecked /\ j \in 1 .. n
      <3>1. j \in 1 .. n /\ checked - 1 < j /\ j <= booted - 1 + ApBatch /\ cores'[j].apic # ApBsp
        BY <1>5, <2>3, <2>4, Zenon DEF Unchecked
      <3>2. Old(j) \in 1 .. Len(cores) /\ cores[Old(j)].apic # ApBsp
        BY <1>6, <3>1, Zenon
      <3>3. checked - 1 < Old(j) /\ Old(j) <= booted + ApBatch
        BY <1>1, <3>1, SMTT(30)
      <3> HIDE DEF Old
      <3> QED BY <2>3, <3>1, <3>2, <3>3, Zenon DEF Unchecked
    <2>5. \A j \in 1 .. n : j <= checked - 1 => Old(j) = j
      BY <1>1, <1>3
    <2>6. SettledRun'
      <3> SUFFICES ASSUME NEW j \in 1 .. n, j <= checked - 1, cores'[j].apic # ApBsp
                   PROVE  cores'[j].id = j /\ cpu'[cores'[j].apic] \in Up
        BY <1>5, <2>3, Zenon DEF SettledRun
      <3>1. cores'[j].apic = cores[j].apic /\ cores'[j].id = cores[j].id /\ j \in 1 .. Len(cores)
        BY <1>6, <2>5
      <3> QED BY <1>1, <2>2, <2>3, <3>1, Zenon DEF OnTime, SettledRun
    <2>7. \A j \in 1 .. n : j > booted - 1 + ApBatch => Old(j) > booted + ApBatch
      BY <1>1, <1>2, <1>3
    <2>8. LaterWait'
      <3> SUFFICES ASSUME NEW j \in 1 .. n, j > booted - 1 + ApBatch, cores'[j].apic # ApBsp
                   PROVE  cpu'[cores'[j].apic] \in {"off", "reset"}
        BY <1>5, <2>3, Zenon DEF LaterWait
      <3>1. cores'[j].apic = cores[Old(j)].apic /\ Old(j) \in 1 .. Len(cores) /\ Old(j) > booted + ApBatch
        BY <1>6, <2>7, Zenon
      <3> HIDE DEF Old
      <3> QED BY <1>1, <2>2, <2>3, <3>1, Zenon DEF OnTime, LaterWait
    <2>9. ASSUME NEW j \in Unchecked' PROVE PageOfCore(j)'
      <3>1. Old(j) \in Unchecked /\ j \in 1 .. n
        BY <2>4, Zenon
      <3>2. cores'[j].apic = cores[Old(j)].apic /\ cores'[j].flag = cores[Old(j)].flag /\ PageOfCore(Old(j))
        BY <1>6, <2>2, <3>1, Zenon DEF OnTime, BatchSound
      <3> HIDE DEF Old
      <3> QED BY <1>1, <3>2, Zenon DEF PageOfCore
    <2>10. \A i, j \in Unchecked' : cores'[i].flag = cores'[j].flag => i = j
      <3> TAKE i, j \in Unchecked'
      <3>1. Old(i) \in Unchecked /\ Old(j) \in Unchecked /\ i \in 1 .. n /\ j \in 1 .. n
        BY <2>4, Zenon
      <3>2. cores[Old(i)].flag = cores[Old(j)].flag => Old(i) = Old(j)
        BY <1>1, <2>2, <3>1, Zenon DEF OnTime, BatchSound
      <3> HIDE DEF Old
      <3> QED BY <1>6, <1>8, <3>1, <3>2, Zenon
    <2>11. BatchSound'
      BY <2>9, <2>10, Zenon DEF BatchSound
    <2> QED BY <1>1, <2>2, <2>6, <2>8, <2>11, Zenon DEF OnTime
  <1> QED BY <1>7, <1>9, <1>10, Zenon DEF ApInv

\* Checking a core gives it its id, or takes it out of the array.
LEMMA ApCheckInv == ASSUME ApInv, ApCheck PROVE ApInv'
  <1>1. bspPc = "check" /\ UNCHANGED <<page, Hardware, stacks>>
    BY Zenon DEF ApCheck
  <1>2. CASE /\ checked \in InBatch /\ page[cores[checked].flag].flag = 0
             /\ bspPc' = "panic" /\ UNCHANGED <<cores, booted, checked>>
    <2>1. ApTypeOK /\ UNCHANGED <<cpu, startPage, apStack, own>>
      BY <1>1, Zenon DEF ApInv, Hardware
    <2>2. ApTypeOK' /\ ObjectsApart' /\ cpu'[ApBsp] = "idle"
      BY <1>1, <1>2, <2>1, Zenon DEF ApInv, ApTypeOK, ObjectsApart
    <2>3. Late' = {} => OnTime'
      BY <1>1, <1>2, <2>1, Zenon DEF ApInv, Late, Present, OnTime
    <2> QED BY <2>2, <2>3, Zenon DEF ApInv
  <1> QED BY <1>1, <1>2, CheckPassInv, CheckIdInv, CheckOutInv, Zenon DEF ApCheck, Stays

\* A step of a core that leaves the bootstrap processor's variables alone.
LEMMA SameBatch ==
    ASSUME UNCHANGED <<booted, bspPc, checked>>, Len(cores') = Len(cores), Len(cores) \in Nat,
           \A i \in 1 .. Len(cores) : cores'[i].apic = cores[i].apic
    PROVE  Settled' = Settled /\ Begun' = Begun /\ Unchecked' = Unchecked
  <1>1. Settled' = Settled /\ Begun' = Begun
    BY Zenon DEF Settled, Begun
  <1> QED BY <1>1, Zenon DEF Unchecked

\* A core that is in the trampoline, or about to enter it, is one of those that the
\* bootstrap processor has not come to.
LEMMA StartingIsUnchecked ==
    ASSUME ApInv, OnTime, bspPc # "panic", NEW c \in Cpus, c \in Present, cpu[c] \in {"sipi"} \cup InTrampoline
    PROVE  \E i \in Unchecked : cores[i].apic = c
  <1>1. PICK i \in 1 .. Len(cores) : cores[i].apic = c
    BY DEF Present, ApInv, ApTypeOK
  <1>2. c # ApBsp
    BY Zenon DEF ApInv, InTrampoline
  <1>3. ~ i <= Settled
    BY <1>1, <1>2, Zenon DEF OnTime, SettledRun, Up, InTrampoline
  <1>4. ~ i > Begun
    BY <1>1, <1>2, Zenon DEF OnTime, LaterWait, InTrampoline
  <1>5. Settled \in Int /\ Begun \in Int
    BY ApAssumption DEF Settled, Begun, ApInv, ApTypeOK
  <1> QED BY <1>1, <1>2, <1>3, <1>4, <1>5 DEF Unchecked

\* A core goes on in the trampoline: its flag follows, no other does.
LEMMA FlagInv ==
    ASSUME ApInv, NEW c \in Cpus, bspPc # "panic", page' = Raised(startPage[c]),
           NEW s \in {"tramp", "lookup"}, cpu' = [cpu EXCEPT ![c] = s],
           \/ cpu[c] = "sipi" /\ s = "tramp"
           \/ cpu[c] = "stacked" /\ s = "lookup",
           UNCHANGED <<cores, booted, bspPc, checked, startPage, apStack, own, stacks>>
    PROVE  ApInv'
  <1> USE ApAssumption
  <1>1. /\ ApTypeOK /\ startPage[c] \in 0 .. ApBatch /\ page \in [1 .. ApBatch -> Pages] /\ Len(cores) \in Nat
        /\ page' = [page EXCEPT ![startPage[c]] = [flag |-> page[startPage[c]].flag + 1, stack |-> page[startPage[c]].stack]]
        /\ cpu' \in [Cpus -> Unstarted \cup InTrampoline \cup Up \cup {"panic"}] /\ cpu'[c] = s
        /\ \A d \in Cpus : d # c => cpu'[d] = cpu[d]
    BY DEF ApInv, ApTypeOK, Raised, Unstarted, InTrampoline, Up
  <1>2. page' \in [1 .. ApBatch -> Pages]
    <2>1. CASE startPage[c] \in 1 .. ApBatch
      <3>1. page[startPage[c]] \in Pages
        BY <1>1, <2>1, Zenon
      <3>2. [flag |-> page[startPage[c]].flag + 1, stack |-> page[startPage[c]].stack] \in Pages
        BY <3>1 DEF Pages
      <3> QED BY <1>1, <3>2, Zenon
    <2>2. CASE startPage[c] \notin 1 .. ApBatch
      BY <1>1, <2>2, Zenon
    <2> QED BY <2>1, <2>2, Zenon
  <1>3. ApTypeOK'
    BY <1>1, <1>2, Zenon DEF ApTypeOK
  <1>4. ObjectsApart' /\ cpu'[ApBsp] = "idle"
    BY <1>1, Zenon DEF ApInv, ObjectsApart, Cpus
  <1>5. ASSUME Late' = {} PROVE OnTime'
    <2>1. Present' = Present /\ \A d \in Cpus : cpu[d] \notin Unstarted => cpu'[d] \notin Unstarted
      BY <1>1 DEF Present, Unstarted
    <2>2. OnTime
      BY <1>1, <1>5, <2>1, LateForEver, Zenon DEF ApInv
    <2>3. c \in Present
      BY <1>1, <1>5, <2>1, Zenon DEF Late
    <2>4. PICK k \in Unchecked : cores[k].apic = c
      BY <2>2, <2>3, StartingIsUnchecked, Zenon DEF InTrampoline
    <2>5. Settled' = Settled /\ Begun' = Begun /\ Unchecked' = Unchecked
      BY <1>1, SameBatch, Zenon
    <2>6. \A i \in Unchecked : i \in 1 .. Len(cores) /\ cores[i].apic \in Cpus
      BY <1>1, ApicOfCore, Zenon DEF Unchecked
    <2>7. \A i \in 1 .. Len(cores) : cores[i].apic = c => i = k
      BY <2>4, <2>6, Zenon DEF ApInv, ObjectsApart
    <2>8. Settled \in Int /\ Begun \in Int /\ k > Settled /\ ~ k > Begun
      BY <1>1, <2>4 DEF Settled, Begun, Unchecked, ApTypeOK
    <2>9. SettledRun' /\ LaterWait'
      BY <1>1, <2>2, <2>5, <2>7, <2>8, ApicOfCore DEF OnTime, SettledRun, LaterWait
    <2>10. startPage[c] = cores[k].flag /\ PageOfCore(k) /\ cores[k].flag \in 1 .. ApBatch
      BY <2>2, <2>4, Zenon DEF OnTime, BatchSound, PageOfCore, InTrampoline
    <2>11. /\ page'[cores[k].flag].flag = page[cores[k].flag].flag + 1
           /\ \A p \in 1 .. ApBatch : p # cores[k].flag => page'[p] = page[p]
           /\ \A p \in 1 .. ApBatch : page'[p].stack = page[p].stack
      BY <1>1, <2>10
    <2>12. ASSUME NEW i \in Unchecked PROVE PageOfCore(i)'
      <3>1. CASE i = k
        BY <1>1, <2>4, <2>10, <2>11, <3>1, SMTT(30) DEF PageOfCore, Unstarted, InTrampoline, Up
      <3>2. CASE i # k
        <4>1. cores[i].flag # cores[k].flag /\ PageOfCore(i) /\ cores[i].apic \in Cpus /\ cores[i].apic # c
          BY <2>2, <2>4, <2>6, <2>7, <3>2, Zenon DEF OnTime, BatchSound
        <4> QED BY <1>1, <2>11, <4>1 DEF PageOfCore
      <3> QED BY <3>1, <3>2, ZenonT(40)
    <2>13. BatchSound'
      BY <2>2, <2>5, <2>12, Zenon DEF OnTime, BatchSound
    <2> QED BY <1>1, <2>2, <2>9, <2>13, Zenon DEF OnTime
  <1> QED BY <1>3, <1>4, <1>5, Zenon DEF ApInv

\* A core in the trampoline takes the stack of its page.
LEMMA TrampolineStackInv == ASSUME ApInv, NEW c \in Cpus, TrampolineStack(c) PROVE ApInv'
  <1> USE ApAssumption
  <1>1. /\ ApTypeOK /\ cpu[c] = "tramp" /\ bspPc # "panic" /\ cpu' = [cpu EXCEPT ![c] = "stacked"]
        /\ apStack' = [apStack EXCEPT ![c] = page[startPage[c]].stack]
        /\ UNCHANGED <<cores, booted, bspPc, checked, page, startPage, own, stacks>>
        /\ cpu' \in [Cpus -> Unstarted \cup InTrampoline \cup Up \cup {"panic"}] /\ cpu'[c] = "stacked"
        /\ \A d \in Cpus : d # c => cpu'[d] = cpu[d]
        /\ Len(cores) \in Nat
    BY DEF ApInv, ApTypeOK, TrampolineStack, StackPage, Running, Unstarted, InTrampoline, Up
  <1>2. ObjectsApart' /\ cpu'[ApBsp] = "idle"
    BY <1>1, Zenon DEF ApInv, ObjectsApart, Cpus
  <1>3. ApTypeOK'
    BY <1>1, Zenon DEF ApTypeOK
  <1>4. ASSUME Late' = {} PROVE OnTime'
    <2>1. Present' = Present /\ \A d \in Cpus : cpu[d] \notin Unstarted => cpu'[d] \notin Unstarted
      BY <1>1, Zenon DEF Present, Unstarted
    <2>2. OnTime
      BY <1>1, <1>4, <2>1, LateForEver, Zenon DEF ApInv
    <2>3. c \in Present
      BY <1>1, <1>4, <2>1, Zenon DEF Late
    <2>4. PICK k \in Unchecked : cores[k].apic = c
      BY <1>1, <2>2, <2>3, StartingIsUnchecked, Zenon DEF InTrampoline
    <2>5. Settled' = Settled /\ Begun' = Begun /\ Unchecked' = Unchecked
      BY <1>1, SameBatch, Zenon
    <2>6. \A i \in Unchecked : i \in 1 .. Len(cores) /\ cores[i].apic \in Cpus
      BY <1>1, ApicOfCore, Zenon DEF Unchecked
    <2>7. \A i \in 1 .. Len(cores) : cores[i].apic = c => i = k
      BY <2>4, <2>6, Zenon DEF ApInv, ObjectsApart
    <2>8. Settled \in Int /\ Begun \in Int /\ k > Settled /\ ~ k > Begun
      BY <1>1, <2>4 DEF Settled, Begun, Unchecked, ApTypeOK
    <2>9. SettledRun' /\ LaterWait'
      BY <1>1, <2>2, <2>5, <2>7, <2>8, ApicOfCore DEF OnTime, SettledRun, LaterWait
    <2> DEFINE q == cores[k].flag
    <2>10. startPage[c] = q /\ PageOfCore(k) /\ q \in 1 .. ApBatch
      BY <1>1, <2>2, <2>4, Zenon DEF OnTime, BatchSound, PageOfCore, InTrampoline
    <2>11. page[q].stack \in Nat /\ page[q].stack = stacks - ApBatch + q /\ page[q].stack <= stacks
      BY <1>1, <2>10 DEF PageOfCore, ApTypeOK, Pages
    <2>12. \A d \in Cpus : d # c => apStack[d] # page[q].stack
      BY <2>4, <2>10, Zenon DEF PageOfCore
    <2>13. /\ apStack' \in [Cpus -> Nat] /\ apStack'[c] = page[q].stack
           /\ \A d \in Cpus : d # c => apStack'[d] = apStack[d]
      BY <1>1, <2>2, <2>10, <2>11, Zenon DEF OnTime
    <2> HIDE DEF q
    <2>14. ASSUME NEW i \in Unchecked PROVE PageOfCore(i)'
      <3>1. CASE i = k
        BY <1>1, <2>4, <2>10, <2>13, <3>1, Zenon DEF PageOfCore, Unstarted, InTrampoline, Up
      <3>2. CASE i # k
        <4>1. cores[i].flag # q /\ PageOfCore(i) /\ cores[i].apic \in Cpus /\ cores[i].apic # c
          BY <1>1, <2>2, <2>4, <2>6, <2>7, <3>2, Zenon DEF OnTime, BatchSound, q
        <4>2. page[cores[i].flag].stack # page[q].stack
          <5>1. page[cores[i].flag].stack = stacks - ApBatch + cores[i].flag /\ cores[i].flag \in 1 .. ApBatch
            BY <4>1, Zenon DEF PageOfCore
          <5> QED BY <1>1, <2>10, <2>11, <4>1, <5>1 DEF ApTypeOK
        <4>3. \A d \in Cpus : d # cores[i].apic => apStack'[d] # page[cores[i].flag].stack
          <5> TAKE d \in Cpus
          <5>1. CASE d = c
            BY <2>13, <4>2, <5>1, Zenon
          <5>2. CASE d # c
            BY <2>13, <4>1, <5>2, Zenon DEF PageOfCore
          <5> QED BY <5>1, <5>2, Zenon
        <4> QED BY <1>1, <4>1, <4>3 DEF PageOfCore
      <3> QED BY <3>1, <3>2, Zenon
    <2>15. BatchSound'
      BY <1>1, <2>2, <2>5, <2>14, Zenon DEF OnTime, BatchSound
    <2>16. \A d, e \in Cpus : d # e /\ apStack'[d] # 0 => apStack'[d] # apStack'[e]
      BY <2>2, <2>12, <2>13, Zenon DEF OnTime
    <2>17. \A d \in Cpus : apStack'[d] <= stacks
      BY <2>2, <2>11, <2>13, Zenon DEF OnTime
    <2> QED BY <1>1, <2>2, <2>9, <2>13, <2>15, <2>16, <2>17, Zenon DEF OnTime
  <1> QED BY <1>2, <1>3, <1>4, Zenon DEF ApInv

\* A core that has left the trampoline finds its object, and marks it.
LEMMA UpInv ==
    ASSUME ApInv, NEW c \in Cpus, bspPc # "panic", cpu[c] \in Up,
           NEW s \in {"found", "idle", "panic"}, cpu' = [cpu EXCEPT ![c] = s], c = ApBsp => s = "idle",
           s = "panic" => c \notin Present,
           cores' \in Seq(CoreObjects), Len(cores') = Len(cores),
           \A i \in 1 .. Len(cores) : cores'[i].apic = cores[i].apic /\ cores'[i].id = cores[i].id
                                      /\ cores'[i].flag = cores[i].flag,
           UNCHANGED <<booted, bspPc, checked, page, startPage, apStack, stacks>>
    PROVE  ApInv'
  <1> USE ApAssumption
  <1>1. /\ ApTypeOK /\ Len(cores) \in Nat
        /\ cpu' \in [Cpus -> Unstarted \cup InTrampoline \cup Up \cup {"panic"}] /\ cpu'[c] = s
        /\ \A d \in Cpus : d # c => cpu'[d] = cpu[d]
    BY DEF ApInv, ApTypeOK, Unstarted, InTrampoline, Up
  <1>2. ApTypeOK'
    BY <1>1, Zenon DEF ApTypeOK
  <1>3. ObjectsApart' /\ cpu'[ApBsp] = "idle"
    BY <1>1, Zenon DEF ApInv, ObjectsApart, Cpus
  <1>4. ASSUME Late' = {} PROVE OnTime'
    <2>1. Present' = Present /\ \A d \in Cpus : cpu[d] \notin Unstarted => cpu'[d] \notin Unstarted
      BY <1>1, SameCores, Zenon DEF Unstarted
    <2>2. OnTime
      BY <1>1, <1>4, <2>1, LateForEver, Zenon DEF ApInv
    <2>3. s \in Up
      BY <1>1, <1>4, <2>1, Zenon DEF Late, Up
    <2>4. Settled' = Settled /\ Begun' = Begun /\ Unchecked' = Unchecked /\ Unchecked \subseteq 1 .. Len(cores)
      BY <1>1, SameBatch, Zenon DEF Unchecked
    <2>5. \A d \in Cpus : /\ cpu[d] \in Up <=> cpu'[d] \in Up
                          /\ cpu[d] \notin Up => cpu'[d] = cpu[d]
      BY <1>1, <2>3, Zenon
    <2>6. SettledRun'
      BY <1>1, <2>2, <2>4, <2>5, ApicOfCore, ZenonT(40) DEF OnTime, SettledRun
    <2>7. LaterWait'
      BY <1>1, <2>2, <2>4, <2>5, ApicOfCore DEF OnTime, LaterWait, Up
    <2>8. ASSUME NEW i \in Unchecked PROVE PageOfCore(i)'
      <3>1. PageOfCore(i) /\ i \in 1 .. Len(cores) /\ cores[i].apic \in Cpus
        BY <1>1, <2>2, <2>4, ApicOfCore, Zenon DEF OnTime, BatchSound
      <3> QED BY <1>1, <2>5, <3>1, ZenonT(40) DEF PageOfCore, Unstarted, InTrampoline, Up
    <2>9. BatchSound'
      BY <2>2, <2>4, <2>8 DEF OnTime, BatchSound
    <2> QED BY <1>1, <2>2, <2>6, <2>7, <2>9, Zenon DEF OnTime
  <1> QED BY <1>2, <1>3, <1>4, Zenon DEF ApInv

\* A step of a processor keeps the invariant.
LEMMA ApCpuInv ==
    ASSUME ApInv, NEW c \in Cpus, TrampolineStart(c) \/ TrampolineStack(c) \/ TrampolineEnd(c) \/ ApLookup(c) \/ ApAccess(c)
    PROVE  ApInv'
  <1>1. CASE TrampolineStart(c)
    BY <1>1, FlagInv, Zenon DEF TrampolineStart, Running
  <1>2. CASE TrampolineStack(c)
    BY <1>2, TrampolineStackInv, Zenon
  <1>3. CASE TrampolineEnd(c)
    BY <1>3, FlagInv, Zenon DEF TrampolineEnd, Running
  <1>4. c # ApBsp \/ cpu[c] = "idle"
    BY Zenon DEF ApInv
  <1>5. CASE ApLookup(c)
    <2>1. /\ cpu[c] = "lookup" /\ bspPc # "panic" /\ UNCHANGED <<cores, booted, bspPc, checked, page, startPage, apStack, stacks>>
          /\ \/ cpu' = [cpu EXCEPT ![c] = "found"]
             \/ cpu' = [cpu EXCEPT ![c] = "panic"] /\ c \notin Present
      BY <1>5, Zenon DEF ApLookup, Running, Present
    <2>2. cores \in Seq(CoreObjects)
      BY Zenon DEF ApInv, ApTypeOK
    <2> QED BY <1>4, <2>1, <2>2, UpInv, Zenon DEF Up
  <1>6. CASE ApAccess(c)
    <2> DEFINE New(i) == IF i = own[c] THEN [cores[i] EXCEPT !.accessed = TRUE] ELSE cores[i]
    <2>1. /\ cpu[c] = "found" /\ bspPc # "panic" /\ cpu' = [cpu EXCEPT ![c] = "idle"]
          /\ cores' = [i \in DOMAIN cores |-> New(i)]
          /\ UNCHANGED <<booted, bspPc, checked, page, startPage, apStack, stacks>>
      BY <1>6, Zenon DEF ApAccess, Running
    <2>2. cores \in Seq(CoreObjects) /\ DOMAIN cores = 1 .. Len(cores) /\ Len(cores) \in Nat
      BY DEF ApInv, ApTypeOK
    <2>3. ASSUME NEW i \in 1 .. Len(cores)
          PROVE  New(i) \in CoreObjects /\ New(i).apic = cores[i].apic /\ New(i).id = cores[i].id /\ New(i).flag = cores[i].flag
      <3>1. cores[i] \in CoreObjects
        BY <2>2
      <3> QED BY <3>1, Zenon DEF CoreObjects
    <2> HIDE DEF New
    <2>4. /\ cores' \in Seq(CoreObjects) /\ Len(cores') = Len(cores)
          /\ \A i \in 1 .. Len(cores) : cores'[i] = New(i)
      BY <2>1, <2>2, <2>3
    <2> QED BY <2>1, <2>3, <2>4, UpInv, Zenon DEF Up
  <1> QED BY <1>1, <1>2, <1>3, <1>5, <1>6, Zenon

\* mp::boot gives every core an identity and a stack of its own: for any number of
\* cores, any batch, and whatever cores are dead, miss the first startup IPI or
\* are slow, as long as none starts after it has been given up.
THEOREM CoresKeptApart == ApSpec => []CoresApart
  <1>1. ApInit => ApInv
    BY ApInitInv, Zenon
  <1>2. ApInv /\ [ApNext]_apVars => ApInv'
    <2> SUFFICES ASSUME ApInv, [ApNext]_apVars PROVE ApInv'
      BY Zenon
    <2>1. CASE UNCHANGED apVars
      <3>1. UNCHANGED <<cores, booted, bspPc, checked, page, cpu, startPage, apStack, own, stacks>>
        BY <2>1, Zenon DEF apVars
      <3>2. ApTypeOK' /\ ObjectsApart' /\ (Late' = {} <=> Late = {})
        BY <3>1 DEF ApInv, ApTypeOK, ObjectsApart, Late, Present
      <3>3. Settled' = Settled /\ Begun' = Begun /\ Unchecked' = Unchecked
        BY <3>1, ZenonT(40) DEF Settled, Begun, Unchecked
      <3>4. OnTime => OnTime'
        BY <3>1, <3>3 DEF OnTime, SettledRun, LaterWait, BatchSound, PageOfCore
      <3> QED BY <3>1, <3>2, <3>4, Zenon DEF ApInv
    <2> QED BY <2>1, ApResetInv, ApPrepareInv, ApSipiInv, ApCheckInv, ApCpuInv, Zenon DEF ApNext
  <1>3. ApInv => CoresApart
    <2> SUFFICES ASSUME ApInv PROVE IdsMatchIndices /\ StacksApart
      BY Zenon DEF CoresApart
    <2>1. StacksApart
      BY Zenon DEF ApInv, OnTime, StacksApart
    <2>2. ASSUME bspPc = "done", Late = {}, NEW i \in DOMAIN cores
          PROVE  cores[i].id = i /\ (cores[i].apic = ApBsp \/ cpu[cores[i].apic] \in {"lookup", "found", "idle"})
      <3>1. OnTime /\ i \in 1 .. Len(cores) /\ Settled = booted /\ booted \in Nat /\ Len(cores) \in Nat
        BY <2>2, SMTT(30) DEF ApInv, ApTypeOK, Settled
      <3>2. cores[i].id = i /\ i <= Settled
        BY <2>2, <3>1 DEF OnTime
      <3> QED BY <2>2, <3>1, <3>2, Zenon DEF OnTime, SettledRun, Up
    <2> QED BY <2>1, <2>2, Zenon DEF IdsMatchIndices
  <1> QED BY <1>1, <1>2, <1>3, PTL DEF ApSpec

-----------------------------------------------------------------------------
(* Contexts of threads (Context) *)

\* The code selector that goes with a rip.
CsOf(ip) == IF Upper(ip) THEN 8 ELSE 27

Contexts == [ip : Contents, gen : Contents, rf : Contents, cd : Contents, r11 : Contents,
             cs : {8, 27}, ss : {16, 35}, sysret : BOOLEAN]
LiveRegisters == [ip : Contents, gen : Contents, rf : Contents, cd : Contents, r11 : Contents,
                  cs : {8, 27}, ss : {16, 19, 35}]
StoppedRegisters == [ip : Contents, gen : Contents, rf : Contents, cd : Contents \cup {CtxNone},
                     r11 : Contents \cup {CtxNone}, cs : {8, 27}, ss : {16, 35}]
SyscallFrames == [ip : Contents, gen : Contents, rf : Contents, iret : IretFrames \cup {CtxNone}]

CtxTypeOK ==
    /\ running \in CtxThreads /\ ctxs \in [CtxThreads -> Contexts]
    /\ wanted \in [CtxThreads -> StoppedRegisters \cup {CtxNone}]
    /\ ctxStep \in {"run", "syscall", "interrupt", "load", "continue"} /\ entered \in {"syscall", "interrupt"}
    /\ ctxStep \in {"syscall", "interrupt"} => entered = ctxStep
    /\ ctxStep = "run" => live \in LiveRegisters
    /\ stale \in BOOLEAN

\* Code and privileges go together wherever registers are kept, and sysretq is for user space only.
SelectorsFit ==
    /\ \A t \in CtxThreads : ctxs[t].cs = CsOf(ctxs[t].ip) /\ (ctxs[t].sysret => ~ Upper(ctxs[t].ip))
    /\ ctxStep = "run" => live.cs = CsOf(live.ip)

\* The context of a thread has what the thread has to go on with.
Saved(t) ==
    /\ wanted[t] \in StoppedRegisters
    /\ wanted[t].ip = ctxs[t].ip /\ wanted[t].gen = ctxs[t].gen /\ wanted[t].rf = ctxs[t].rf
    /\ wanted[t].cs = ctxs[t].cs
    /\ ctxs[t].sysret => wanted[t].cd = CtxNone /\ wanted[t].r11 = CtxNone
    /\ ~ ctxs[t].sysret => (wanted[t].cd # CtxNone => wanted[t].cd = ctxs[t].cd)
                           /\ (wanted[t].r11 # CtxNone => wanted[t].r11 = ctxs[t].r11)

AllSaved == \A t \in CtxThreads : t # running \/ ctxStep \in {"load", "continue"} => Saved(t)

\* The handler's copy of the registers.
SyscallFrameSound ==
    ctxStep # "run" /\ entered = "syscall" =>
        /\ frame \in SyscallFrames
        /\ frame.iret # CtxNone => frame.iret.cs = CsOf(frame.iret.ip)
        /\ ctxStep = "syscall" =>
              /\ frame.iret = CtxNone /\ wanted[running] \in StoppedRegisters
              /\ wanted[running].ip = frame.ip /\ wanted[running].gen = frame.gen /\ wanted[running].rf = frame.rf
              /\ wanted[running].cs = CsOf(frame.ip)
              /\ wanted[running].cd = CtxNone /\ wanted[running].r11 = CtxNone
        /\ ctxStep = "load" /\ ~ stale => frame.iret = CtxNone
        /\ ctxStep = "continue" /\ ~ stale =>
              LET c == ctxs[running]
              IN  /\ frame.gen = c.gen
                  /\ c.sysret => frame.iret = CtxNone /\ frame.ip = c.ip /\ frame.rf = c.rf
                  /\ ~ c.sysret => /\ frame.iret \in IretFrames /\ frame.iret.ip = c.ip /\ frame.iret.rf = c.rf
                                   /\ frame.iret.cs = c.cs /\ frame.ip = c.cd /\ frame.rf = c.r11

InterruptFrameSound ==
    ctxStep # "run" /\ entered = "interrupt" =>
        /\ frame \in LiveRegisters /\ frame.ss # 19 /\ frame.cs = CsOf(frame.ip) 
        /\ ctxStep = "interrupt" => wanted[running] \in StoppedRegisters /\ wanted[running].ip = frame.ip /\ wanted[running].gen = frame.gen
              /\ wanted[running].rf = frame.rf /\ wanted[running].cs = frame.cs
              /\ wanted[running].cd = frame.cd /\ wanted[running].r11 = frame.r11
        /\ ctxStep = "continue" => frame = InterruptLoad(ctxs[running])
        /\ ~ stale

CtxInv == CtxTypeOK /\ SelectorsFit /\ AllSaved /\ SyscallFrameSound /\ InterruptFrameSound

\* The registers of a thread that has worked, by their types.
LEMMA NewRegisters ==
    ASSUME NEW t \in CtxThreads, NEW v \in {0, 1}
    PROVE  /\ Registers(t, v) \in LiveRegisters /\ Registers(t, v).ss # 19
           /\ Registers(t, v).cs = CsOf(Registers(t, v).ip)
           /\ Registers(t, v).cs \in {8, 27}
  <1>1. <<t, v>> \in Contents
    BY Zenon DEF Contents
  <1>2. <<t, v>>[1] = t
    BY Zenon
  <1>3. CodeOf(t) = CsOf(<<t, v>>)
    BY <1>2, CtxAssumption, Zenon DEF CodeOf, CsOf, Upper, CtxThreads
  <1> QED BY <1>1, <1>3 DEF Registers, LiveRegisters, CodeOf, StackOf

\* The initial states satisfy the invariant.
LEMMA CtxInitInv == CtxInit => CtxInv
  <1> SUFFICES ASSUME CtxInit PROVE CtxInv
    BY Zenon
  <1>1. running \in CtxThreads
    BY CtxAssumption, Zenon DEF CtxInit, CtxThreads
  <1>2. \A t \in CtxThreads : Registers(t, 0) \in LiveRegisters /\ Registers(t, 0).ss # 19
                              /\ Registers(t, 0).cs = CsOf(Registers(t, 0).ip)
    BY NewRegisters, Zenon
  <1>3. ASSUME NEW t \in CtxThreads
        PROVE  /\ NewContext(t) \in Contexts /\ NewContext(t).cs = CsOf(NewContext(t).ip) /\ ~ NewContext(t).sysret
               /\ Registers(t, 0) \in StoppedRegisters /\ NewContext(t) = [ip |-> Registers(t, 0).ip, gen |-> Registers(t, 0).gen,
                     rf |-> Registers(t, 0).rf, cd |-> Registers(t, 0).cd, r11 |-> Registers(t, 0).r11,
                     cs |-> Registers(t, 0).cs, ss |-> Registers(t, 0).ss, sysret |-> FALSE]
    <2> DEFINE r == Registers(t, 0)
    <2>1. r \in LiveRegisters /\ r.ss # 19 /\ r.cs = CsOf(r.ip)
      BY <1>2, Zenon
    <2>2. NewContext(t) = [ip |-> r.ip, gen |-> r.gen, rf |-> r.rf, cd |-> r.cd, r11 |-> r.r11, cs |-> r.cs,
                           ss |-> r.ss, sysret |-> FALSE]
      BY Zenon DEF NewContext
    <2> HIDE DEF r
    <2> QED BY <2>1, <2>2 DEF LiveRegisters, StoppedRegisters, Contexts, r
  <1>4. CtxTypeOK
    BY <1>1, <1>2, <1>3, Zenon DEF CtxInit, CtxTypeOK
  <1>5. SelectorsFit
    BY <1>1, <1>2, <1>3, Zenon DEF CtxInit, SelectorsFit
  <1>6. ASSUME NEW t \in CtxThreads, t # running PROVE Saved(t)
    <2>1. ctxs[t] = NewContext(t) /\ wanted[t] = Registers(t, 0)
      BY <1>6, Zenon DEF CtxInit
    <2> QED BY <1>3, <2>1 DEF Saved
  <1>7. AllSaved
    BY <1>6, Zenon DEF CtxInit, AllSaved
  <1> QED BY <1>4, <1>5, <1>7, Zenon DEF CtxInit, CtxInv, SyscallFrameSound, InterruptFrameSound

\* A thread that works keeps the contexts of the others.
LEMMA CtxWorkInv == ASSUME CtxInv, CtxWork PROVE CtxInv'
  <1>1. /\ ctxStep = "run" /\ live \in LiveRegisters /\ running \in CtxThreads
        /\ live' = [Registers(running, 1 - live.gen[2]) EXCEPT !.ss = live.ss]
        /\ UNCHANGED <<running, ctxs, ctxStep, entered, frame, blocked, wanted, stale>>
    BY Zenon DEF CtxInv, CtxTypeOK, CtxWork
  <1>2. 1 - live.gen[2] \in {0, 1}
    BY <1>1 DEF LiveRegisters, Contents
  <1> DEFINE r == Registers(running, 1 - live.gen[2])
  <1>3. r \in LiveRegisters /\ r.cs = CsOf(r.ip)
    BY <1>1, <1>2, NewRegisters, Zenon
  <1> HIDE DEF r
  <1>4. live' \in LiveRegisters /\ live'.cs = CsOf(live'.ip)
    BY <1>1, <1>3, Zenon DEF LiveRegisters, r
  <1>5. CtxTypeOK' /\ SelectorsFit'
    BY <1>1, <1>4, Zenon DEF CtxInv, CtxTypeOK, SelectorsFit, CsOf, Upper
  <1>6. AllSaved'
    BY <1>1, Zenon DEF CtxInv, AllSaved, Saved
  <1> QED BY <1>1, <1>5, <1>6, Zenon DEF CtxInv, SyscallFrameSound, InterruptFrameSound

\* Entering a system call saves what the frame holds, and loses rcx and r11 only.
LEMMA CtxSyscallInv == ASSUME CtxInv, CtxSyscall PROVE CtxInv'
  <1> DEFINE w == [live EXCEPT !.cd = CtxNone, !.r11 = CtxNone, !.ss = StackOf(running)]
  <1>1. /\ ctxStep = "run" /\ live \in LiveRegisters /\ running \in CtxThreads /\ live.cs = CsOf(live.ip)
        /\ frame' = [ip |-> live.ip, gen |-> live.gen, rf |-> live.rf, iret |-> CtxNone]
        /\ wanted' = [wanted EXCEPT ![running] = w]
        /\ ctxStep' = "syscall" /\ entered' = "syscall" /\ stale' = FALSE
        /\ UNCHANGED <<running, ctxs>>
    BY Zenon DEF CtxInv, CtxTypeOK, SelectorsFit, CtxSyscall
  <1>2. /\ w \in StoppedRegisters /\ w.ip = live.ip /\ w.gen = live.gen /\ w.rf = live.rf /\ w.cs = live.cs
        /\ w.cd = CtxNone /\ w.r11 = CtxNone
    BY <1>1, Zenon DEF LiveRegisters, StoppedRegisters, StackOf
  <1> HIDE DEF w
  <1>3. CtxTypeOK' /\ SelectorsFit'
    BY <1>1, <1>2, Zenon DEF CtxInv, CtxTypeOK, SelectorsFit, CsOf, Upper
  <1>4. wanted'[running] = w /\ \A t \in CtxThreads : t # running => wanted'[t] = wanted[t]
    BY <1>1, Zenon DEF CtxInv, CtxTypeOK
  <1>5. AllSaved'
    BY <1>1, <1>4 DEF CtxInv, AllSaved, Saved
  <1>6. SyscallFrameSound'
    BY <1>1, <1>2, <1>4, Zenon DEF SyscallFrameSound, SyscallFrames, LiveRegisters, CsOf, Upper
  <1> QED BY <1>1, <1>3, <1>5, <1>6, Zenon DEF CtxInv, InterruptFrameSound

\* Entering an interrupt saves all registers.
LEMMA CtxInterruptInv == ASSUME CtxInv, CtxInterrupt PROVE CtxInv'
  <1> DEFINE w == [live EXCEPT !.ss = StackOf(running)]
  <1>1. /\ ctxStep = "run" /\ live \in LiveRegisters /\ running \in CtxThreads /\ live.cs = CsOf(live.ip)
        /\ frame' = [live EXCEPT !.ss = StackFixed(live.ss)]
        /\ wanted' = [wanted EXCEPT ![running] = w]
        /\ ctxStep' = "interrupt" /\ entered' = "interrupt" /\ stale' = FALSE
        /\ UNCHANGED <<running, ctxs>>
    BY Zenon DEF CtxInv, CtxTypeOK, SelectorsFit, CtxInterrupt
  <1>2. /\ w \in StoppedRegisters /\ w.ip = live.ip /\ w.gen = live.gen /\ w.rf = live.rf /\ w.cs = live.cs
        /\ w.cd = live.cd /\ w.r11 = live.r11
    BY <1>1, Zenon DEF LiveRegisters, StoppedRegisters, StackOf
  <1> HIDE DEF w
  <1>3. CtxTypeOK' /\ SelectorsFit'
    BY <1>1, <1>2, Zenon DEF CtxInv, CtxTypeOK, SelectorsFit, CsOf, Upper
  <1>4. wanted'[running] = w /\ \A t \in CtxThreads : t # running => wanted'[t] = wanted[t]
    BY <1>1, Zenon DEF CtxInv, CtxTypeOK
  <1>5. AllSaved'
    BY <1>1, <1>4 DEF CtxInv, AllSaved, Saved
  <1>6. /\ frame' \in LiveRegisters /\ frame'.ss # 19 /\ frame'.ip = live.ip /\ frame'.gen = live.gen
        /\ frame'.rf = live.rf /\ frame'.cs = live.cs /\ frame'.cd = live.cd /\ frame'.r11 = live.r11
    BY <1>1 DEF LiveRegisters, StackFixed
  <1>7. InterruptFrameSound'
    BY <1>1, <1>2, <1>4, <1>6 DEF InterruptFrameSound, CsOf, Upper
  <1> QED BY <1>1, <1>3, <1>5, <1>7, Zenon DEF CtxInv, SyscallFrameSound

\* Saving the registers, in either handler.
LEMMA CtxSwitchInv == ASSUME CtxInv, CtxSwitch PROVE CtxInv'
  <1>1. /\ ctxStep \in {"syscall", "interrupt"} /\ entered = ctxStep /\ running \in CtxThreads /\ running' \in CtxThreads
        /\ ctxStep' = "load" /\ UNCHANGED <<live, entered, frame, wanted, stale>> /\ ctxs \in [CtxThreads -> Contexts]
    BY Zenon DEF CtxInv, CtxTypeOK, CtxSwitch
  <1>2. PICK c \in Contexts :
            /\ ctxs' = [ctxs EXCEPT ![running] = c]
            /\ c.cs = CsOf(c.ip) /\ (c.sysret => ~ Upper(c.ip))
            /\ wanted[running] \in StoppedRegisters /\ wanted[running].ip = c.ip /\ wanted[running].gen = c.gen
            /\ wanted[running].rf = c.rf /\ wanted[running].cs = c.cs
            /\ c.sysret => wanted[running].cd = CtxNone /\ wanted[running].r11 = CtxNone
            /\ ~ c.sysret => (wanted[running].cd # CtxNone => wanted[running].cd = c.cd)
                             /\ (wanted[running].r11 # CtxNone => wanted[running].r11 = c.r11)
    <2>1. CASE entered = "syscall"
      <3> DEFINE c == [ctxs[running] EXCEPT !.ip = frame.ip, !.gen = frame.gen, !.rf = frame.rf,
                              !.cs = IF Upper(frame.ip) THEN 8 ELSE 27,
                              !.ss = IF Upper(frame.ip) THEN 16 ELSE 35,
                              !.sysret = ~ Upper(frame.ip)]
      <3>1. ctxs' = [ctxs EXCEPT ![running] = c]
        BY <2>1, Zenon DEF CtxSwitch, SyscallSave
      <3>2. /\ frame \in SyscallFrames /\ wanted[running] \in StoppedRegisters
            /\ wanted[running].ip = frame.ip /\ wanted[running].gen = frame.gen /\ wanted[running].rf = frame.rf
            /\ wanted[running].cs = CsOf(frame.ip)
            /\ wanted[running].cd = CtxNone /\ wanted[running].r11 = CtxNone
        BY <1>1, <2>1, Zenon DEF CtxInv, SyscallFrameSound
      <3>3. ctxs[running] \in Contexts
        BY <1>1, Zenon
      <3>4. /\ c \in Contexts /\ c.ip = frame.ip /\ c.gen = frame.gen /\ c.rf = frame.rf /\ c.cs = CsOf(frame.ip)
            /\ c.sysret = ~ Upper(frame.ip)
        BY <3>2, <3>3, ZenonT(40) DEF Contexts, SyscallFrames, CsOf
      <3> HIDE DEF c
      <3> QED BY <3>1, <3>2, <3>4, Zenon
    <2>2. CASE entered = "interrupt"
      <3> DEFINE c == [ip |-> frame.ip, gen |-> frame.gen, rf |-> frame.rf, cd |-> frame.cd, r11 |-> frame.r11,
                       cs |-> IF Upper(frame.ip) THEN 8 ELSE 27, ss |-> IF Upper(frame.ip) THEN 16 ELSE 35, sysret |-> FALSE]
      <3>1. ctxs' = [ctxs EXCEPT ![running] = c]
        BY <2>2, Zenon DEF CtxSwitch, InterruptSave
      <3>2. /\ frame \in LiveRegisters /\ wanted[running] \in StoppedRegisters /\ wanted[running].ip = frame.ip
            /\ wanted[running].gen = frame.gen /\ wanted[running].rf = frame.rf /\ wanted[running].cs = CsOf(frame.ip)
            /\ wanted[running].cd = frame.cd /\ wanted[running].r11 = frame.r11
        BY <1>1, <2>2, Zenon DEF CtxInv, InterruptFrameSound
      <3>3. /\ c \in Contexts /\ c.ip = frame.ip /\ c.gen = frame.gen /\ c.rf = frame.rf /\ c.cs = CsOf(frame.ip)
            /\ c.cd = frame.cd /\ c.r11 = frame.r11 /\ c.sysret = FALSE
        BY <3>2, Zenon DEF Contexts, LiveRegisters, CsOf
      <3> HIDE DEF c
      <3> QED BY <3>1, <3>2, <3>3, Zenon
    <2> QED BY <1>1, <2>1, <2>2, Zenon
  <1>3. ctxs'[running] = c /\ \A t \in CtxThreads : t # running => ctxs'[t] = ctxs[t]
    BY <1>1, <1>2, Zenon
  <1>4. CtxTypeOK'
    BY <1>1, <1>2, Zenon DEF CtxInv, CtxTypeOK
  <1>5. SelectorsFit'
    BY <1>1, <1>2, <1>3, Zenon DEF CtxInv, SelectorsFit, CsOf, Upper
  <1>6. ASSUME NEW t \in CtxThreads PROVE Saved(t)'
    <2>1. CASE t = running
      BY <1>1, <1>2, <1>3, <2>1, ZenonT(40) DEF Saved
    <2>2. CASE t # running
      BY <1>1, <1>3, <2>2 DEF CtxInv, AllSaved, Saved
    <2> QED BY <2>1, <2>2, Zenon
  <1>7. AllSaved'
    BY <1>6, Zenon DEF AllSaved
  <1>8. SyscallFrameSound'
    BY <1>1, Zenon DEF CtxInv, SyscallFrameSound, CsOf, Upper
  <1>9. InterruptFrameSound'
    BY <1>1, Zenon DEF CtxInv, InterruptFrameSound, CsOf, Upper
  <1> QED BY <1>4, <1>5, <1>7, <1>8, <1>9, Zenon DEF CtxInv

\* Loading another context builds the frame that its kind of return takes.
LEMMA CtxLoadInv == ASSUME CtxInv, CtxLoad PROVE CtxInv'
  <1> DEFINE c == ctxs[running]
  <1>1. /\ ctxStep = "load" /\ running \in CtxThreads /\ running' \in CtxThreads /\ entered \in {"syscall", "interrupt"}
        /\ UNCHANGED <<live, ctxs, entered, wanted>> /\ c \in Contexts
        /\ \/ ctxStep' = "continue" /\ running' = running /\ stale' = stale
           \/ ctxStep' = "load" /\ stale' = (stale \/ (entered = "syscall" /\ ~ c.sysret))
        /\ stale \in BOOLEAN /\ stale' \in BOOLEAN
    BY Zenon DEF CtxInv, CtxTypeOK, CtxLoad
  <1>2. c.cs = CsOf(c.ip) /\ (c.sysret => ~ Upper(c.ip))
    BY <1>1, Zenon DEF CtxInv, SelectorsFit
  <1> HIDE DEF c
  <1>3. CtxTypeOK'
    BY <1>1, Zenon DEF CtxInv, CtxTypeOK
  <1>4. SelectorsFit'
    BY <1>1, Zenon DEF CtxInv, SelectorsFit, CsOf, Upper
  <1>5. AllSaved'
    BY <1>1, Zenon DEF CtxInv, AllSaved, Saved
  <1>6. CASE entered = "syscall"
    <2> DEFINE i == [ip |-> c.ip, rf |-> c.rf, cs |-> c.cs, ss |-> c.ss]
    <2>1. frame' = SyscallLoad(c) /\ entered' = "syscall"
      BY <1>1, <1>6, Zenon DEF CtxLoad, c
    <2>2. /\ frame \in SyscallFrames /\ (frame.iret # CtxNone => frame.iret.cs = CsOf(frame.iret.ip))
          /\ ~ stale => frame.iret = CtxNone
      BY <1>1, <1>6, Zenon DEF CtxInv, SyscallFrameSound
    <2>3. i \in IretFrames /\ i.ip = c.ip /\ i.rf = c.rf /\ i.cs = c.cs
      BY <1>1, Zenon DEF Contexts, IretFrames
    <2>4. /\ frame'.ip = IF c.sysret THEN c.ip ELSE c.cd
          /\ frame'.rf = IF c.sysret THEN c.rf ELSE c.r11
          /\ frame'.gen = c.gen /\ frame'.iret = IF c.sysret THEN frame.iret ELSE i
          /\ frame' = [ip |-> frame'.ip, gen |-> frame'.gen, rf |-> frame'.rf, iret |-> frame'.iret]
      BY <2>1, Zenon DEF SyscallLoad
    <2> HIDE DEF i
    <2>5. frame' \in SyscallFrames
      <3>1. frame'.ip \in Contents /\ frame'.gen \in Contents /\ frame'.rf \in Contents
        BY <1>1, <2>4, Zenon DEF Contexts
      <3>2. frame'.iret \in IretFrames \cup {CtxNone}
        BY <2>2, <2>3, <2>4, Zenon DEF SyscallFrames
      <3> QED BY <2>4, <3>1, <3>2, Zenon DEF SyscallFrames
    <2>6. frame'.iret # CtxNone => frame'.iret.cs = CsOf(frame'.iret.ip)
      BY <1>2, <2>2, <2>3, <2>4, Zenon
    <2>7. ASSUME ctxStep' = "load", ~ stale' PROVE frame'.iret = CtxNone
      BY <1>1, <1>6, <2>2, <2>4, <2>7, Zenon
    <2>8. ASSUME ctxStep' = "continue", ~ stale'
          PROVE  /\ ctxs'[running'] = c /\ frame'.gen = c.gen
                 /\ c.sysret => frame'.iret = CtxNone /\ frame'.ip = c.ip /\ frame'.rf = c.rf
                 /\ ~ c.sysret => /\ frame'.iret \in IretFrames /\ frame'.iret.ip = c.ip /\ frame'.iret.rf = c.rf
                                  /\ frame'.iret.cs = c.cs /\ frame'.ip = c.cd /\ frame'.rf = c.r11
      BY <1>1, <2>2, <2>3, <2>4, <2>8, Zenon DEF c
    <2>9. SyscallFrameSound'
      BY <1>1, <2>5, <2>6, <2>7, <2>8, Zenon DEF SyscallFrameSound, CsOf, Upper
    <2> QED BY <1>3, <1>4, <1>5, <2>1, <2>9, Zenon DEF CtxInv, InterruptFrameSound
  <1>7. CASE entered = "interrupt"
    <2>1. frame' = InterruptLoad(c) /\ entered' = "interrupt" /\ ~ stale /\ ~ stale'
      BY <1>1, <1>7 DEF CtxLoad, CtxInv, InterruptFrameSound, c
    <2>2. frame' \in LiveRegisters /\ frame'.ss # 19 /\ frame'.cs = c.cs /\ frame'.ip = c.ip
      BY <1>1, <2>1 DEF InterruptLoad, Contexts, LiveRegisters
    <2>3. ctxStep' = "continue" => frame' = InterruptLoad(ctxs[running])'
      BY <1>1, <2>1, Zenon DEF InterruptLoad, c
    <2>4. InterruptFrameSound'
      BY <1>1, <1>2, <2>1, <2>2, <2>3, Zenon DEF InterruptFrameSound, CsOf, Upper
    <2> QED BY <1>3, <1>4, <1>5, <2>1, <2>4, Zenon DEF CtxInv, SyscallFrameSound
  <1> QED BY <1>1, <1>6, <1>7, Zenon

\* The way back from a system call, and what it gives the thread.
LEMMA SyscallReturns ==
    ASSUME CtxInv, CtxReturn, entered = "syscall"
    PROVE  live' \in LiveRegisters /\ live'.cs = CsOf(live'.ip) /\ (~ stale => AsStopped)
  <1> DEFINE k == KernelFrame
  <1>1. /\ frame \in SyscallFrames /\ (frame.iret # CtxNone => frame.iret.cs = CsOf(frame.iret.ip))
        /\ ctxStep \in {"syscall", "continue"} /\ running \in CtxThreads /\ ctxs[running] \in Contexts
    BY Zenon DEF CtxInv, CtxTypeOK, SyscallFrameSound, CtxReturn
  <1>2. frame.ip \in Contents /\ frame.gen \in Contents /\ frame.rf \in Contents /\ frame.iret \in IretFrames \cup {CtxNone}
    BY <1>1, Zenon DEF SyscallFrames
  <1>3. [ip |-> frame.ip, rf |-> frame.rf, cs |-> 8, ss |-> 16] \in IretFrames
    BY <1>2, Zenon DEF IretFrames
  <1>4. /\ k = CtxNone => frame.iret = CtxNone /\ ~ Upper(frame.ip)
        /\ k # CtxNone => k \in IretFrames /\ k.cs = CsOf(k.ip)
                          /\ (frame.iret = CtxNone => Upper(frame.ip) /\ k.ip = frame.ip /\ k.rf = frame.rf)
                          /\ (frame.iret # CtxNone => k = frame.iret)
    BY <1>1, <1>2, <1>3, CtxAssumption, Zenon DEF KernelFrame, CsOf
  <1>5. live' = IF k = CtxNone
            THEN [ip |-> frame.ip, gen |-> frame.gen, rf |-> frame.rf, cd |-> frame.ip, r11 |-> frame.rf,
                  cs |-> 27, ss |-> 19]
            ELSE [ip |-> k.ip, gen |-> frame.gen, rf |-> k.rf, cd |-> frame.ip, r11 |-> frame.rf,
                  cs |-> k.cs, ss |-> k.ss]
    BY Zenon DEF CtxReturn, SyscallReturn
  <1> HIDE DEF k
  <1>6. /\ live'.ip = (IF k = CtxNone THEN frame.ip ELSE k.ip) /\ live'.rf = (IF k = CtxNone THEN frame.rf ELSE k.rf)
        /\ live'.cs = (IF k = CtxNone THEN 27 ELSE k.cs) /\ live'.gen = frame.gen /\ live'.cd = frame.ip /\ live'.r11 = frame.rf
    BY <1>5, Zenon
  <1>7. live' \in LiveRegisters
    BY <1>2, <1>4, <1>5, Zenon DEF LiveRegisters, IretFrames
  <1>8. live'.cs = CsOf(live'.ip)
    BY <1>4, <1>6, Zenon DEF CsOf
  <1>9. ASSUME ~ stale PROVE AsStopped
    <2>1. CASE ctxStep = "syscall"
      <3>1. /\ frame.iret = CtxNone
            /\ wanted[running].ip = frame.ip /\ wanted[running].gen = frame.gen /\ wanted[running].rf = frame.rf
            /\ wanted[running].cs = CsOf(frame.ip)
            /\ wanted[running].cd = CtxNone /\ wanted[running].r11 = CtxNone
        BY <2>1, Zenon DEF CtxInv, SyscallFrameSound
      <3> QED BY <1>4, <1>6, <1>8, <3>1, Zenon DEF AsStopped
    <2>2. CASE ctxStep = "continue"
      <3> DEFINE c == ctxs[running]
      <3>1. Saved(running) /\ c.cs = CsOf(c.ip) /\ (c.sysret => ~ Upper(c.ip))
        BY <1>1, <2>2, Zenon DEF CtxInv, AllSaved, SelectorsFit
      <3>2. /\ frame.gen = c.gen
            /\ c.sysret => frame.iret = CtxNone /\ frame.ip = c.ip /\ frame.rf = c.rf
            /\ ~ c.sysret => /\ frame.iret \in IretFrames /\ frame.iret.ip = c.ip /\ frame.iret.rf = c.rf
                             /\ frame.iret.cs = c.cs /\ frame.ip = c.cd /\ frame.rf = c.r11
        BY <1>9, <2>2, ZenonT(40) DEF CtxInv, SyscallFrameSound
      <3>3. CASE c.sysret
        BY <1>4, <1>6, <1>8, <3>1, <3>2, <3>3 DEF AsStopped, Saved
      <3>4. CASE ~ c.sysret
        <4>1. k = frame.iret /\ k # CtxNone
          BY <1>4, <3>2, <3>4, CtxAssumption, Zenon
        <4> QED BY <1>6, <3>1, <3>2, <3>4, <4>1, Zenon DEF AsStopped, Saved
      <3> QED BY <3>3, <3>4, Zenon
    <2> QED BY <1>1, <2>1, <2>2, Zenon
  <1> QED BY <1>7, <1>8, <1>9, Zenon

\* The way back from an interrupt.
LEMMA InterruptReturns ==
    ASSUME CtxInv, CtxReturn, entered = "interrupt"
    PROVE  live' \in LiveRegisters /\ live'.cs = CsOf(live'.ip) /\ AsStopped /\ ctxStep' = "run"
  <1>1. /\ live' = frame /\ frame \in LiveRegisters /\ frame.ss # 19 /\ frame.cs = CsOf(frame.ip)
        /\ ctxStep \in {"interrupt", "continue"} /\ running \in CtxThreads /\ ctxs[running] \in Contexts
    BY Zenon DEF CtxInv, CtxTypeOK, InterruptFrameSound, CtxReturn
  <1>2. ctxStep' = "run"
    BY <1>1, Zenon DEF CtxReturn
  <1>3. CASE ctxStep = "interrupt"
    <2>1. /\ wanted[running].ip = frame.ip /\ wanted[running].gen = frame.gen /\ wanted[running].rf = frame.rf
          /\ wanted[running].cs = frame.cs /\ wanted[running].cd = frame.cd /\ wanted[running].r11 = frame.r11
      BY <1>3, Zenon DEF CtxInv, InterruptFrameSound
    <2>2. AsStopped
      BY <1>1, <2>1, Zenon DEF AsStopped
    <2> QED BY <1>1, <1>2, <2>2, Zenon
  <1>4. CASE ctxStep = "continue"
    <2> DEFINE c == ctxs[running]
    <2>1. Saved(running) /\ frame = InterruptLoad(c)
      BY <1>1, <1>4, Zenon DEF CtxInv, AllSaved, InterruptFrameSound
    <2>2. /\ frame.ip = c.ip /\ frame.gen = c.gen /\ frame.rf = c.rf /\ frame.cs = c.cs /\ frame.cd = c.cd
          /\ frame.r11 = c.r11
      BY <2>1, Zenon DEF InterruptLoad
    <2>3. AsStopped
      BY <1>1, <2>1, <2>2, Zenon DEF AsStopped, Saved
    <2> QED BY <1>1, <1>2, <2>3, Zenon
  <1> QED BY <1>1, <1>2, <1>3, <1>4, Zenon

\* The return goes on with what the frame holds.
LEMMA CtxReturnInv == ASSUME CtxInv, CtxReturn PROVE CtxInv' /\ ctxStep' = "run"
  <1>1. /\ ctxStep \in {"syscall", "interrupt", "continue"} /\ entered \in {"syscall", "interrupt"}
        /\ wanted' = [wanted EXCEPT ![running] = CtxNone] /\ stale' = FALSE
        /\ UNCHANGED <<running, ctxs, entered, blocked>> /\ running \in CtxThreads
        /\ entered = "syscall" => ctxStep' = "run"
    BY Zenon DEF CtxInv, CtxTypeOK, CtxReturn
  <1>2. live' \in LiveRegisters /\ live'.cs = CsOf(live'.ip) /\ ctxStep' = "run"
    BY <1>1, SyscallReturns, InterruptReturns, Zenon
  <1>3. CtxTypeOK'
    BY <1>1, <1>2, Zenon DEF CtxInv, CtxTypeOK
  <1>4. SelectorsFit'
    BY <1>1, <1>2, Zenon DEF CtxInv, SelectorsFit, CsOf, Upper
  <1>5. \A t \in CtxThreads : t # running => wanted'[t] = wanted[t]
    BY <1>1, ZenonT(40) DEF CtxInv, CtxTypeOK
  <1>6. AllSaved'
    BY <1>1, <1>2, <1>5 DEF CtxInv, AllSaved, Saved
  <1> QED BY <1>2, <1>3, <1>4, <1>6, Zenon DEF CtxInv, SyscallFrameSound, InterruptFrameSound

\* A thread goes on as it stopped: any number of threads of the kernel and of user
\* space, with any order of system calls, interrupts, switches and continuations
\* (save_to and load_from of syscalls.cpp and irqs.cpp, and the stubs of cpu.asm).
THEOREM ThreadsGoOn == CtxSpec => GoesOnAsItStopped
  <1>1. CtxInit => CtxInv
    BY CtxInitInv, Zenon
  <1>2. CtxInv /\ [CtxNext]_ctxVars => CtxInv'
    <2> SUFFICES ASSUME CtxInv, [CtxNext]_ctxVars PROVE CtxInv'
      BY Zenon
    <2>1. CASE UNCHANGED ctxVars
      <3>1. UNCHANGED <<running, live, ctxs, ctxStep, entered, frame, blocked, wanted, stale>>
        BY <2>1, ZenonT(40) DEF ctxVars
      <3>2. CtxTypeOK' /\ SelectorsFit' /\ AllSaved'
        BY <3>1 DEF CtxInv, CtxTypeOK, SelectorsFit, AllSaved, Saved, CsOf, Upper
      <3>3. SyscallFrameSound' /\ InterruptFrameSound'
        BY <3>1, Zenon DEF CtxInv, SyscallFrameSound, InterruptFrameSound, InterruptLoad, CsOf, Upper
      <3> QED BY <3>2, <3>3, Zenon DEF CtxInv
    <2> QED BY <2>1, CtxWorkInv, CtxSyscallInv, CtxInterruptInv, CtxSwitchInv, CtxLoadInv, CtxReturnInv, Zenon DEF CtxNext
  <1>3. CtxInv /\ [CtxNext]_ctxVars => [(Returns /\ ~ stale => AsStopped) /\ ctxStep' # "fault"]_ctxVars
    <2> SUFFICES ASSUME CtxInv, CtxNext PROVE (Returns /\ ~ stale => AsStopped) /\ ctxStep' # "fault"
      BY Zenon
    <2>1. CASE CtxReturn
      BY <2>1, CtxReturnInv, SyscallReturns, InterruptReturns, Zenon DEF CtxInv, CtxTypeOK
    <2>2. CASE ~ CtxReturn
      BY <2>2, Zenon DEF CtxNext, CtxWork, CtxSyscall, CtxInterrupt, CtxSwitch, CtxLoad, Returns
    <2> QED BY <2>1, <2>2, Zenon
  <1> QED BY <1>1, <1>2, <1>3, PTL DEF CtxSpec, GoesOnAsItStopped
=============================================================================
