--------------------------- MODULE PageTableProofs ---------------------------
(***************************************************************************)
(* The page tables for any number of cores, spaces, entries and pages: the *)
(* kernel is the same in every space, no TLB keeps a translation that is   *)
(* gone, and what a call has mapped or unmapped stays so.                  *)
(***************************************************************************)
EXTENDS PageTableSteps

-----------------------------------------------------------------------------
(* Steps that write an entry *)

\* Writing a page of a table keeps the invariant.
LEMMA PtPageStep ==
    ASSUME PtInv, NEW c \in PtCores, PtPage(c) PROVE PtInv'
<1>1. PICK o \in OpTypes : o = op[c]
  BY OfCall, Zenon
<1>2. o.pc = "page" /\ UNCHANGED <<roots, lockBits, cr3, tlb, shoot, spaces>>
  BY <1>1, Zenon DEF PtPage
<1>3. OpSound(o)
  BY <1>1, OfCall, Zenon
<1>4. o.kind \in Calls /\ RangeSound(o) /\ SeenSound(o) /\ PagesSound(o) /\ OrderSound(o)
  BY <1>2, <1>3, KindOf, Zenon
<1>5. PICK s \in PtSpaces, E \in RootEntries : s = o.space /\ E = Entry(o.at)
  BY <1>2, <1>4, AtPage, Zenon DEF OpTypes, RangeSound
<1>6. /\ o.seen = roots[s][E] /\ o.seen # Absent /\ s \in spaces /\ o.at \in Pages /\ o.at \in o.from .. o.end - 1
      /\ o.from \in Nat /\ o.at \in Nat /\ o.end \in Nat /\ o.from <= o.at /\ o.at < o.end
  BY <1>2, <1>4, <1>5, AtPage, Zenon DEF SeenSound, RangeSound, OpTypes
<1>7. PtTypeOK /\ TablesApart /\ AllShared
  BY Zenon DEF PtInv
<1>8. PICK k \in 1 .. Len(tables), i \in 0 .. Fan - 1 : k = o.seen /\ i = o.at % Fan
  BY <1>5, <1>6, <1>7, EntryOf, Zenon DEF PtTypeOK
<1>9. PICK val \in Nat \cup {Absent} : val = IF o.kind = "map" THEN o.phys ELSE Absent
  BY Zenon DEF OpTypes
<1>10. PICK pc \in {"page", "unlock", "trigger_page", "trigger_unlock"} :
         pc = IF o.kind = "unmap" /\ Cardinality(o.batch) + 1 = PtBatch
              THEN (IF (o.at + 1) % Fan # 0 /\ o.at + 1 < o.end THEN "trigger_page" ELSE "trigger_unlock")
              ELSE IF (o.at + 1) % Fan # 0 /\ o.at + 1 < o.end THEN "page" ELSE "unlock"
  BY Zenon
<1>11. PICK batch \in SUBSET Pages : batch = IF o.kind = "map" THEN {} ELSE o.batch \cup {o.at}
  BY <1>6, Zenon DEF OpTypes
<1>12. PICK n \in OpTypes : n = [o EXCEPT !.at = o.at + 1, !.phys = o.phys + 1, !.batch = batch, !.pc = pc]
  <2>1. PICK a \in Nat, h \in Nat : a = o.at + 1 /\ h = o.phys + 1
    BY DEF OpTypes
  <2>2. [o EXCEPT !.at = a, !.phys = h, !.batch = batch, !.pc = pc] \in OpTypes
    BY Zenon DEF OpTypes
  <2> QED  BY <2>1, <2>2, Zenon
<1>13. op' = [op EXCEPT ![c] = n] /\ tables' = [tables EXCEPT ![k][i] = val]
  BY <1>1, <1>8, <1>9, <1>10, <1>11, <1>12, Zenon DEF PtPage
<1>14. /\ n.pc = pc /\ n.kind = o.kind /\ n.space = o.space /\ n.from = o.from /\ n.at = o.at + 1 /\ n.end = o.end
       /\ n.base = o.base /\ n.phys = o.phys + 1 /\ n.high = o.high /\ n.batch = batch /\ n.seen = o.seen
  BY <1>12 DEF OpTypes
<1>15. /\ pc \in {"page", "trigger_page"} => (o.at + 1) % Fan # 0 /\ o.at + 1 < o.end
       /\ pc \in {"unlock", "trigger_unlock"} => (o.at + 1 < o.end => (o.at + 1) % Fan = 0)
       /\ o.kind = "map" => pc \in {"page", "unlock"}
  BY <1>10, Zenon
<1>16. pc \in {"page", "trigger_page"} => Entry(o.at + 1) = E
  BY <1>5, <1>6, <1>15, EntryNext, Zenon
<1>17. HoldsBit(o) /\ BitOf(o) = <<s, E>> /\ BitOf(n) = <<s, E>>
  <2>1. n.pc \in {"unlock", "trigger_unlock"} => n.at - 1 = o.at
    BY <1>6, <1>14
  <2> QED  BY <1>2, <1>5, <1>10, <1>14, <1>16, <2>1, Zenon DEF HoldsBit, BitOf
<1>18. \A d \in PtCores \ {c}, p \in OpTypes : p = op[d] => OpsApart(n, p)
  BY <1>1, <1>14, <1>17, OfCall, ApartFrame
<1>19. ShootSound(c)' /\ \A e \in PtCores, v \in Pages : WillDrop(c, e, v) => WillDrop(c, e, v)'
  <2>1. op'[c] = n /\ shoot' = shoot /\ cr3' = cr3
    BY <1>2, <1>13, InvParts, Zenon DEF PtTypeOK
  <2>2. shoot[c].left = {}
    BY <1>1, <1>2, OfCall, Zenon DEF ShootSound, Triggering
  <2>3. o.kind = "unmap" => o.batch \subseteq n.batch
    BY <1>11, <1>14, Zenon
  <2> QED  BY <1>1, <1>4, <1>14, <2>1, <2>2, <2>3, Zenon DEF WillDrop, Covers, ShootSound, Calls
<1>20. (\A d \in PtCores \ {c} : HoldsBit(op[d]) => BitOf(op[d]) \in lockBits') /\ BitOf(n) \in lockBits'
  BY <1>1, <1>2, <1>17, OfCall, Zenon
<1>21. /\ tables' \in Seq([0 .. Fan - 1 -> Nat \cup {Absent}]) /\ Len(tables') = Len(tables)
       /\ \A j \in 1 .. Len(tables), x \in 0 .. Fan - 1 :
            tables'[j][x] = IF j = k /\ x = i THEN val ELSE tables[j][x]
  <2>1. tables \in Seq([0 .. Fan - 1 -> Nat \cup {Absent}])
    BY <1>7, Zenon DEF PtTypeOK
  <2>2. PICK g \in [0 .. Fan - 1 -> Nat \cup {Absent}] : g = tables[k]
    BY <2>1
  <2>3. PICK f \in [0 .. Fan - 1 -> Nat \cup {Absent}] : f = [g EXCEPT ![i] = val]
    BY Zenon
  <2>4. tables' = [tables EXCEPT ![k] = f]
    BY <1>13, <2>1, <2>2, <2>3, Zenon
  <2>5. /\ tables' \in Seq([0 .. Fan - 1 -> Nat \cup {Absent}]) /\ Len(tables') = Len(tables)
        /\ \A j \in 1 .. Len(tables) : tables'[j] = IF j = k THEN f ELSE tables[j]
    BY <2>1, <2>4
  <2>6. \A x \in 0 .. Fan - 1 : f[x] = IF x = i THEN val ELSE tables[k][x]
    BY <2>2, <2>3, Zenon
  <2> QED  BY <2>5, <2>6, Zenon
<1>22. PtTypeOK'
  BY <1>2, <1>7, <1>13, <1>21, Zenon DEF PtTypeOK
<1>23. TablesApart' /\ AllShared'
  BY <1>2, <1>7 DEF TablesApart, AllShared, SharedIn
\* Only the page the call is at changes, in the call's space or, in the upper half, in all.
<1>24. ASSUME NEW t \in PtSpaces, NEW v \in Pages, VirtToPhys(t, v)' # VirtToPhys(t, v)
       PROVE  /\ v = o.at /\ (t = s \/ IsKernel(v)) /\ VirtToPhys(t, v)' = val
              /\ VirtToPhys(t, v) = VirtToPhys(s, v) /\ Covers(o, t, v)
  <2>1. Entry(v) \in RootEntries /\ v % Fan \in 0 .. Fan - 1
    BY EntryOf, Zenon DEF RootEntries
  <2>2. roots[t][Entry(v)] # Absent => roots[t][Entry(v)] \in 1 .. Len(tables)
    BY <1>7, <2>1, Zenon DEF PtTypeOK
  <2>3. roots[t][Entry(v)] = k /\ v % Fan = i /\ VirtToPhys(t, v)' = val
    BY <1>2, <1>21, <1>24, <2>1, <2>2, Zenon DEF VirtToPhys
  <2>4. Entry(v) = E /\ (t = s \/ E >= Lower)
    BY <1>6, <1>7, <1>8, <2>1, <2>3 DEF TablesApart
  <2>5. v = o.at
    <3>1. v \in Nat /\ Entry(v) = Entry(o.at) /\ v % Fan = o.at % Fan
      BY <1>5, <1>8, <2>3, <2>4, PagesNat, Zenon
    <3> QED  BY <1>6, <3>1, SamePage, Zenon
  <2>6. t = s \/ IsKernel(v)
    BY <2>4, Zenon DEF IsKernel
  <2>7. VirtToPhys(t, v) = VirtToPhys(s, v)
    BY <1>6, <1>8, <2>3, <2>4, Zenon DEF VirtToPhys
  <2>8. Covers(o, t, v)
    BY <1>4, <1>5, <1>6, <2>5, <2>6, Zenon DEF Covers, Calls
  <2> QED  BY <2>3, <2>5, <2>6, <2>7, <2>8, Zenon
<1>25. VirtToPhys(s, o.at)' = val
  <2>1. tables'[k][i] = val
    BY <1>21, Zenon
  <2> QED  BY <1>2, <1>5, <1>6, <1>8, <2>1, Zenon DEF VirtToPhys
<1>26. ASSUME NEW d \in PtCores \ {c}, NEW p \in OpTypes, p = op[d] PROVE OpSound(p)'
  <2>1. OpSound(p) /\ OpsApart(o, p) /\ p.space \in PtSpaces
    BY <1>1, <1>26, OfCall, Zenon DEF PtInv, OpTypes
  <2>2. ASSUME p.kind \in Calls, NEW v \in p.from .. p.end - 1 PROVE VirtToPhys(p.space, v)' = VirtToPhys(p.space, v)
    <3>1. v \in Pages
      BY <2>1, <2>2, KindOf, Zenon DEF RangeSound
    <3>2. Covers(p, p.space, v)
      BY <2>2, Zenon DEF Covers, Calls
    <3>3. ~Covers(o, p.space, v)
      BY <2>1, <3>1, <3>2, Zenon DEF OpsApart
    <3> QED  BY <1>24, <2>1, <3>1, <3>3, Zenon
  <2>3. p.kind \in Calls => p.space \in spaces'
    BY <1>2, <2>1, KindOf, Zenon DEF RangeSound
  <2>4. p.kind = "lower" => Lowered'
    BY <1>2, <2>1, Zenon DEF OpSound, Lowered
  <2>5. p.kind = "clone" => p.space \notin spaces' /\ \A e \in Lower .. p.at - 1 : SharedIn(p.space, e)'
    BY <1>2, <2>1, Zenon DEF OpSound, SharedIn
  <2> QED  BY <1>2, <2>1, <2>2, <2>3, <2>4, <2>5, OpFrame, Zenon
<1>27. OpSound(n)'
  <2>1. ASSUME NEW v \in o.from .. o.end - 1, v # o.at PROVE VirtToPhys(s, v)' = VirtToPhys(s, v)
    <3>1. v \in Pages
      BY <1>4, Zenon DEF RangeSound
    <3> QED  BY <1>24, <2>1, <3>1, Zenon
  <2>2. /\ \A v \in o.from .. o.at - 1 : VirtToPhys(s, v)' = VirtToPhys(s, v)
        /\ \A v \in o.at + 1 .. o.end - 1 : VirtToPhys(s, v)' = VirtToPhys(s, v)
    <3>1. \A v \in o.from .. o.at - 1 : v \in o.from .. o.end - 1 /\ v # o.at
      BY <1>6
    <3>2. \A v \in o.at + 1 .. o.end - 1 : v \in o.from .. o.end - 1 /\ v # o.at
      BY <1>6
    <3> QED  BY <2>1, <3>1, <3>2, Zenon
  <2>3. RangeSound(n)'
    <3>1. n.from <= n.at /\ n.at <= n.end /\ n.from < n.at
      BY <1>6, <1>14
    <3>2. n.kind = "map" => n.batch = {}
      BY <1>11, <1>14, Zenon
    <3> QED  BY <1>2, <1>4, <1>10, <1>14, <1>15, <3>1, <3>2, Zenon DEF RangeSound
  <2>4. SeenSound(n)'
    BY <1>2, <1>5, <1>6, <1>10, <1>14, <1>16, Zenon DEF SeenSound
  <2>5. (val = Absent) = (o.kind = "unmap")
    BY <1>4, <1>9, PtAssumption, Zenon DEF Calls, OpTypes
  <2>6. \A v \in o.from .. o.at : v = o.at \/ v \in o.from .. o.at - 1
    BY <1>6
  <2>7. PagesSound(n)'
    <3>1. ASSUME NEW v \in o.from .. o.at PROVE (VirtToPhys(s, v)' = Absent) = (o.kind = "unmap")
      <4>1. CASE v = o.at
        BY <1>25, <2>5, <4>1, Zenon
      <4>2. CASE v \in o.from .. o.at - 1
        BY <1>4, <1>5, <2>2, <4>2, Zenon DEF PagesSound
      <4> QED  BY <2>6, <4>1, <4>2, Zenon
    <3>2. ASSUME o.kind = "map", NEW v \in o.at + 1 .. o.end - 1 PROVE VirtToPhys(s, v)' = Absent
      <4>1. v \in o.at .. o.end - 1
        BY <1>6
      <4> QED  BY <1>4, <1>5, <2>2, <3>2, <4>1, Zenon DEF PagesSound
    <3>3. n.from .. n.at - 1 = o.from .. o.at /\ n.at .. n.end - 1 = o.at + 1 .. o.end - 1
      BY <1>6, <1>14
    <3> QED  BY <1>5, <1>14, <3>1, <3>2, <3>3, Zenon DEF PagesSound
  <2>8. OrderSound(n)'
    <3> SUFFICES ASSUME o.kind = "map", o.base % Fan = o.from % Fan PROVE OrderSound(n)'
      BY <1>14, Zenon DEF OrderSound
    <3>1. /\ \A v \in o.from .. o.at - 1 : VirtToPhys(s, v) = o.base + v - o.from
          /\ o.phys = o.base + o.at - o.from /\ HighAt(o, o.at)
      BY <1>2, <1>4, <1>5, Zenon DEF OrderSound
    <3>2. ASSUME NEW v \in o.from .. o.at PROVE VirtToPhys(s, v)' = o.base + v - o.from
      <4>1. CASE v = o.at
        BY <1>9, <1>25, <3>1, <4>1, Zenon
      <4>2. CASE v \in o.from .. o.at - 1
        BY <2>2, <3>1, <4>2, Zenon
      <4> QED  BY <2>6, <4>1, <4>2, Zenon
    <3>3. n.from .. n.at - 1 = o.from .. o.at /\ n.at - 1 = o.at
      BY <1>6, <1>14
    <3>4. n.phys = n.base + n.at - n.from
      BY <1>6, <1>14, <3>1, SMTT(30) DEF OpTypes
    <3>5. n.pc = "page" => HighAt(n, n.at)
      BY <1>5, <1>14, <1>16, <3>1, Zenon DEF HighAt
    <3>6. n.pc = "unlock" => HighAt(n, n.at - 1) /\ (n.at < n.end => n.at % Fan = 0)
      BY <1>14, <1>15, <3>1, <3>3, Zenon DEF HighAt
    <3> QED  BY <1>5, <1>14, <1>15, <3>2, <3>3, <3>4, <3>5, <3>6, Zenon DEF OrderSound, HighAt
  <2> QED  BY <1>4, <1>14, <2>3, <2>4, <2>7, <2>8, Zenon DEF OpSound, Calls
<1>28. ASSUME NEW e \in PtCores, NEW v \in DOMAIN tlb[e], tlb[e][v] = VirtToPhys(cr3[e], v) \/ WillDrop(c, e, v)
       PROVE  tlb[e][v] = VirtToPhys(cr3[e], v)' \/ WillDrop(c, e, v)'
  <2>1. PICK t \in PtSpaces : t = cr3[e] /\ t = cr3'[e]
    BY <1>2, <1>7, Zenon DEF PtTypeOK
  <2>2. v \in Pages /\ tlb[e][v] # Absent
    BY <1>7, Zenon DEF PtTypeOK
  <2>3. CASE VirtToPhys(t, v)' = VirtToPhys(t, v)
    BY <1>2, <1>19, <1>28, <2>1, <2>2, <2>3, Zenon DEF VirtToPhys
  <2>4. CASE VirtToPhys(t, v)' # VirtToPhys(t, v)
    <3>1. v = o.at /\ VirtToPhys(t, v) = VirtToPhys(s, v) /\ Covers(o, t, v)
      BY <1>24, <2>2, <2>4, Zenon
    <3>2. CASE o.kind = "unmap"
      <4>1. op'[c] = n /\ Covers(n, t, v) /\ v \in n.batch
        BY <1>7, <1>11, <1>13, <1>14, <3>1, <3>2, Zenon DEF PtTypeOK, Covers
      <4> QED  BY <1>14, <2>1, <3>2, <4>1, Zenon DEF WillDrop
    <3>3. CASE o.kind = "map"
      <4>1. VirtToPhys(s, v) = Absent
        BY <1>4, <1>5, <1>6, <3>1, <3>3 DEF PagesSound
      <4>2. ~WillDrop(c, e, v)
        BY <1>1, <3>3, Zenon DEF WillDrop
      <4>3. VirtToPhys(cr3[e], v) = Absent
        BY <2>1, <3>1, <4>1, Zenon
      <4> QED  BY <1>28, <2>2, <4>2, <4>3, Zenon
    <3> QED  BY <1>4, <3>2, <3>3, Zenon DEF Calls
  <2> QED  BY <2>3, <2>4, Zenon
<1>29. \A d \in PtCores \ {c} : shoot'[d] = shoot[d]
  BY <1>2, Zenon
<1> QED  BY <1>2, <1>13, <1>18, <1>19, <1>20, <1>22, <1>23, <1>26, <1>27, <1>28, <1>29, CallStep, Zenon

\* Cloning an entry keeps the invariant: the new space shares the table.
LEMMA CloneEntryStep ==
    ASSUME PtInv, NEW c \in PtCores, CloneEntry(c) PROVE PtInv'
<1>1. PICK o \in OpTypes : o = op[c]
  BY OfCall, Zenon
<1>2. o.pc = "entry" /\ UNCHANGED <<lockBits, cr3, tlb, shoot>>
  BY <1>1, Zenon DEF CloneEntry
<1>3. OpSound(o) /\ shoot[c].left = {}
  BY <1>1, <1>2, OfCall, Zenon DEF ShootSound, Triggering
<1>4. o.kind = "clone" /\ o.from = o.at /\ o.end = o.at /\ o.batch = {}
  BY <1>2, <1>3, KindOf, Zenon
<1>5. PICK s \in PtSpaces, e \in KernelEntries : s = o.space /\ e = o.at
  BY <1>3, <1>4, Zenon DEF OpSound, OpTypes
<1>6. s \notin spaces /\ \A f \in Lower .. e - 1 : SharedIn(s, f)
  BY <1>3, <1>4, <1>5, Zenon DEF OpSound
<1>7. PtTypeOK /\ TablesApart /\ AllShared /\ PtBoot \in PtSpaces /\ PtBoot \in spaces /\ Len(tables) \in Nat
  BY PtAssumption, InvParts DEF PtTypeOK
<1>8. PICK a \in PtSpaces : a = cr3[c] /\ a \in spaces
  BY <1>7, Zenon DEF PtTypeOK
<1>9. e \in RootEntries /\ KernelEntries \subseteq RootEntries /\ e \in Nat /\ e >= Lower /\ \A f \in Lower .. e - 1 : f \in KernelEntries
  BY PtAssumption DEF KernelEntries, RootEntries
<1>10. PICK k \in 1 .. Len(tables) + 1 :
         /\ k = IF roots[a][e] = Absent THEN Len(tables) + 1 ELSE roots[a][e]
         /\ roots[a][e] # Absent => k \in 1 .. Len(tables)
  BY <1>7, <1>9 DEF PtTypeOK
<1>11. k # Absent /\ s # a /\ s # PtBoot
  BY <1>6, <1>7, <1>8, <1>10, PtAssumption
<1>12. /\ roots' = [roots EXCEPT ![a][e] = k, ![s][e] = k] /\ <<a, e>> \notin lockBits
       /\ IF roots[a][e] = Absent THEN tables' = NewTable(tables) ELSE tables' = tables
  BY <1>1, <1>5, <1>8, <1>10, Zenon DEF CloneEntry, Hole, LockBitClear
<1>13. /\ roots' \in [PtSpaces -> [RootEntries -> Nat \cup {Absent}]]
       /\ \A t \in PtSpaces, f \in RootEntries : roots'[t][f] = IF f = e /\ t \in {a, s} THEN k ELSE roots[t][f]
  <2>1. PICK g \in [PtSpaces -> [RootEntries -> Nat \cup {Absent}]] :
          /\ g = [roots EXCEPT ![a][e] = k]
          /\ \A t \in PtSpaces, f \in RootEntries : g[t][f] = IF f = e /\ t = a THEN k ELSE roots[t][f]
    <3>1. roots \in [PtSpaces -> [RootEntries -> Nat \cup {Absent}]] /\ k \in Nat
      BY <1>7 DEF PtTypeOK
    <3>2. [roots EXCEPT ![a][e] = k] \in [PtSpaces -> [RootEntries -> Nat \cup {Absent}]]
      BY <1>9, <3>1, Zenon
    <3> QED  BY <1>9, <3>1, <3>2, Zenon
  <2>2. roots' = [g EXCEPT ![s][e] = k]
    BY <1>12, <2>1, Zenon
  <2>3. k \in Nat
    BY <1>7
  <2>4. \A t \in PtSpaces, f \in RootEntries : roots'[t][f] = IF f = e /\ t = s THEN k ELSE g[t][f]
    BY <1>9, <2>2, Zenon
  <2>5. roots' \in [PtSpaces -> [RootEntries -> Nat \cup {Absent}]]
    BY <1>9, <2>2, <2>3, Zenon
  <2>6. ASSUME NEW t \in PtSpaces, NEW f \in RootEntries
        PROVE  roots'[t][f] = IF f = e /\ t \in {a, s} THEN k ELSE roots[t][f]
    <3>1. g[t][f] = IF f = e /\ t = a THEN k ELSE roots[t][f]
      BY <2>1, Zenon
    <3>2. roots'[t][f] = IF f = e /\ t = s THEN k ELSE g[t][f]
      BY <2>4, Zenon
    <3> QED  BY <3>1, <3>2, Zenon
  <2> QED  BY <2>5, <2>6, Zenon
\* An entry is missing only while the boot space is alone.
<1>14. roots'[PtBoot][e] = k /\ (roots[a][e] = Absent => a = PtBoot /\ spaces = {PtBoot})
  <2>1. CASE a = PtBoot
    <3>1. spaces # {PtBoot} => roots[a][e] # Absent
      BY <1>7, <1>8, Zenon DEF AllShared, SharedIn
    <3> QED  BY <1>9, <1>13, <2>1, <3>1, Zenon
  <2>2. CASE a # PtBoot
    <3>1. SharedIn(a, e)
      BY <1>7, <1>8, <2>2, Zenon DEF AllShared
    <3> QED  BY <1>7, <1>9, <1>10, <1>11, <1>13, <2>2, <3>1, Zenon DEF SharedIn
  <2> QED  BY <2>1, <2>2, Zenon
<1>15. \A f \in RootEntries : roots[PtBoot][f] # Absent => roots'[PtBoot][f] = roots[PtBoot][f]
  BY <1>7, <1>10, <1>11, <1>13, Zenon
<1>16. SharedIn(s, e)' /\ \A f \in Lower .. e - 1 : SharedIn(s, f)'
  <2>1. SharedIn(s, e)'
    BY <1>9, <1>11, <1>13, <1>14, Zenon DEF SharedIn
  <2>2. ASSUME NEW f \in Lower .. e - 1 PROVE SharedIn(s, f)'
    <3>1. f \in RootEntries /\ f # e /\ SharedIn(s, f)
      BY <1>6, <1>9
    <3> QED  BY <1>7, <1>13, <3>1, Zenon DEF SharedIn
  <2> QED  BY <2>1, <2>2, Zenon
<1>17. ASSUME NEW t \in spaces, NEW f \in RootEntries
       PROVE  \/ roots'[t][f] = roots[t][f]
              \/ t = a /\ f = e /\ roots[a][e] = Absent /\ roots'[t][f] = Len(tables) + 1
  BY <1>6, <1>7, <1>10, <1>13 DEF PtTypeOK
<1>18. ASSUME NEW t \in spaces, NEW v \in Pages PROVE VirtToPhys(t, v)' = VirtToPhys(t, v)
  <2>1. Entry(v) \in RootEntries /\ t \in PtSpaces
    BY <1>7, EntryOf, Zenon DEF RootEntries, PtTypeOK
  <2>2. \/ roots'[t][Entry(v)] = roots[t][Entry(v)]
        \/ /\ roots[t][Entry(v)] = Absent /\ tables' = NewTable(tables) /\ roots'[t][Entry(v)] = Len(tables) + 1
    BY <1>12, <1>17, <2>1, Zenon
  <2> QED  BY <1>7, <1>12, <2>1, <2>2, NewTableMapsNothing, Zenon
<1>19. PICK n \in OpTypes, S \in SUBSET PtSpaces :
         /\ op' = [op EXCEPT ![c] = n] /\ spaces' = S /\ spaces \subseteq S /\ S \subseteq spaces \cup {s}
         /\ ~HoldsBit(n) /\ OpSound(n)' /\ (s \in S => e = Entries - 1)
         /\ n = NoOp \/ (n.kind = "clone" /\ n.space = s /\ n.from = n.end)
  <2>1. CASE e + 1 = Entries
    <3>1. op' = [op EXCEPT ![c] = NoOp] /\ spaces' = spaces \cup {s}
      <4>1. op[c].at + 1 = Entries /\ op[c].space = s
        BY <1>1, <1>5, <2>1, Zenon
      <4> QED  BY <4>1, Zenon DEF CloneEntry
    <3>2. OpSound(NoOp)'
      BY Zenon DEF OpSound, NoOp, Calls
    <3>3. e = Entries - 1 /\ spaces \cup {s} \in SUBSET PtSpaces
      BY <1>7, <1>9, <2>1, PtAssumption DEF PtTypeOK
    <3>4. PICK S \in SUBSET PtSpaces : S = spaces \cup {s}
      BY <3>3, Zenon
    <3>5. /\ spaces' = S /\ spaces \subseteq S /\ S \subseteq spaces \cup {s} /\ (s \in S => e = Entries - 1)
      BY <3>1, <3>3, <3>4, Zenon
    <3>6. PICK n \in OpTypes : n = NoOp
      BY ApartNoOp, Zenon
    <3>7. op' = [op EXCEPT ![c] = n] /\ ~HoldsBit(n) /\ OpSound(n)'
      BY <3>1, <3>2, <3>6, ApartNoOp, Zenon
    <3> QED  BY <3>5, <3>6, <3>7, Zenon
  <2>2. CASE e + 1 # Entries
    <3>1. PICK x \in KernelEntries : x = e + 1
      BY <1>9, <2>2, PtAssumption DEF KernelEntries
    <3>2. PICK n \in OpTypes : n = [o EXCEPT !.from = x, !.at = x, !.end = x]
      <4>1. x \in Nat
        BY <1>9, <3>1
      <4> QED  BY <4>1, Zenon DEF OpTypes
    <3>3. op' = [op EXCEPT ![c] = n] /\ spaces' = spaces
      BY <1>1, <1>5, <2>2, <3>1, <3>2, Zenon DEF CloneEntry
    <3>4. n.kind = "clone" /\ n.pc = "entry" /\ n.space = s /\ n.from = x /\ n.at = x /\ n.end = x /\ n.batch = {}
      BY <1>2, <1>4, <1>5, <3>2 DEF OpTypes
    <3>5. \A f \in Lower .. x - 1 : SharedIn(s, f)'
      <4>1. \A f \in Lower .. x - 1 : f = e \/ f \in Lower .. e - 1
        BY <1>9, <3>1, PtAssumption
      <4> QED  BY <1>16, <4>1, Zenon
    <3>6. OpSound(n)' /\ ~HoldsBit(n)
      BY <1>6, <3>3, <3>4, <3>5, Zenon DEF OpSound, Calls, HoldsBit
    <3> QED  BY <1>6, <1>7, <3>3, <3>4, <3>6, Zenon DEF PtTypeOK
  <2> QED  BY <2>1, <2>2, Zenon
<1>20. PtTypeOK'
  <2>1. tables' \in Seq([0 .. Fan - 1 -> Nat \cup {Absent}]) /\ Len(tables') = IF roots[a][e] = Absent THEN Len(tables) + 1 ELSE Len(tables)
    BY <1>7, <1>12, NewTables, Zenon DEF PtTypeOK
  <2>2. ASSUME NEW t \in PtSpaces, NEW f \in RootEntries, roots'[t][f] # Absent PROVE roots'[t][f] \in 1 .. Len(tables')
    <3>1. roots[t][f] # Absent => roots[t][f] \in 1 .. Len(tables)
      BY <1>7, Zenon DEF PtTypeOK
    <3>2. roots'[t][f] = k \/ roots'[t][f] = roots[t][f]
      BY <1>13, Zenon
    <3>3. k \in 1 .. Len(tables')
      BY <1>7, <1>10, <2>1, Zenon
    <3>4. roots[t][f] # Absent => roots[t][f] \in 1 .. Len(tables')
      BY <1>7, <2>1, <3>1
    <3> QED  BY <2>2, <3>2, <3>3, <3>4, Zenon
  <2>3. cr3' \in [PtCores -> spaces'] /\ PtBoot \in spaces'
    BY <1>2, <1>7, <1>19, Zenon DEF PtTypeOK
  <2> QED  BY <1>2, <1>7, <1>13, <1>19, <2>1, <2>2, <2>3 DEF PtTypeOK
<1>21. TablesApart'
  <2>1. ASSUME NEW t \in PtSpaces, NEW f \in RootEntries, roots[t][f] = k, roots[t][f] # Absent PROVE f = e
    <3>1. roots[a][e] # Absent
      BY <1>7, <1>10, <2>1 DEF PtTypeOK
    <3>2. roots[t][f] = roots[a][e]
      BY <1>10, <2>1, <3>1, Zenon
    <3> QED  BY <1>7, <1>9, <2>1, <3>2 DEF TablesApart
  <2>2. ASSUME NEW t \in PtSpaces, NEW f \in RootEntries, roots'[t][f] = k PROVE f = e
    BY <1>11, <1>13, <2>1, <2>2
  <2>3. ASSUME NEW t \in PtSpaces, NEW u \in PtSpaces, NEW f \in RootEntries, NEW g \in RootEntries,
               roots'[t][f] # Absent, roots'[t][f] = roots'[u][g]
        PROVE  f = g /\ (t = u \/ f >= Lower)
    <3>1. CASE roots'[t][f] = k
      BY <1>9, <2>2, <2>3, <3>1, Zenon
    <3>2. CASE roots'[t][f] # k
      <4>1. roots'[t][f] = roots[t][f] /\ roots'[u][g] = roots[u][g]
        BY <1>13, <2>3, <3>2, Zenon
      <4>2. roots[t][f] # Absent /\ roots[t][f] = roots[u][g]
        BY <2>3, <4>1, Zenon
      <4> QED  BY <1>7, <4>2 DEF TablesApart
    <3> QED  BY <3>1, <3>2, Zenon
  <2> QED  BY <2>3 DEF TablesApart
<1>22. AllShared'
  <2> SUFFICES ASSUME spaces' # {PtBoot}, NEW t \in spaces', NEW f \in KernelEntries PROVE SharedIn(t, f)'
    BY Zenon DEF AllShared
  <2>1. t \in spaces \/ t = s
    BY <1>19, Zenon
  <2>2. ASSUME t = s \/ s \in spaces' PROVE SharedIn(s, f)'
    <3>1. e = Entries - 1
      BY <1>6, <1>19, <2>2, Zenon
    <3>2. f = e \/ f \in Lower .. e - 1
      BY <3>1, PtAssumption DEF KernelEntries
    <3> QED  BY <1>16, <3>2, Zenon
  <2>3. CASE t \in spaces /\ spaces # {PtBoot}
    <3>1. SharedIn(t, f) /\ f \in RootEntries
      BY <1>7, <1>9, <2>3, Zenon DEF AllShared
    <3>2. roots'[t][f] = roots[t][f] /\ roots'[PtBoot][f] = roots[PtBoot][f]
      BY <1>14, <1>15, <1>17, <2>3, <3>1, Zenon DEF SharedIn
    <3> QED  BY <3>1, <3>2, Zenon DEF SharedIn
  <2>4. CASE t \in spaces /\ spaces = {PtBoot}
    <3>1. s \in spaces' /\ t = PtBoot
      BY <1>19, <2>4, Zenon
    <3> QED  BY <2>2, <3>1, Zenon DEF SharedIn
  <2> QED  BY <2>1, <2>2, <2>3, <2>4, Zenon
<1>23. ASSUME NEW d \in PtCores \ {c}, NEW p \in OpTypes, p = op[d] PROVE OpSound(p)' /\ OpsApart(n, p)
  <2>1. OpSound(p) /\ OpsApart(o, p) /\ p.space \in PtSpaces /\ (HoldsBit(p) => BitOf(p) \in lockBits)
    BY <1>1, <1>23, OfCall, Zenon DEF OpTypes
  <2>2. p.kind \in Calls => p.space \in spaces /\ RangeSound(p)
    BY <2>1, KindOf, Zenon DEF RangeSound
  <2>3. ASSUME p.kind \in Calls, p.pc \in {"table", "page", "trigger_page"}
        PROVE  roots'[p.space][Entry(p.at)] = roots[p.space][Entry(p.at)]
    <3>1. Entry(p.at) \in RootEntries
      BY <2>2, <2>3, AtPage, Zenon DEF RangeSound
    <3>2. <<p.space, Entry(p.at)>> \in lockBits
      BY <2>1, <2>3, Zenon DEF HoldsBit, BitOf
    <3>3. ~(p.space = a /\ Entry(p.at) = e)
      BY <1>12, <3>2, Zenon
    <3> QED  BY <1>17, <2>2, <2>3, <3>1, <3>3, Zenon
  <2>4. p.kind \in Calls => p.space \in spaces' /\ \A v \in p.from .. p.end - 1 : VirtToPhys(p.space, v)' = VirtToPhys(p.space, v)
    BY <1>18, <1>19, <2>2, Zenon DEF RangeSound
  <2>5. ASSUME p.kind = "lower" PROVE Lowered'
    <3>1. Lowered
      BY <2>1, <2>5, Zenon DEF OpSound
    <3>2. \A f \in 0 .. Lower - 1 : f \in RootEntries /\ f # e
      BY <1>9, PtAssumption DEF RootEntries
    <3> QED  BY <1>7, <1>13, <3>1, <3>2, Zenon DEF Lowered
  <2>6. ASSUME p.kind = "clone" PROVE p.space \notin spaces' /\ p.space # s /\ \A f \in Lower .. p.at - 1 : SharedIn(p.space, f)'
    <3>1. /\ p.space \notin spaces /\ p.at \in KernelEntries /\ \A f \in Lower .. p.at - 1 : SharedIn(p.space, f)
          /\ p.space # s
      BY <1>4, <1>5, <2>1, <2>6, Zenon DEF OpSound, OpsApart
    <3>2. ASSUME NEW f \in Lower .. p.at - 1 PROVE SharedIn(p.space, f)'
      <4>1. f \in RootEntries /\ SharedIn(p.space, f)
        BY <3>1, PtAssumption DEF KernelEntries, RootEntries
      <4>2. roots'[p.space][f] = roots[p.space][f]
        BY <1>8, <1>13, <2>1, <3>1, <4>1, Zenon
      <4>3. roots'[PtBoot][f] = roots[PtBoot][f]
        BY <1>15, <4>1, Zenon DEF SharedIn
      <4> QED  BY <4>1, <4>2, <4>3, Zenon DEF SharedIn
    <3> QED  BY <1>19, <3>1, <3>2, Zenon
  <2>7. OpSound(p)'
    BY <2>1, <2>3, <2>4, <2>5, <2>6, OpFrame, Zenon
  <2>8. OpsApart(n, p)
    <3>1. CASE n = NoOp
      BY <3>1, ApartNoOp, Zenon
    <3>2. CASE n.kind = "clone" /\ n.space = s /\ n.from = n.end
      <4>1. PICK x \in Nat : n.from = x /\ n.end = x
        BY <3>2, Zenon DEF OpTypes
      <4>2. x .. x - 1 = {}
        OBVIOUS
      <4> QED  BY <1>19, <2>6, <3>2, <4>1, <4>2, Zenon DEF OpsApart, Covers
    <3> QED  BY <1>19, <3>1, <3>2, Zenon
  <2> QED  BY <2>7, <2>8, Zenon
<1>24. ShootSound(c)'
  BY <1>2, <1>3, Zenon DEF ShootSound
<1>25. ASSUME NEW x \in PtCores, NEW v \in DOMAIN tlb[x], tlb[x][v] = VirtToPhys(cr3[x], v) \/ WillDrop(c, x, v)
       PROVE  tlb[x][v] = VirtToPhys(cr3[x], v)' \/ WillDrop(c, x, v)'
  <2>1. PICK t \in PtSpaces : t \in spaces /\ t = cr3[x] /\ t = cr3'[x]
    BY <1>2, <1>7, Zenon DEF PtTypeOK
  <2>2. v \in Pages /\ tlb[x][v] = VirtToPhys(t, v)
    BY <1>1, <1>4, <1>7, <1>25, <2>1, Zenon DEF PtTypeOK, WillDrop
  <2>3. VirtToPhys(t, v)' = VirtToPhys(t, v)
    BY <1>18, <2>1, <2>2, Zenon
  <2> QED  BY <2>1, <2>2, <2>3, Zenon
<1>26. \A d \in PtCores \ {c} : shoot'[d] = shoot[d] /\ (HoldsBit(op[d]) => BitOf(op[d]) \in lockBits')
  BY <1>2, OfCall, Zenon
<1> QED  BY <1>2, <1>19, <1>20, <1>21, <1>22, <1>23, <1>24, <1>25, <1>26, CallStep, Zenon

-----------------------------------------------------------------------------
(* Together *)

\* Every step keeps the invariant.
LEMMA PtStep == ASSUME PtInv, [PtNext]_ptVars PROVE PtInv'
<1>1. CASE UNCHANGED ptVars
  BY <1>1, PtStutter, Zenon
<1>2. ASSUME NEW c \in PtCores,
             \/ PtCall(c) \/ PtLock(c) \/ PtProbe(c) \/ PtTable(c) \/ PtPage(c) \/ PtUnlock(c)
             \/ PtTrigger(c) \/ PtTriggered(c) \/ \E d \in PtCores : PtInvalidate(c, d)
             \/ UnmapLowerHalf(c) \/ CloneEntry(c)
             \/ \E s \in PtSpaces : CloneUpperHalf(c, s) \/ SetAsid(c, s)
             \/ \E v \in PtWatched : Translate(c, v)
      PROVE  PtInv'
  <2>1. CASE PtCall(c)
    BY <2>1, PtCallStep, Zenon
  <2>2. CASE PtLock(c)
    BY <2>2, PtLockStep, Zenon
  <2>3. CASE PtProbe(c)
    BY <2>3, PtProbeStep, Zenon
  <2>4. CASE PtTable(c)
    BY <2>4, PtTableStep, Zenon
  <2>5. CASE PtPage(c)
    BY <2>5, PtPageStep, Zenon
  <2>6. CASE PtUnlock(c)
    BY <2>6, PtUnlockStep, Zenon
  <2>7. CASE PtTrigger(c)
    BY <2>7, PtTriggerStep, Zenon
  <2>8. CASE PtTriggered(c)
    BY <2>8, PtTriggeredStep, Zenon
  <2>9. CASE \E d \in PtCores : PtInvalidate(c, d)
    BY <2>9, PtInvalidateStep, Zenon
  <2>10. CASE UnmapLowerHalf(c)
    BY <2>10, UnmapLowerHalfStep, Zenon
  <2>11. CASE CloneEntry(c)
    BY <2>11, CloneEntryStep, Zenon
  <2>12. ASSUME NEW s \in PtSpaces, CloneUpperHalf(c, s) PROVE PtInv'
    BY <2>12, CloneUpperHalfStep, Zenon
  <2>13. ASSUME NEW s \in PtSpaces, SetAsid(c, s) PROVE PtInv'
    BY <2>13, SetAsidStep, Zenon
  <2>14. ASSUME NEW v \in PtWatched, Translate(c, v) PROVE PtInv'
    BY <2>14, TranslateStep, Zenon
  <2> QED  BY <1>2, <2>1, <2>2, <2>3, <2>4, <2>5, <2>6, <2>7, <2>8, <2>9, <2>10, <2>11, <2>12, <2>13, <2>14, Zenon
<1> QED  BY <1>1, <1>2, Zenon DEF PtNext

\* The invariant holds in every reachable state.
LEMMA PtAlways == PtSpec => []PtInv
<1>1. PtInit => PtInv
  BY PtInitInv, Zenon
<1>2. PtInv /\ [PtNext]_ptVars => PtInv'
  BY PtStep, Zenon
<1> QED  BY <1>1, <1>2, PTL DEF PtSpec

(* No core translates a page that no call is busy with otherwise than the  *)
(* tables do: when vm_unmap has returned, the frame may go to somebody     *)
(* else, however many cores share the tables and however large they are.   *)
THEOREM NoTranslationLeft == PtSpec => []NoStaleTranslation
<1>1. PtInv => NoStaleTranslation
  <2> SUFFICES ASSUME PtInv PROVE NoStaleTranslation
    BY Zenon
  <2>1. TlbSound
    BY Zenon DEF PtInv
  <2>2. \A c, d \in PtCores : \A v \in DOMAIN tlb[c] : WillDrop(d, c, v) => Busy(cr3[c], v)
    BY Zenon DEF WillDrop, Busy
  <2> QED  BY <2>1, <2>2, Zenon DEF TlbSound, NoStaleTranslation
<1> QED  BY <1>1, PtAlways, PTL

(* All address spaces have the kernel's tables, whichever core filled a    *)
(* hole and whenever a space was cloned.                                   *)
THEOREM KernelInAllSpaces == PtSpec => []KernelShared
<1>1. PtInv => KernelShared
  <2> SUFFICES ASSUME PtInv, NEW s \in spaces, NEW t \in spaces, NEW e \in Lower .. Entries - 1
               PROVE  roots[s][e] = roots[t][e]
    BY Zenon DEF KernelShared
  <2>1. AllShared
    BY Zenon DEF PtInv
  <2>2. CASE spaces = {PtBoot}
    BY <2>2, Zenon
  <2>3. CASE spaces # {PtBoot}
    <3>1. SharedIn(s, e) /\ SharedIn(t, e)
      BY <2>1, <2>3, Zenon DEF AllShared, KernelEntries
    <3> QED  BY <3>1, Zenon DEF SharedIn
  <2> QED  BY <2>2, <2>3, Zenon
<1> QED  BY <1>1, PtAlways, PTL

(* What vm_map and vm_unmap have done so far stays done while other cores  *)
(* work on the same tables, and a range is mapped in order.                *)
THEOREM NoMappingUndone == PtSpec => []CallsTakeEffect
<1>1. PtInv => CallsTakeEffect
  <2> SUFFICES ASSUME PtInv PROVE CallsTakeEffect
    BY Zenon
  <2>1. ASSUME NEW c \in PtCores, NEW v \in op[c].from .. op[c].at - 1 PROVE op[c].kind \in Calls
    <3>1. PICK o \in OpTypes : o = op[c] /\ OpSound(o)
      BY OfCall, Zenon
    <3>2. o.kind \notin Calls => o.from = o.at
      BY <3>1, KindOf, Zenon
    <3>3. o.from = o.at => o.from .. o.at - 1 = {}
      <4>1. PICK x \in Nat : x = o.from
        BY Zenon DEF OpTypes
      <4>2. x .. x - 1 = {}
        OBVIOUS
      <4> QED  BY <4>1, <4>2, Zenon
    <3> QED  BY <2>1, <3>1, <3>2, <3>3, Zenon
  <2>2. \A c \in PtCores : op[c].kind \in Calls => PagesSound(op[c]) /\ OrderSound(op[c])
    BY OfCall, KindOf, Zenon
  <2>3. NoMappingLost
    BY <2>1, <2>2, Zenon DEF NoMappingLost, PagesSound
  <2>4. MapsInOrder
    BY <2>2, Zenon DEF MapsInOrder, OrderSound, Calls
  <2> QED  BY <2>3, <2>4, Zenon DEF CallsTakeEffect
<1> QED  BY <1>1, PtAlways, PTL
=============================================================================
