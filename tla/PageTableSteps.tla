---------------------------- MODULE PageTableSteps ----------------------------
(***************************************************************************)
(* The invariant of PageTable over the steps of the TLBs, the steps that add *)
(* a table or clear the lower half of a space, and its initial states.     *)
(***************************************************************************)
EXTENDS PageTableInvariant

-----------------------------------------------------------------------------
(* The TLBs *)

\* What a step has to see to that leaves the tables and the calls alone.
LEMMA TlbStep ==
    ASSUME PtInv, UNCHANGED <<roots, tables, lockBits, op, spaces>>,
           cr3' \in [PtCores -> spaces], DOMAIN tlb' = PtCores,
           \A e \in PtCores : \A v \in DOMAIN tlb'[e] : v \in Pages /\ tlb'[e][v] # Absent,
           shoot' \in [PtCores -> [pages : SUBSET Pages, asid : PtSpaces \cup {Absent}, left : SUBSET PtCores]],
           \A e \in PtCores : ShootSound(e)', TlbSound'
    PROVE  PtInv'
<1>1. PtTypeOK'
  BY InvParts, Zenon DEF PtTypeOK
<1>2. TablesApart' /\ AllShared'
  BY TablesStay, Zenon DEF PtInv
<1>3. ASSUME NEW d \in PtCores PROVE OpSound(op[d])' /\ (HoldsBit(op[d]) => BitOf(op[d]) \in lockBits)'
  <2>1. PICK p : p = op[d]
    BY Zenon
  <2>2. OpSound(p)'
    BY <2>1, TablesStay, Zenon DEF PtInv
  <2>3. op'[d] = p
    BY <2>1, Zenon
  <2> QED  BY <2>1, <2>2, <2>3, Zenon DEF PtInv
<1>4. \A c, d \in PtCores : c # d => OpsApart(op[c], op[d])'
  BY DEF PtInv, OpsApart, Covers, HoldsBit, BitOf
<1> QED  BY <1>1, <1>2, <1>3, <1>4, Zenon DEF PtInv

\* The pages of the lower half.
LEMMA LowPages ==
    ASSUME NEW v \in Nat, v <= Lower * Fan - 1
    PROVE  v \in Pages /\ ~IsKernel(v)
<1>1. Lower \in Nat /\ Fan \in Nat /\ Fan > 0 /\ Entries \in Nat /\ Lower < Entries
  BY PtAssumption
<1>2. PICK q \in Nat, r \in 0 .. Fan - 1 : Entry(v) = q /\ v % Fan = r /\ v = Fan * q + r
  BY DivMod, Zenon
<1>3. Fan * Lower + Fan <= Fan * Entries /\ Lower * Fan = Fan * Lower /\ Fan * Lower \in Nat /\ Fan * Entries \in Nat
  BY <1>1, MulMono
<1>4. v \in Pages
  BY <1>1, <1>3 DEF Pages
<1>5. q < Lower
  <2>1. q = Lower => Fan * q = Fan * Lower
    BY Zenon
  <2>2. Lower < q => Fan * Lower + Fan <= Fan * q
    BY <1>1, MulMono, Zenon
  <2>3. Fan * q \in Nat
    BY <1>1
  <2> QED  BY <1>1, <1>2, <1>3, <2>1, <2>2, <2>3
<1> QED  BY <1>1, <1>2, <1>4, <1>5 DEF IsKernel

\* The pages of a call that shoots down translations lie in one half.
LEMMA LowEntries ==
    ASSUME NEW v \in Pages, Entry(v) < Lower
    PROVE  v \in 0 .. Lower * Fan - 1
<1>1. v \in Nat
  BY PagesNat, Zenon
<1>2. PICK q \in Nat, r \in 0 .. Fan - 1 : Entry(v) = q /\ v % Fan = r /\ v = Fan * q + r
  BY <1>1, DivMod, Zenon
<1>3. Lower \in Nat /\ Fan \in Nat /\ Fan * q + Fan <= Fan * Lower
  BY <1>2, MulMono, PtAssumption
<1>4. Lower * Fan = Fan * Lower /\ Fan * Lower \in Nat
  BY <1>3
<1> QED  BY <1>1, <1>2, <1>3, <1>4

\* An operation covers pages of one half.
LEMMA OneHalf ==
    ASSUME NEW o \in OpTypes, OpSound(o), o.kind \in {"unmap", "lower"}, NEW s, NEW v, Covers(o, s, v)
    PROVE  IsKernel(v) = IsKernel(o.from) /\ v \in Pages /\ (o.space = s \/ IsKernel(o.from))
<1>1. v \in o.from .. o.end - 1 /\ (o.space = s \/ IsKernel(v))
  BY Zenon DEF Covers
<1>2. CASE o.kind = "unmap"
  BY <1>1, <1>2, Zenon DEF OpSound, Calls, RangeSound
<1>3. CASE o.kind = "lower"
  <2>1. o.from = 0 /\ o.end = Lower * Fan /\ Lower * Fan \in Nat /\ 1 <= Lower * Fan
    BY <1>3, PtAssumption DEF OpSound
  <2>2. v \in Nat /\ v <= Lower * Fan - 1 /\ 0 <= Lower * Fan - 1
    BY <1>1, <2>1
  <2>3. ~IsKernel(v) /\ v \in Pages /\ ~IsKernel(0)
    BY <2>2, LowPages, Zenon
  <2> QED  BY <1>1, <2>1, <2>3 DEF IsKernel
<1> QED  BY <1>2, <1>3, Zenon

\* A core that drops translations keeps the invariant.
LEMMA PtInvalidateStep ==
    ASSUME PtInv, NEW c \in PtCores, NEW d \in PtCores, PtInvalidate(c, d) PROVE PtInv'
<1>1. d \in shoot[c].left /\ UNCHANGED <<roots, tables, lockBits, cr3, op, spaces>>
  BY Zenon DEF PtInvalidate
<1>2. PICK o \in OpTypes : o = op[c]
  BY OfCall, Zenon
<1>3. /\ OpSound(o) /\ o.kind \in {"unmap", "lower"} /\ shoot[c].asid = ShootAsid(c)
      /\ ShootSound(c) /\ shoot[c] \in [pages : SUBSET Pages, asid : PtSpaces \cup {Absent}, left : SUBSET PtCores]
  BY <1>1, <1>2, OfCall, Zenon DEF ShootSound
<1>4. /\ shoot' \in [PtCores -> [pages : SUBSET Pages, asid : PtSpaces \cup {Absent}, left : SUBSET PtCores]]
      /\ shoot'[c].pages = shoot[c].pages /\ shoot'[c].asid = shoot[c].asid /\ shoot'[c].left = shoot[c].left \ {d}
      /\ \A e \in PtCores \ {c} : shoot'[e] = shoot[e]
  <2>1. PICK n \in [pages : SUBSET Pages, asid : PtSpaces \cup {Absent}, left : SUBSET PtCores] :
            n = [shoot[c] EXCEPT !.left = shoot[c].left \ {d}]
    BY <1>3, Zenon
  <2>2. shoot' = [shoot EXCEPT ![c] = n]
    BY <2>1, Zenon DEF PtInvalidate
  <2>3. n.pages = shoot[c].pages /\ n.asid = shoot[c].asid /\ n.left = shoot[c].left \ {d}
    BY <1>3, <2>1, Zenon
  <2> QED  BY <2>2, <2>3, InvParts, Zenon DEF PtTypeOK
<1>5. /\ DOMAIN tlb' = PtCores
      /\ \A e \in PtCores : \A v \in DOMAIN tlb'[e] : v \in DOMAIN tlb[e] /\ tlb'[e][v] = tlb[e][v]
      /\ shoot[c].asid \in {Absent, cr3[d]} => \A v \in DOMAIN tlb'[d] : v \notin shoot[c].pages
  <2>1. DOMAIN tlb = PtCores
    BY InvParts, Zenon DEF PtTypeOK
  <2>2. CASE shoot[c].asid \in {Absent, cr3[d]}
    <3>1. tlb' = [tlb EXCEPT ![d] = [v \in DOMAIN tlb[d] \ shoot[c].pages |-> tlb[d][v]]]
      BY <2>2, Zenon DEF PtInvalidate, Restrict
    <3> QED  BY <2>1, <3>1, Zenon
  <2>3. CASE shoot[c].asid \notin {Absent, cr3[d]}
    BY <2>1, <2>3, Zenon DEF PtInvalidate
  <2> QED  BY <2>2, <2>3, Zenon
<1>6. \A e \in PtCores : ShootSound(e)'
  <2>1. \A e \in PtCores : ShootSound(e) /\ (Triggering(e) => Triggering(e)') /\ ShootAsid(e)' = ShootAsid(e)
    BY <1>1, Zenon DEF PtInv, Triggering, ShootAsid
  <2> QED  BY <1>1, <1>4, <2>1, Zenon DEF ShootSound
<1>7. TlbSound'
  <2> SUFFICES ASSUME NEW e \in PtCores, NEW v \in DOMAIN tlb'[e]
               PROVE  (tlb[e][v] = VirtToPhys(cr3[e], v) \/ \E x \in PtCores : WillDrop(x, e, v))'
    BY Zenon DEF TlbSound
  <2>1. v \in DOMAIN tlb[e] /\ tlb'[e][v] = tlb[e][v]
    BY <1>5, Zenon
  <2>2. VirtToPhys(cr3[e], v)' = VirtToPhys(cr3[e], v)
    BY <1>1, Zenon DEF VirtToPhys
  <2>3. ASSUME NEW x \in PtCores, WillDrop(x, e, v) PROVE WillDrop(x, e, v)'
    <3>1. op[x].kind \in {"unmap", "lower"} /\ Covers(op[x], cr3[e], v)
          /\ (v \in op[x].batch \/ (v \in shoot[x].pages /\ e \in shoot[x].left))
      BY <2>3, Zenon DEF WillDrop
    <3>2. CASE x # c
      BY <1>1, <1>4, <3>1, <3>2, Zenon DEF WillDrop
    <3>3. CASE x = c /\ ~(e = d /\ v \notin op[x].batch)
      BY <1>1, <1>4, <3>1, <3>3, Zenon DEF WillDrop
    <3>4. CASE x = c /\ e = d /\ v \notin op[x].batch
      <4>1. v \in shoot[c].pages
        BY <3>1, <3>4, Zenon
      <4>2. o.space = cr3[d] \/ IsKernel(o.from)
        BY <1>2, <1>3, <3>1, <3>4, OneHalf, Zenon
      <4>3. shoot[c].asid \in {Absent, cr3[d]}
        BY <1>2, <1>3, <4>2, Zenon DEF ShootAsid
      <4> QED  BY <1>5, <3>4, <4>1, <4>3, Zenon
    <3> QED  BY <3>2, <3>3, <3>4, Zenon
  <2>4. tlb[e][v] = VirtToPhys(cr3[e], v) \/ \E x \in PtCores : WillDrop(x, e, v)
    BY <2>1, Zenon DEF PtInv, TlbSound
  <2> QED  BY <2>1, <2>2, <2>3, <2>4, Zenon
<1>8. \A e \in PtCores : \A v \in DOMAIN tlb'[e] : v \in Pages /\ tlb'[e][v] # Absent
  BY <1>5, InvParts DEF PtTypeOK
<1>9. cr3' \in [PtCores -> spaces]
  BY <1>1, InvParts, Zenon DEF PtTypeOK
<1> QED  BY <1>1, <1>4, <1>5, <1>6, <1>7, <1>8, <1>9, TlbStep, Zenon

\* A core that loads another space forgets all translations.
LEMMA SetAsidStep ==
    ASSUME PtInv, NEW c \in PtCores, NEW s \in PtSpaces, SetAsid(c, s) PROVE PtInv'
<1>1. /\ s \in spaces /\ cr3' = [cr3 EXCEPT ![c] = s] /\ tlb' = [tlb EXCEPT ![c] = << >>]
      /\ UNCHANGED <<roots, tables, lockBits, op, shoot, spaces>>
  BY Zenon DEF SetAsid
<1>2. DOMAIN tlb' = PtCores /\ DOMAIN tlb'[c] = {} /\ \A e \in PtCores \ {c} : tlb'[e] = tlb[e]
  <2>1. DOMAIN tlb = PtCores /\ DOMAIN << >> = {}
    BY InvParts DEF PtTypeOK
  <2> QED  BY <1>1, <2>1, Zenon
<1>3. cr3' \in [PtCores -> spaces] /\ \A e \in PtCores \ {c} : cr3'[e] = cr3[e]
  BY <1>1, InvParts, Zenon DEF PtTypeOK
<1>4. \A e \in PtCores : \A v \in DOMAIN tlb'[e] : v \in Pages /\ tlb'[e][v] # Absent
  BY <1>2, InvParts, Zenon DEF PtTypeOK
<1>5. \A e \in PtCores : ShootSound(e)'
  BY <1>1, Zenon DEF PtInv, ShootSound, Triggering, ShootAsid
<1>6. TlbSound'
  <2> SUFFICES ASSUME NEW e \in PtCores, NEW v \in DOMAIN tlb'[e]
               PROVE  (tlb[e][v] = VirtToPhys(cr3[e], v) \/ \E x \in PtCores : WillDrop(x, e, v))'
    BY Zenon DEF TlbSound
  <2>1. e # c /\ tlb'[e] = tlb[e] /\ cr3'[e] = cr3[e]
    BY <1>2, <1>3, Zenon
  <2>2. VirtToPhys(cr3[e], v)' = VirtToPhys(cr3[e], v)
    BY <1>1, <2>1 DEF VirtToPhys
  <2>3. \A x \in PtCores : WillDrop(x, e, v) => WillDrop(x, e, v)'
    BY <1>1, <2>1, Zenon DEF WillDrop
  <2>4. tlb[e][v] = VirtToPhys(cr3[e], v) \/ \E x \in PtCores : WillDrop(x, e, v)
    BY <2>1, Zenon DEF PtInv, TlbSound
  <2> QED  BY <2>1, <2>2, <2>3, <2>4, Zenon
<1>7. shoot' \in [PtCores -> [pages : SUBSET Pages, asid : PtSpaces \cup {Absent}, left : SUBSET PtCores]]
  BY <1>1, InvParts, Zenon DEF PtTypeOK
<1> QED  BY <1>1, <1>2, <1>3, <1>4, <1>5, <1>6, <1>7, TlbStep, Zenon

\* A core that caches a translation caches what the tables say.
LEMMA TranslateStep ==
    ASSUME PtInv, NEW c \in PtCores, NEW v \in PtWatched, Translate(c, v) PROVE PtInv'
<1>1. VirtToPhys(cr3[c], v) # Absent /\ UNCHANGED <<roots, tables, lockBits, cr3, op, shoot, spaces>>
  BY Zenon DEF Translate
<1>2. v \in Pages
  BY PtAssumption, Zenon DEF Pages
<1>3. /\ DOMAIN tlb' = PtCores /\ \A e \in PtCores \ {c} : tlb'[e] = tlb[e]
      /\ \A w \in DOMAIN tlb'[c] : (w = v /\ tlb'[c][w] = VirtToPhys(cr3[c], v))
                                   \/ (w \in DOMAIN tlb[c] /\ tlb'[c][w] = tlb[c][w])
  <2>1. DOMAIN tlb = PtCores
    BY InvParts, Zenon DEF PtTypeOK
  <2>2. tlb' = [tlb EXCEPT ![c] = [w \in DOMAIN tlb[c] \cup {v} |-> IF w = v THEN VirtToPhys(cr3[c], v) ELSE tlb[c][w]]]
    BY Zenon DEF Translate
  <2> QED  BY <2>1, <2>2, Zenon
<1>4. \A e \in PtCores : \A w \in DOMAIN tlb'[e] : w \in Pages /\ tlb'[e][w] # Absent
  BY <1>1, <1>2, <1>3, InvParts DEF PtTypeOK
<1>5. \A e \in PtCores : ShootSound(e)'
  BY <1>1, Zenon DEF PtInv, ShootSound, Triggering, ShootAsid
<1>6. TlbSound'
  <2> SUFFICES ASSUME NEW e \in PtCores, NEW w \in DOMAIN tlb'[e]
               PROVE  (tlb[e][w] = VirtToPhys(cr3[e], w) \/ \E x \in PtCores : WillDrop(x, e, w))'
    BY Zenon DEF TlbSound
  <2>1. VirtToPhys(cr3[e], w)' = VirtToPhys(cr3[e], w)
    BY <1>1, Zenon DEF VirtToPhys
  <2>2. \A x \in PtCores : WillDrop(x, e, w) => WillDrop(x, e, w)'
    BY <1>1, Zenon DEF WillDrop
  <2>3. CASE w \in DOMAIN tlb[e] /\ tlb'[e][w] = tlb[e][w]
    BY <2>1, <2>2, <2>3, Zenon DEF PtInv, TlbSound
  <2>4. CASE e = c /\ w = v /\ tlb'[c][w] = VirtToPhys(cr3[c], v)
    BY <2>1, <2>4, Zenon
  <2> QED  BY <1>3, <2>3, <2>4, Zenon
<1>7. /\ shoot' \in [PtCores -> [pages : SUBSET Pages, asid : PtSpaces \cup {Absent}, left : SUBSET PtCores]]
      /\ cr3' \in [PtCores -> spaces]
  BY <1>1, InvParts, Zenon DEF PtTypeOK
<1> QED  BY <1>1, <1>3, <1>4, <1>5, <1>6, <1>7, TlbStep, Zenon

-----------------------------------------------------------------------------
(* Steps that change the tables *)

\* What is said of a call that the step does not touch.
LEMMA OpFrame ==
    ASSUME NEW p \in OpTypes, OpSound(p),
           p.kind \in Calls =>
             /\ p.space \in spaces'
             /\ p.pc \in {"table", "page", "trigger_page"} =>
                  roots'[p.space][Entry(p.at)] = roots[p.space][Entry(p.at)]
             /\ \A v \in p.from .. p.end - 1 : VirtToPhys(p.space, v)' = VirtToPhys(p.space, v),
           p.kind = "lower" => Lowered',
           p.kind = "clone" => p.space \notin spaces' /\ \A e \in Lower .. p.at - 1 : SharedIn(p.space, e)'
    PROVE  OpSound(p)'
<1>1. CASE p.kind \in Calls
  <2>1. RangeSound(p) /\ SeenSound(p) /\ PagesSound(p) /\ OrderSound(p)
    BY <1>1, Zenon DEF OpSound
  <2>2. RangeSound(p)'
    BY <1>1, <2>1, Zenon DEF RangeSound
  <2>3. SeenSound(p)'
    BY <1>1, <2>1, Zenon DEF SeenSound
  <2>4. /\ \A v \in p.from .. p.at - 1 : VirtToPhys(p.space, v)' = VirtToPhys(p.space, v)
        /\ \A v \in p.at .. p.end - 1 : VirtToPhys(p.space, v)' = VirtToPhys(p.space, v)
    <3>1. p.from \in Nat /\ p.at \in Nat /\ p.end \in Nat /\ p.from <= p.at /\ p.at <= p.end
      BY <2>1, Zenon DEF RangeSound, OpTypes
    <3> QED  BY <1>1, <3>1
  <2>5. PagesSound(p)'
    BY <2>1, <2>4, Zenon DEF PagesSound
  <2>6. OrderSound(p)'
    BY <2>1, <2>4, Zenon DEF OrderSound, HighAt
  <2> QED  BY <1>1, <2>2, <2>3, <2>5, <2>6, Zenon DEF OpSound, Calls
<1>2. CASE p.kind \notin Calls
  BY <1>2, Zenon DEF OpSound, Calls
<1> QED  BY <1>1, <1>2, Zenon

\* A new table maps nothing, and leaves the others as they are.
LEMMA NewTables ==
    ASSUME PtTypeOK, tables' = NewTable(tables)
    PROVE  /\ tables' \in Seq([0 .. Fan - 1 -> Nat \cup {Absent}]) /\ Len(tables') = Len(tables) + 1 /\ Len(tables) \in Nat
           /\ \A i \in 1 .. Len(tables) : tables'[i] = tables[i]
           /\ \A j \in 0 .. Fan - 1 : tables'[Len(tables) + 1][j] = Absent
<1>1. tables \in Seq([0 .. Fan - 1 -> Nat \cup {Absent}])
  BY Zenon DEF PtTypeOK
<1>2. PICK t \in [0 .. Fan - 1 -> Nat \cup {Absent}] : t = [i \in 0 .. Fan - 1 |-> Absent] /\ \A j \in 0 .. Fan - 1 : t[j] = Absent
  <2>1. [i \in 0 .. Fan - 1 |-> Absent] \in [0 .. Fan - 1 -> Nat \cup {Absent}]
    BY Zenon
  <2> QED  BY <2>1, Zenon
<1>3. tables' = Append(tables, t)
  BY <1>2, Zenon DEF NewTable
<1> QED  BY <1>1, <1>2, <1>3

\* A new table maps nothing, and what an entry had is not changed by one.
LEMMA NewTableMapsNothing ==
    ASSUME PtTypeOK, NEW t \in PtSpaces, NEW v \in Pages, tables' = tables \/ tables' = NewTable(tables),
           \/ roots'[t][Entry(v)] = roots[t][Entry(v)]
           \/ /\ roots[t][Entry(v)] = Absent /\ tables' = NewTable(tables)
              /\ roots'[t][Entry(v)] = Len(tables) + 1
    PROVE  VirtToPhys(t, v)' = VirtToPhys(t, v)
<1>1. Entry(v) \in RootEntries /\ v % Fan \in 0 .. Fan - 1
  BY EntryOf, Zenon DEF RootEntries
<1>2. roots[t][Entry(v)] # Absent => roots[t][Entry(v)] \in 1 .. Len(tables)
  BY <1>1, Zenon DEF PtTypeOK
<1>3. CASE roots'[t][Entry(v)] = roots[t][Entry(v)]
  BY <1>2, <1>3, NewTables, Zenon DEF VirtToPhys
<1>4. CASE /\ roots[t][Entry(v)] = Absent /\ tables' = NewTable(tables)
           /\ roots'[t][Entry(v)] = Len(tables) + 1
  <2>1. VirtToPhys(t, v) = Absent
    BY <1>4, Zenon DEF VirtToPhys
  <2>2. tables'[Len(tables) + 1][v % Fan] = Absent
    BY <1>1, <1>4, NewTables, Zenon
  <2>3. VirtToPhys(t, v)' = Absent
    BY <1>4, <2>2, Zenon DEF VirtToPhys
  <2> QED  BY <2>1, <2>3, Zenon
<1> QED  BY <1>3, <1>4, Zenon

\* Adding a table keeps the invariant: it belongs to one entry.
LEMMA PtTableStep ==
    ASSUME PtInv, NEW c \in PtCores, PtTable(c) PROVE PtInv'
<1>1. PICK o \in OpTypes : o = op[c]
  BY OfCall, Zenon
<1>2. o.pc = "table" /\ UNCHANGED <<lockBits, cr3, tlb, shoot, spaces>>
  BY <1>1, Zenon DEF PtTable
<1>3. OpSound(o)
  BY <1>1, OfCall, Zenon
<1>4. o.kind \in Calls /\ RangeSound(o) /\ SeenSound(o)
  BY <1>2, <1>3, KindOf, Zenon
<1>5. PICK s \in PtSpaces, E \in RootEntries : s = o.space /\ E = Entry(o.at)
  BY <1>2, <1>4, AtPage, Zenon DEF OpTypes, RangeSound
<1>6. o.seen = roots[s][E] /\ s \in spaces /\ o.at \in Pages /\ o.at \in o.from .. o.end - 1
  BY <1>2, <1>4, <1>5, AtPage, Zenon DEF SeenSound, RangeSound
<1>7. PtTypeOK /\ TablesApart /\ AllShared /\ Len(tables) \in Nat
  BY InvParts DEF PtTypeOK
<1>8. PICK k \in Nat : k = (IF o.seen = Absent THEN Len(tables) + 1 ELSE o.seen)
  BY <1>7 DEF OpTypes
<1>9. k # Absent
  BY PtAssumption, Zenon
<1>10. PICK n \in OpTypes : n = [o EXCEPT !.pc = "page", !.seen = k]
  BY Zenon DEF OpTypes
<1>11. op' = [op EXCEPT ![c] = n]
  BY <1>1, <1>8, <1>10, Zenon DEF PtTable
<1>12. /\ n.pc = "page" /\ n.kind = o.kind /\ n.space = o.space /\ n.from = o.from /\ n.at = o.at /\ n.end = o.end
       /\ n.base = o.base /\ n.phys = o.phys /\ n.high = o.high /\ n.batch = o.batch /\ n.seen = k
  BY <1>10 DEF OpTypes
<1>13. HoldsBit(o) /\ BitOf(n) = BitOf(o) /\ BitOf(o) = <<s, E>>
  BY <1>2, <1>5, <1>12, Zenon DEF HoldsBit, BitOf
<1>14. \A d \in PtCores \ {c}, p \in OpTypes : p = op[d] => OpsApart(n, p)
  BY <1>1, <1>12, <1>13, OfCall, ApartFrame
<1>15. ShootSound(c)' /\ \A e \in PtCores, v \in Pages : WillDrop(c, e, v) => WillDrop(c, e, v)'
  <2>1. op'[c] = n /\ shoot' = shoot /\ cr3' = cr3
    BY <1>2, <1>11, InvParts, Zenon DEF PtTypeOK
  <2>2. shoot[c].left = {}
    BY <1>1, <1>2, OfCall, Zenon DEF ShootSound, Triggering
  <2> QED  BY <1>1, <1>12, <2>1, <2>2, Zenon DEF WillDrop, Covers, ShootSound
<1>16. \A d \in PtCores \ {c} : HoldsBit(op[d]) => BitOf(op[d]) \in lockBits'
  BY <1>2, OfCall, Zenon
<1>17. BitOf(n) \in lockBits'
  BY <1>1, <1>2, <1>13, OfCall, Zenon
<1>18. /\ roots' \in [PtSpaces -> [RootEntries -> Nat \cup {Absent}]]
       /\ \A t \in PtSpaces, f \in RootEntries : roots'[t][f] = IF t = s /\ f = E THEN k ELSE roots[t][f]
       /\ IF o.seen = Absent THEN tables' = NewTable(tables) ELSE tables' = tables
  <2>1. CASE o.seen = Absent
    <3>1. roots' = [roots EXCEPT ![s][E] = k] /\ tables' = NewTable(tables)
      BY <1>1, <1>5, <1>8, <2>1, Zenon DEF PtTable
    <3> QED  BY <1>7, <2>1, <3>1, Zenon DEF PtTypeOK
  <2>2. CASE o.seen # Absent
    BY <1>1, <1>6, <1>7, <1>8, <2>2, Zenon DEF PtTable, PtTypeOK
  <2> QED  BY <2>1, <2>2, Zenon
<1>19. \A t \in PtSpaces, v \in Pages : VirtToPhys(t, v)' = VirtToPhys(t, v)
  <2> SUFFICES ASSUME NEW t \in PtSpaces, NEW v \in Pages PROVE VirtToPhys(t, v)' = VirtToPhys(t, v)
    BY Zenon
  <2>1. Entry(v) \in RootEntries
    BY EntryOf, Zenon DEF RootEntries
  <2>2. roots'[t][Entry(v)] = IF t = s /\ Entry(v) = E THEN k ELSE roots[t][Entry(v)]
    BY <1>18, <2>1, Zenon
  <2>3. \/ roots'[t][Entry(v)] = roots[t][Entry(v)]
        \/ /\ roots[t][Entry(v)] = Absent /\ tables' = NewTable(tables) /\ roots'[t][Entry(v)] = Len(tables) + 1
    BY <1>6, <1>8, <1>18, <2>2, Zenon
  <2> QED  BY <1>7, <1>18, <2>3, NewTableMapsNothing, Zenon
<1>20. PtTypeOK'
  <2>1. ASSUME NEW t \in PtSpaces, NEW f \in RootEntries, roots'[t][f] # Absent PROVE roots'[t][f] \in 1 .. Len(tables')
    <3>1. roots[t][f] # Absent => roots[t][f] \in 1 .. Len(tables)
      BY <1>7, Zenon DEF PtTypeOK
    <3>2. Len(tables') = IF o.seen = Absent THEN Len(tables) + 1 ELSE Len(tables)
      BY <1>7, <1>18, NewTables, Zenon
    <3>3. o.seen # Absent => o.seen \in 1 .. Len(tables)
      BY <1>6, <1>7, Zenon DEF PtTypeOK
    <3>4. roots'[t][f] = IF t = s /\ f = E THEN k ELSE roots[t][f]
      BY <1>18, Zenon
    <3> QED  BY <1>7, <1>8, <2>1, <3>1, <3>2, <3>3, <3>4
  <2>2. tables' \in Seq([0 .. Fan - 1 -> Nat \cup {Absent}])
    BY <1>7, <1>18, NewTables, Zenon DEF PtTypeOK
  <2> QED  BY <1>2, <1>7, <1>11, <1>18, <2>1, <2>2, Zenon DEF PtTypeOK
<1>21. o.seen = Absent \/ \A t \in PtSpaces, f \in RootEntries : roots'[t][f] = roots[t][f]
  BY <1>6, <1>8, <1>18, Zenon
<1>22. TablesApart'
  <2>1. ASSUME NEW t \in PtSpaces, NEW f \in RootEntries, o.seen = Absent, roots[t][f] # Absent
        PROVE  roots[t][f] # k
    BY <1>7, <1>8, <2>1 DEF PtTypeOK
  <2> QED  BY <1>7, <1>18, <1>21, <2>1 DEF TablesApart
<1>23. roots[PtBoot][E] = Absent \/ roots'[PtBoot][E] = roots[PtBoot][E]
  BY <1>6, <1>18, <1>21, PtAssumption, Zenon
<1>24. AllShared'
  <2>1. KernelEntries \subseteq RootEntries
    BY PtAssumption DEF KernelEntries, RootEntries
  <2>2. ASSUME spaces # {PtBoot}, NEW t \in spaces, NEW f \in KernelEntries PROVE SharedIn(t, f)'
    <3>1. SharedIn(t, f) /\ t \in PtSpaces /\ PtBoot \in PtSpaces /\ f \in RootEntries /\ SharedIn(s, f)
      BY <1>6, <1>7, <2>1, <2>2, PtAssumption, Zenon DEF AllShared, PtTypeOK
    <3>2. f = E => o.seen # Absent
      BY <1>6, <3>1, Zenon DEF SharedIn
    <3>3. roots'[t][f] = roots[t][f] /\ roots'[PtBoot][f] = roots[PtBoot][f]
      BY <1>18, <1>21, <3>1, <3>2, Zenon
    <3> QED  BY <3>1, <3>3, Zenon DEF SharedIn
  <2> QED  BY <1>2, <2>2, Zenon DEF AllShared
<1>25. ASSUME NEW d \in PtCores \ {c}, NEW p \in OpTypes, p = op[d] PROVE OpSound(p)'
  <2>1. OpSound(p) /\ OpsApart(o, p)
    BY <1>1, <1>25, OfCall, Zenon
  <2>2. p.kind \in Calls => p.space \in spaces' /\ \A v \in p.from .. p.end - 1 : VirtToPhys(p.space, v)' = VirtToPhys(p.space, v)
    <3>1. p.space \in PtSpaces
      BY Zenon DEF OpTypes
    <3> QED  BY <1>2, <1>19, <2>1, <3>1, KindOf, Zenon DEF RangeSound
  <2>3. ASSUME p.kind \in Calls, p.pc \in {"table", "page", "trigger_page"}
        PROVE  roots'[p.space][Entry(p.at)] = roots[p.space][Entry(p.at)]
    <3>1. RangeSound(p) /\ p.space \in PtSpaces
      BY <2>1, <2>3, Zenon DEF OpSound, OpTypes
    <3>2. Entry(p.at) \in RootEntries
      BY <2>3, <3>1, AtPage, Zenon DEF RangeSound
    <3>3. HoldsBit(p) /\ BitOf(p) = <<p.space, Entry(p.at)>>
      BY <2>3, Zenon DEF HoldsBit, BitOf
    <3>4. ~(p.space = s /\ Entry(p.at) = E)
      BY <1>13, <2>1, <3>3, Zenon DEF OpsApart
    <3> QED  BY <1>18, <3>1, <3>2, <3>4, Zenon
  <2>4. ASSUME p.kind = "lower" PROVE Lowered'
    <3>1. Lowered
      BY <2>1, <2>4, Zenon DEF OpSound
    <3>2. s = PtBoot => ~(E < Lower)
      <4>1. s = PtBoot => IsKernel(o.at)
        BY <1>4, <1>5, <1>6, Zenon DEF RangeSound
      <4> QED  BY <1>5, <4>1, PtAssumption DEF IsKernel, RootEntries
    <3>3. ASSUME NEW e \in 0 .. Lower - 1 PROVE roots'[PtBoot][e] = Absent
      <4>1. e \in RootEntries /\ e < Lower /\ PtBoot \in PtSpaces
        BY PtAssumption DEF RootEntries
      <4> QED  BY <1>18, <3>1, <3>2, <4>1, Zenon DEF Lowered
    <3> QED  BY <3>3, Zenon DEF Lowered
  <2>5. ASSUME p.kind = "clone" PROVE p.space \notin spaces' /\ \A e \in Lower .. p.at - 1 : SharedIn(p.space, e)'
    <3>1. p.space \notin spaces /\ p.at \in KernelEntries /\ p.space \in PtSpaces
      BY <2>1, <2>5, Zenon DEF OpSound, OpTypes
    <3>2. ASSUME NEW e \in Lower .. p.at - 1 PROVE SharedIn(p.space, e)'
      <4>1. SharedIn(p.space, e) /\ e \in RootEntries /\ PtBoot \in PtSpaces
        BY <2>1, <2>5, <3>1, PtAssumption DEF OpSound, KernelEntries, RootEntries
      <4>2. roots'[PtBoot][e] = roots[PtBoot][e]
        BY <1>18, <1>23, <4>1, Zenon DEF SharedIn
      <4>3. roots'[p.space][e] = roots[p.space][e]
        BY <1>6, <1>18, <3>1, <4>1, Zenon
      <4> QED  BY <4>1, <4>2, <4>3, Zenon DEF SharedIn
    <3> QED  BY <1>2, <3>1, <3>2, Zenon
  <2> QED  BY <2>1, <2>2, <2>3, <2>4, <2>5, OpFrame, Zenon
<1>26. OpSound(n)'
  <2>1. PagesSound(o) /\ OrderSound(o)
    BY <1>3, <1>4, Zenon DEF OpSound
  <2>2. \A v \in o.from .. o.end - 1 : VirtToPhys(o.space, v)' = VirtToPhys(o.space, v)
    BY <1>4, <1>5, <1>19, Zenon DEF RangeSound
  <2>3. o.from \in Nat /\ o.at \in Nat /\ o.end \in Nat /\ o.at < o.end
    BY <1>2, <1>4, Zenon DEF OpTypes, RangeSound
  <2>4. RangeSound(n)'
    BY <1>2, <1>4, <1>12, Zenon DEF RangeSound
  <2>5. SeenSound(n)'
    BY <1>5, <1>9, <1>12, <1>18, Zenon DEF SeenSound
  <2>6. /\ \A v \in o.from .. o.at - 1 : VirtToPhys(o.space, v)' = VirtToPhys(o.space, v)
        /\ \A v \in o.at .. o.end - 1 : VirtToPhys(o.space, v)' = VirtToPhys(o.space, v)
    <3>1. o.from <= o.at
      BY <1>4, Zenon DEF RangeSound
    <3> QED  BY <2>2, <2>3, <3>1
  <2>7. PagesSound(n)'
    <3>1. PagesSound(o)'
      BY <2>1, <2>6, Zenon DEF PagesSound
    <3> QED  BY <1>12, <3>1, Zenon DEF PagesSound
  <2>8. OrderSound(n)'
    BY <1>2, <1>12, <2>1, <2>2, <2>3 DEF OrderSound, HighAt
  <2> QED  BY <1>4, <1>12, <2>4, <2>5, <2>7, <2>8, Zenon DEF OpSound, Calls
<1>27. ASSUME NEW e \in PtCores, NEW v \in DOMAIN tlb[e] PROVE v \in Pages /\ VirtToPhys(cr3[e], v)' = VirtToPhys(cr3[e], v)
  <2>1. v \in Pages /\ cr3[e] \in PtSpaces /\ cr3' = cr3
    BY <1>2, <1>7, Zenon DEF PtTypeOK
  <2>2. PICK t \in PtSpaces : t = cr3[e]
    BY <2>1, Zenon
  <2>3. VirtToPhys(t, v)' = VirtToPhys(t, v)
    BY <1>19, <2>1, Zenon
  <2> QED  BY <2>1, <2>2, <2>3, Zenon
<1>28. \A d \in PtCores \ {c} : shoot'[d] = shoot[d]
  BY <1>2, Zenon
<1> QED  BY <1>2, <1>11, <1>14, <1>15, <1>16, <1>17, <1>20, <1>22, <1>24, <1>25, <1>26, <1>27, <1>28, CallStep, Zenon

\* Starting to unmap the lower half keeps the invariant.
LEMMA UnmapLowerHalfStep ==
    ASSUME PtInv, NEW c \in PtCores, UnmapLowerHalf(c) PROVE PtInv'
<1>1. op[c].kind = "none" /\ ~Lowered /\ UNCHANGED <<tables, lockBits, cr3, tlb, shoot, spaces>>
  BY Zenon DEF UnmapLowerHalf
<1>2. PICK n \in OpTypes : n = [NoOp EXCEPT !.kind = "lower", !.pc = "trigger_return", !.end = Lower * Fan, !.batch = Pages]
  <2>1. Lower * Fan \in Nat
    BY PtAssumption
  <2> QED  BY <2>1, ApartNoOp, Zenon DEF OpTypes, NoOp
<1>3. op' = [op EXCEPT ![c] = n]
  BY <1>2, Zenon DEF UnmapLowerHalf
<1>4. /\ n.kind = "lower" /\ n.pc = "trigger_return" /\ n.space = PtBoot /\ n.from = 0 /\ n.at = 0
      /\ n.end = Lower * Fan /\ n.batch = Pages
  BY <1>2, Zenon DEF NoOp
<1>5. PtTypeOK /\ TablesApart /\ AllShared /\ PtBoot \in PtSpaces
  BY PtAssumption, Zenon DEF PtInv
<1>6. /\ roots' \in [PtSpaces -> [RootEntries -> Nat \cup {Absent}]]
      /\ \A t \in PtSpaces, f \in RootEntries : roots'[t][f] = IF t = PtBoot /\ f < Lower THEN Absent ELSE roots[t][f]
  <2>1. PICK r \in [RootEntries -> Nat \cup {Absent}] :
          \A f \in RootEntries : r[f] = IF f < Lower THEN Absent ELSE roots[PtBoot][f]
    <3>1. [f \in RootEntries |-> IF f < Lower THEN Absent ELSE roots[PtBoot][f]] \in [RootEntries -> Nat \cup {Absent}]
      BY <1>5 DEF PtTypeOK
    <3> QED  BY <3>1, Zenon
  <2>2. roots' = [roots EXCEPT ![PtBoot] = r]
    <3>1. DOMAIN roots[PtBoot] = RootEntries
      BY <1>5, Zenon DEF PtTypeOK
    <3>2. [f \in DOMAIN roots[PtBoot] |-> IF f < Lower THEN Absent ELSE roots[PtBoot][f]] = r
      BY <2>1, <3>1, Zenon
    <3>3. roots' = [roots EXCEPT ![PtBoot] = [f \in DOMAIN roots[PtBoot] |-> IF f < Lower THEN Absent ELSE roots[PtBoot][f]]]
      BY Zenon DEF UnmapLowerHalf
    <3> QED  BY <3>2, <3>3, Zenon
  <2> QED  BY <1>5, <2>1, <2>2, Zenon DEF PtTypeOK
<1>7. PtTypeOK'
  BY <1>1, <1>3, <1>5, <1>6, Zenon DEF PtTypeOK
<1>8. TablesApart'
  BY <1>5, <1>6 DEF TablesApart
<1>9. \A t \in PtSpaces, f \in KernelEntries : f \in RootEntries /\ roots'[t][f] = roots[t][f]
  <2>1. \A f \in KernelEntries : f \in RootEntries /\ ~(f < Lower)
    BY PtAssumption DEF KernelEntries, RootEntries
  <2> QED  BY <1>6, <2>1, Zenon
<1>10. \A t \in PtSpaces, f \in KernelEntries : SharedIn(t, f) => SharedIn(t, f)'
  BY <1>5, <1>9, Zenon DEF SharedIn
<1>11. AllShared'
  BY <1>1, <1>5, <1>10, Zenon DEF AllShared, PtTypeOK
<1>12. Lowered'
  <2>1. \A e \in 0 .. Lower - 1 : e \in RootEntries /\ e < Lower
    BY PtAssumption DEF RootEntries
  <2> QED  BY <1>5, <1>6, <2>1, Zenon DEF Lowered
<1>13. OpSound(n)' /\ ~HoldsBit(n)
  BY <1>4, <1>12, Zenon DEF OpSound, Calls, HoldsBit
<1>14. ASSUME NEW t \in PtSpaces, NEW v \in Pages, t # PtBoot \/ IsKernel(v)
       PROVE  Entry(v) \in RootEntries /\ roots'[t][Entry(v)] = roots[t][Entry(v)] /\ VirtToPhys(t, v)' = VirtToPhys(t, v)
  <2>1. Entry(v) \in RootEntries
    BY EntryOf, Zenon DEF RootEntries
  <2>2. t # PtBoot \/ ~(Entry(v) < Lower)
    BY <1>14, <2>1, PtAssumption DEF IsKernel, RootEntries
  <2>3. roots'[t][Entry(v)] = roots[t][Entry(v)]
    BY <1>6, <2>1, <2>2, Zenon
  <2> QED  BY <1>1, <2>1, <2>3, Zenon DEF VirtToPhys
<1>15. ASSUME NEW d \in PtCores \ {c}, NEW p \in OpTypes, p = op[d] PROVE OpSound(p)' /\ OpsApart(n, p)
  <2>1. OpSound(p) /\ p.space \in PtSpaces
    <3>1. OpSound(p)
      BY <1>15, OfCall, Zenon
    <3> QED  BY <3>1, Zenon DEF OpTypes
  <2>2. ASSUME p.kind \in Calls, NEW v \in p.from .. p.end - 1
        PROVE  v \in Pages /\ (p.space # PtBoot \/ IsKernel(v))
    BY <2>1, <2>2, KindOf, Zenon DEF RangeSound
  <2>3. ASSUME p.kind \in Calls, p.pc \in {"table", "page", "trigger_page"}
        PROVE  roots'[p.space][Entry(p.at)] = roots[p.space][Entry(p.at)]
    <3>1. p.at \in p.from .. p.end - 1
      <4>1. RangeSound(p)
        BY <2>1, <2>3, KindOf, Zenon
      <4>2. p.at < p.end
        BY <2>3, <4>1, Zenon DEF RangeSound
      <4> QED  BY <4>1, <4>2, AtPage, Zenon
    <3> QED  BY <1>14, <2>1, <2>2, <2>3, <3>1, Zenon
  <2>4. p.kind \in Calls => p.space \in spaces' /\ \A v \in p.from .. p.end - 1 : VirtToPhys(p.space, v)' = VirtToPhys(p.space, v)
    BY <1>1, <1>14, <2>1, <2>2, KindOf, Zenon DEF RangeSound
  <2>5. ASSUME p.kind = "clone" PROVE p.space \notin spaces' /\ \A e \in Lower .. p.at - 1 : SharedIn(p.space, e)'
    <3>1. p.space \notin spaces /\ p.at \in KernelEntries /\ \A e \in Lower .. p.at - 1 : SharedIn(p.space, e)
      BY <2>1, <2>5, Zenon DEF OpSound
    <3>2. \A e \in Lower .. p.at - 1 : e \in KernelEntries
      BY <3>1, PtAssumption DEF KernelEntries
    <3> QED  BY <1>1, <1>10, <2>1, <3>1, <3>2, Zenon
  <2>6. OpSound(p)'
    BY <1>12, <2>1, <2>3, <2>4, <2>5, OpFrame, Zenon
  <2>7. ASSUME NEW t \in PtSpaces, NEW v \in Pages, Covers(n, t, v), Covers(p, t, v) PROVE FALSE
    <3>1. v \in Nat /\ v <= Lower * Fan - 1 /\ (PtBoot = t \/ IsKernel(v))
      <4>1. v \in 0 .. Lower * Fan - 1 /\ Lower * Fan \in Nat
        BY <1>4, <2>7, PtAssumption DEF Covers
      <4> QED  BY <1>4, <2>7, <4>1 DEF Covers
    <3>2. ~IsKernel(v)
      BY <3>1, LowPages, Zenon
    <3>3. p.kind # "none" /\ v \in p.from .. p.end - 1 /\ p.space = PtBoot
      BY <2>7, <3>1, <3>2, Zenon DEF Covers
    <3>4. p.kind \notin Calls
      BY <2>2, <3>2, <3>3, Zenon
    <3>5. p.kind # "lower"
      BY <1>1, <2>1, Zenon DEF OpSound
    <3>6. p.kind # "clone"
      BY <2>1, <3>3 DEF OpSound, OpTypes
    <3> QED  BY <3>3, <3>4, <3>5, <3>6, Zenon DEF OpTypes, Calls
  <2>8. OpsApart(n, p)
    BY <1>4, <1>13, <2>7, Zenon DEF OpsApart
  <2> QED  BY <2>6, <2>8, Zenon
<1>16. ShootSound(c)'
  <2>1. shoot[c].left = {}
    BY <1>1, OfCall, Zenon DEF ShootSound
  <2> QED  BY <1>1, <2>1, Zenon DEF ShootSound
<1>17. ASSUME NEW e \in PtCores, NEW v \in DOMAIN tlb[e], tlb[e][v] = VirtToPhys(cr3[e], v) \/ WillDrop(c, e, v)
       PROVE  tlb[e][v] = VirtToPhys(cr3[e], v)' \/ WillDrop(c, e, v)'
  <2>1. PICK t \in PtSpaces : t = cr3[e] /\ t = cr3'[e]
    BY <1>1, <1>5, Zenon DEF PtTypeOK
  <2>2. v \in Pages /\ tlb[e][v] = VirtToPhys(t, v)
    BY <1>1, <1>5, <1>17, <2>1, Zenon DEF PtTypeOK, WillDrop
  <2>3. CASE t # PtBoot \/ IsKernel(v)
    BY <1>14, <2>1, <2>2, <2>3, Zenon
  <2>4. CASE t = PtBoot /\ ~IsKernel(v)
    <3>1. Entry(v) < Lower
      BY <2>2, <2>4, EntryOf, PtAssumption DEF IsKernel
    <3>2. v \in 0 .. Lower * Fan - 1
      BY <2>2, <3>1, LowEntries, Zenon
    <3>3. op'[c] = n /\ Covers(n, t, v) /\ v \in n.batch
      BY <1>3, <1>4, <1>5, <2>2, <2>4, <3>2, Zenon DEF PtTypeOK, Covers
    <3> QED  BY <1>4, <2>1, <3>3, Zenon DEF WillDrop
  <2> QED  BY <2>3, <2>4, Zenon
<1>18. \A d \in PtCores \ {c} : shoot'[d] = shoot[d] /\ (HoldsBit(op[d]) => BitOf(op[d]) \in lockBits')
  BY <1>1, OfCall, Zenon
<1> QED  BY <1>1, <1>3, <1>7, <1>8, <1>11, <1>13, <1>15, <1>16, <1>17, <1>18, CallStep, Zenon

-----------------------------------------------------------------------------
(* The initial states, and steps that change nothing *)

\* The initial states satisfy the invariant.
LEMMA PtInitInv == ASSUME PtInit PROVE PtInv
<1>1. PICK t \in [0 .. Fan - 1 -> Nat \cup {Absent}] : t = [i \in 0 .. Fan - 1 |-> i]
  <2>1. \A i \in 0 .. Fan - 1 : i \in Nat \cup {Absent}
    BY PtAssumption
  <2> QED  BY <2>1, Zenon
<1>2. tables = <<t>> /\ tables \in Seq([0 .. Fan - 1 -> Nat \cup {Absent}]) /\ Len(tables) = 1
  BY <1>1 DEF PtInit
<1>3. /\ roots \in [PtSpaces -> [RootEntries -> Nat \cup {Absent}]]
      /\ \A s \in PtSpaces, e \in RootEntries : roots[s][e] = IF s = PtBoot /\ e = 0 THEN 1 ELSE Absent
  BY Zenon DEF PtInit, RootEntries
<1>4. Absent # 1 /\ PtBoot \in PtSpaces /\ NoOp \in OpTypes
  BY PtAssumption, ApartNoOp
<1>5. /\ op = [c \in PtCores |-> NoOp] /\ cr3 = [c \in PtCores |-> PtBoot] /\ spaces = {PtBoot}
      /\ tlb = [c \in PtCores |-> << >>] /\ shoot = [c \in PtCores |-> NoShoot]
  BY Zenon DEF PtInit
<1>6. NoShoot \in [pages : SUBSET Pages, asid : PtSpaces \cup {Absent}, left : SUBSET PtCores] /\ NoShoot.left = {}
  BY Zenon DEF NoShoot
<1>7. \A c \in PtCores : DOMAIN tlb[c] = {}
  BY <1>5
<1>8. PtTypeOK
  <2>1. \A s \in PtSpaces, e \in RootEntries : roots[s][e] # Absent => roots[s][e] \in 1 .. Len(tables)
    BY <1>2, <1>3
  <2>2. op \in [PtCores -> OpTypes] /\ cr3 \in [PtCores -> spaces]
    BY <1>4, <1>5, Zenon
  <2>3. shoot \in [PtCores -> [pages : SUBSET Pages, asid : PtSpaces \cup {Absent}, left : SUBSET PtCores]]
    BY <1>5, <1>6, Zenon
  <2>4. DOMAIN tlb = PtCores /\ spaces \in SUBSET PtSpaces /\ PtBoot \in spaces
    BY <1>4, <1>5, Zenon
  <2> QED  BY <1>2, <1>3, <1>7, <2>1, <2>2, <2>3, <2>4, Zenon DEF PtTypeOK
<1>9. TablesApart
  BY <1>3, <1>4, Zenon DEF TablesApart
<1>10. AllShared
  BY <1>5, Zenon DEF AllShared
<1>11. TlbSound
  BY <1>7, Zenon DEF TlbSound
<1>12. \A c \in PtCores : op[c] = NoOp /\ shoot[c].left = {}
  BY <1>5, <1>6, Zenon
<1>13. \A c \in PtCores : ShootSound(c)
  BY <1>12, Zenon DEF ShootSound
<1> QED  BY <1>8, <1>9, <1>10, <1>11, <1>12, <1>13, ApartNoOp, Zenon DEF PtInv

\* Nothing happens.
LEMMA PtStutter == ASSUME PtInv, UNCHANGED ptVars PROVE PtInv'
<1>1. UNCHANGED <<roots, tables, lockBits, cr3, tlb, op, shoot, spaces>>
  BY Zenon DEF ptVars
<1>2. PtTypeOK /\ TlbSound /\ \A e \in PtCores : ShootSound(e)
  BY InvParts, OfCall, Zenon
<1>3. \A e \in PtCores : ShootSound(e)'
  BY <1>1, <1>2, Zenon DEF ShootSound, Triggering, ShootAsid
<1>4. TlbSound'
  BY <1>1, <1>2, Zenon DEF TlbSound, WillDrop, VirtToPhys
<1>5. /\ cr3' \in [PtCores -> spaces] /\ DOMAIN tlb' = PtCores
      /\ \A e \in PtCores : \A v \in DOMAIN tlb'[e] : v \in Pages /\ tlb'[e][v] # Absent
      /\ shoot' \in [PtCores -> [pages : SUBSET Pages, asid : PtSpaces \cup {Absent}, left : SUBSET PtCores]]
  BY <1>1, <1>2, Zenon DEF PtTypeOK
<1> QED  BY <1>1, <1>3, <1>4, <1>5, TlbStep, Zenon
=============================================================================
