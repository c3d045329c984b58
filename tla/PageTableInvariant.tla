-------------------------- MODULE PageTableInvariant --------------------------
(***************************************************************************)
(* The inductive invariant of PageTable, for any number of cores, spaces,  *)
(* entries and pages, and the steps of a call that leave the tables and the *)
(* TLBs alone.                                                             *)
(***************************************************************************)
EXTENDS PageTable, TLAPS

-----------------------------------------------------------------------------
(* Pages, entries and places in a table *)

\* A page is at a place in a table, for an entry of the root.
LEMMA DivMod ==
    ASSUME NEW v \in Nat
    PROVE  \E q \in Nat, r \in 0 .. Fan - 1 : Entry(v) = q /\ v % Fan = r /\ v = Fan * q + r
<1>1. Fan \in Nat /\ Fan > 0
  BY PtAssumption
<1>2. v % Fan \in 0 .. Fan - 1
  BY <1>1
<1>3. Entry(v) \in Nat
  BY <1>1 DEF Entry
<1>4. PICK q \in Nat, r \in 0 .. Fan - 1 : Entry(v) = q /\ r = v % Fan
  BY <1>2, <1>3, Zenon
<1>5. v = Fan * q + r
  BY <1>1, <1>4 DEF Entry
<1> QED  BY <1>4, <1>5, Zenon

\* The first page of a later entry comes behind the pages of an earlier one.
LEMMA MulMono == \A a, b \in Nat : a < b => Fan * a + Fan <= Fan * b
BY PtAssumption

\* Pages are numbers.
LEMMA PagesNat == Pages \subseteq Nat /\ Fan * Entries \in Nat
BY PtAssumption DEF Pages

\* A page is in one entry of the upper table, at one place of the lower.
LEMMA EntryOf ==
    ASSUME NEW v \in Pages
    PROVE  Entry(v) \in 0 .. Entries - 1 /\ v % Fan \in 0 .. Fan - 1 /\ v \in Nat
<1>1. v \in Nat /\ v < Fan * Entries
  BY PtAssumption DEF Pages
<1>2. PICK q \in Nat, r \in 0 .. Fan - 1 : Entry(v) = q /\ v % Fan = r /\ v = Fan * q + r
  BY <1>1, DivMod, Zenon
<1>3. q < Entries
  BY <1>1, <1>2, MulMono, PtAssumption
<1> QED BY <1>1, <1>2, <1>3, PtAssumption

\* Entry and place name the page.
LEMMA SamePage ==
    ASSUME NEW v \in Nat, NEW w \in Nat, Entry(v) = Entry(w), v % Fan = w % Fan
    PROVE  v = w
<1>1. PICK q \in Nat, r \in 0 .. Fan - 1 : Entry(v) = q /\ v % Fan = r /\ v = Fan * q + r
  BY DivMod, Zenon
<1>2. PICK p \in Nat, s \in 0 .. Fan - 1 : Entry(w) = p /\ w % Fan = s /\ w = Fan * p + s
  BY DivMod, Zenon
<1> QED  BY <1>1, <1>2, Zenon

\* Pages in order have their entries in order.
LEMMA EntryMonotone ==
    ASSUME NEW v \in Nat, NEW w \in Nat, v <= w
    PROVE  Entry(v) <= Entry(w)
<1>1. PICK q \in Nat, r \in 0 .. Fan - 1 : Entry(v) = q /\ v % Fan = r /\ v = Fan * q + r
  BY DivMod, Zenon
<1>2. PICK p \in Nat, s \in 0 .. Fan - 1 : Entry(w) = p /\ w % Fan = s /\ w = Fan * p + s
  BY DivMod, Zenon
<1>3. Fan \in Nat /\ Fan > 0
  BY PtAssumption
<1>4. ~(p < q)
  <2>1. p < q => Fan * p + Fan <= Fan * q
    BY MulMono, Zenon
  <2>2. Fan * p \in Nat /\ Fan * q \in Nat
    BY <1>3
  <2> QED  BY <1>1, <1>2, <1>3, <2>1, <2>2
<1> QED  BY <1>1, <1>2, <1>4

\* The next page is in the same entry or first in the next.
LEMMA EntryNext ==
    ASSUME NEW v \in Nat
    PROVE  /\ (v + 1) % Fan = 0 => Entry(v + 1) = Entry(v) + 1 /\ v + 1 = Fan * Entry(v + 1)
           /\ (v + 1) % Fan # 0 => Entry(v + 1) = Entry(v)
<1>1. PICK q \in Nat, r \in 0 .. Fan - 1 : Entry(v) = q /\ v % Fan = r /\ v = Fan * q + r
  BY DivMod, Zenon
<1> v + 1 \in Nat
  OBVIOUS
<1>2. PICK p \in Nat, s \in 0 .. Fan - 1 : Entry(v + 1) = p /\ (v + 1) % Fan = s /\ v + 1 = Fan * p + s
  <2>1. PICK w \in Nat : w = v + 1
    BY Zenon
  <2> QED  BY <2>1, DivMod, Zenon
<1>3. Fan \in Nat /\ Fan > 0 /\ Fan * p \in Nat /\ Fan * q \in Nat
  BY PtAssumption
<1>4. ~(p < q)
  <2>1. p < q => Fan * p + Fan <= Fan * q
    BY MulMono, Zenon
  <2> QED  BY <1>1, <1>2, <1>3, <2>1
<1>5. ~(q + 1 < p)
  <2>1. q + 1 < p => Fan * (q + 1) + Fan <= Fan * p
    BY MulMono
  <2>2. Fan * (q + 1) = Fan * q + Fan
    BY <1>3
  <2> QED  BY <1>1, <1>2, <1>3, <2>1, <2>2
<1>6. p = q \/ p = q + 1
  BY <1>4, <1>5
<1>7. CASE p = q
  BY <1>1, <1>2, <1>3, <1>7
<1>8. CASE p = q + 1
  <2>1. Fan * p = Fan * q + Fan
    BY <1>3, <1>8
  <2>2. s = 0
    BY <1>1, <1>2, <1>3, <2>1
  <2> QED  BY <1>1, <1>2, <1>3, <1>8, <2>2
<1> QED  BY <1>6, <1>7, <1>8, Zenon

\* The physical page that the upper level goes on with.
LEMMA NextHighOf ==
    ASSUME NEW n \in Nat
    PROVE  /\ NextHigh(n) \in Nat
           /\ \A q \in Nat, r \in 0 .. Fan - 1 : n = Fan * q + r => NextHigh(n) = Fan * q + Fan
<1>1. Fan \in Nat /\ Fan > 0 /\ n + Fan \in Nat
  BY PtAssumption
<1>2. PICK w \in Nat : w = n + Fan
  BY <1>1, Zenon
<1>3. PICK p \in Nat, s \in 0 .. Fan - 1 : Entry(w) = p /\ w % Fan = s /\ w = Fan * p + s
  BY DivMod, Zenon
<1>4. NextHigh(n) = p * Fan /\ p * Fan = Fan * p /\ Fan * p \in Nat
  BY <1>1, <1>2, <1>3 DEF NextHigh, Entry
<1>5. ASSUME NEW q \in Nat, NEW r \in 0 .. Fan - 1, n = Fan * q + r PROVE NextHigh(n) = Fan * q + Fan
  <2>1. Fan * (q + 1) = Fan * q + Fan /\ Fan * q \in Nat
    BY <1>1
  <2>2. w = Fan * (q + 1) + r
    BY <1>1, <1>2, <1>5, <2>1
  <2>3. p < q + 1 => Fan * p + Fan <= Fan * (q + 1)
    BY MulMono
  <2>4. q + 1 < p => Fan * (q + 1) + Fan <= Fan * p
    BY MulMono
  <2>5. p = q + 1
    BY <1>1, <1>3, <1>4, <2>1, <2>2, <2>3, <2>4
  <2> QED  BY <1>4, <2>1, <2>5, Zenon
<1> QED  BY <1>4, <1>5, Zenon

\* The physical page with which the table is begun that page x is in.
HighAt(o, x) == o.high = IF Entry(x) = Entry(o.from) THEN o.base ELSE o.base + Fan * Entry(x) - o.from

\* The physical address goes on over the border between two tables.
LEMMA HighNext ==
    ASSUME NEW o, o.from \in Nat, o.base \in Nat, o.high \in Nat, NEW x \in Nat, o.from <= x,
           o.base % Fan = o.from % Fan, (x + 1) % Fan = 0, HighAt(o, x)
    PROVE  NextHigh(o.high) = o.base + (x + 1) - o.from
<1>1. PICK q \in Nat, r \in 0 .. Fan - 1 : Entry(o.from) = q /\ o.from % Fan = r /\ o.from = Fan * q + r
  BY DivMod, Zenon
<1>2. PICK p \in Nat, s \in 0 .. Fan - 1 : Entry(o.base) = p /\ o.base % Fan = s /\ o.base = Fan * p + s
  BY DivMod, Zenon
<1>3. PICK m \in Nat : m = Entry(x) /\ x + 1 = Fan * (m + 1) /\ q <= m
  <2>1. Entry(x + 1) = Entry(x) + 1 /\ x + 1 = Fan * Entry(x + 1)
    BY EntryNext, Zenon
  <2>2. Entry(x) \in Nat
    BY DivMod, Zenon
  <2>3. Entry(o.from) <= Entry(x)
    BY EntryMonotone, Zenon
  <2> QED  BY <1>1, <2>1, <2>2, <2>3, Zenon
<1>4. Fan \in Nat /\ Fan > 0 /\ Fan * q \in Nat /\ Fan * p \in Nat /\ Fan * (m + 1) = Fan * m + Fan /\ Fan * m \in Nat
  BY PtAssumption
<1>5. CASE m = q
  <2>1. NextHigh(o.high) = Fan * p + Fan
    BY <1>1, <1>2, <1>3, <1>5, NextHighOf DEF HighAt
  <2> QED  BY <1>1, <1>2, <1>3, <1>4, <1>5, <2>1
<1>6. CASE m # q
  <2>1. o.high = o.base + Fan * m - o.from
    BY <1>1, <1>3, <1>6, Zenon DEF HighAt
  <2>2. PICK k \in Nat : k = p + (m - q)
    BY <1>3
  <2>3. Fan * k = Fan * p + Fan * m - Fan * q
    BY <1>3, <1>4, <2>2
  <2>4. 0 \in 0 .. Fan - 1 /\ o.high = Fan * k + 0
    BY <1>1, <1>2, <1>4, <2>1, <2>3
  <2>5. NextHigh(o.high) = Fan * k + Fan
    BY <2>4, NextHighOf, Zenon
  <2> QED  BY <1>1, <1>2, <1>3, <1>4, <2>3, <2>5
<1> QED  BY <1>5, <1>6, Zenon

-----------------------------------------------------------------------------
(* The inductive invariant *)

Calls == {"map", "unmap"}
RootEntries == 0 .. Entries - 1
KernelEntries == Lower .. Entries - 1

OpTypes == [kind : {"none", "map", "unmap", "lower", "clone"},
            pc : {"out", "lock", "probe", "table", "page", "unlock", "trigger_page", "trigger_unlock",
                  "trigger_return", "entry"},
            space : PtSpaces, from : Nat, at : Nat, end : Nat, phys : Nat, high : Nat, base : Nat,
            seen : Nat \cup {Absent}, batch : SUBSET Pages]

PtTypeOK ==
    /\ roots \in [PtSpaces -> [RootEntries -> Nat \cup {Absent}]]
    /\ \A s \in PtSpaces, e \in RootEntries : roots[s][e] # Absent => roots[s][e] \in 1 .. Len(tables)
    /\ tables \in Seq([0 .. Fan - 1 -> Nat \cup {Absent}])
    /\ spaces \in SUBSET PtSpaces /\ PtBoot \in spaces
    /\ cr3 \in [PtCores -> spaces]
    /\ DOMAIN tlb = PtCores
    /\ \A c \in PtCores : \A v \in DOMAIN tlb[c] : v \in Pages /\ tlb[c][v] # Absent
    /\ op \in [PtCores -> OpTypes]
    /\ shoot \in [PtCores -> [pages : SUBSET Pages, asid : PtSpaces \cup {Absent}, left : SUBSET PtCores]]

\* A table is below one entry, of one space or of the upper halves.
TablesApart ==
    \A s, t \in PtSpaces, e, f \in RootEntries :
        roots[s][e] # Absent /\ roots[s][e] = roots[t][f] => e = f /\ (s = t \/ e >= Lower)

\* The boot space and space s have the same table below entry e.
SharedIn(s, e) == roots[s][e] = roots[PtBoot][e] /\ roots[s][e] # Absent

\* Once there is another space, the upper half has all its tables, and every space has them.
AllShared == spaces # {PtBoot} => \A s \in spaces, e \in KernelEntries : SharedIn(s, e)

\* The lock bit that a call holds is the one of the page it is at, or has just been at.
HoldsBit(o) == o.pc \in {"probe", "table", "page", "unlock", "trigger_page", "trigger_unlock"}
BitOf(o) == <<o.space, Entry(IF o.pc \in {"unlock", "trigger_unlock"} THEN o.at - 1 ELSE o.at)>>

RangeSound(o) ==
    /\ o.space \in spaces /\ o.from <= o.at /\ o.at <= o.end
    /\ \A v \in o.from .. o.end - 1 : v \in Pages /\ IsKernel(v) = IsKernel(o.from)
    /\ o.space = PtBoot => IsKernel(o.from)
    /\ o.pc \in {"lock", "probe", "table", "page", "trigger_page"} => o.at < o.end
    /\ o.pc \in {"unlock", "trigger_unlock", "trigger_return"} => o.from < o.at
    /\ o.pc \notin {"out", "entry"}
    /\ o.kind = "map" => o.pc \notin {"trigger_page", "trigger_unlock", "trigger_return"} /\ o.batch = {}

\* What a call has read of its entry is still there.
SeenSound(o) ==
    /\ o.pc = "table" => o.seen = roots[o.space][Entry(o.at)]
    /\ o.pc \in {"page", "trigger_page"} => o.seen = roots[o.space][Entry(o.at)] /\ o.seen # Absent

\* The pages behind a call are mapped or not as it wants, and those before it are still free.
PagesSound(o) ==
    /\ \A v \in o.from .. o.at - 1 : (VirtToPhys(o.space, v) = Absent) = (o.kind = "unmap")
    /\ o.kind = "map" => \A v \in o.at .. o.end - 1 : VirtToPhys(o.space, v) = Absent

\* The physical pages of a range whose base has the same place in a table.
OrderSound(o) ==
    (o.kind = "map" /\ o.base % Fan = o.from % Fan) =>
        /\ \A v \in o.from .. o.at - 1 : VirtToPhys(o.space, v) = o.base + v - o.from
        /\ o.pc \in {"lock", "probe", "table", "page"} => o.phys = o.base + o.at - o.from /\ HighAt(o, o.at)
        /\ o.pc = "unlock" => HighAt(o, o.at - 1) /\ (o.at < o.end => o.at % Fan = 0)

OpSound(o) ==
    /\ o.kind = "none" => o = NoOp
    /\ o.kind \in Calls => RangeSound(o) /\ SeenSound(o) /\ PagesSound(o) /\ OrderSound(o)
    /\ o.kind = "lower" => /\ o.pc = "trigger_return" /\ o.space = PtBoot /\ o.from = 0 /\ o.at = 0
                           /\ o.end = Lower * Fan /\ Lowered
    /\ o.kind = "clone" => /\ o.pc = "entry" /\ o.space \notin spaces /\ o.from = o.at /\ o.end = o.at
                           /\ o.at \in KernelEntries /\ o.batch = {}
                           /\ \A e \in Lower .. o.at - 1 : SharedIn(o.space, e)

\* Two cores are never at the same page, in the same entry, or filling the same space.
OpsApart(o, p) ==
    /\ \A s \in PtSpaces, v \in Pages : ~(Covers(o, s, v) /\ Covers(p, s, v))
    /\ HoldsBit(o) /\ HoldsBit(p) => BitOf(o) # BitOf(p)
    /\ o.kind = "clone" /\ p.kind = "clone" => o.space # p.space

\* A core that waits for others waits for the pages of its own call.
ShootSound(c) ==
    shoot[c].left # {} => op[c].kind \in {"unmap", "lower"} /\ Triggering(c) /\ shoot[c].asid = ShootAsid(c)

\* Core d will see that core c drops its translation of v.
WillDrop(d, c, v) ==
    /\ op[d].kind \in {"unmap", "lower"} /\ Covers(op[d], cr3[c], v)
    /\ v \in op[d].batch \/ (v \in shoot[d].pages /\ c \in shoot[d].left)

\* A translation is right, or about to be dropped.
TlbSound ==
    \A c \in PtCores : \A v \in DOMAIN tlb[c] :
        tlb[c][v] = VirtToPhys(cr3[c], v) \/ \E d \in PtCores : WillDrop(d, c, v)

PtInv ==
    /\ PtTypeOK /\ TablesApart /\ AllShared
    /\ \A c \in PtCores : OpSound(op[c]) /\ ShootSound(c) /\ (HoldsBit(op[c]) => BitOf(op[c]) \in lockBits)
    /\ \A c, d \in PtCores : c # d => OpsApart(op[c], op[d])
    /\ TlbSound

-----------------------------------------------------------------------------
(* Steps that leave most of the state alone *)

\* Where the tables, the roots and the set of spaces stay, so does what is said of a call.
LEMMA InvParts == ASSUME PtInv PROVE PtTypeOK /\ TablesApart /\ AllShared /\ TlbSound
BY Zenon DEF PtInv

\* Translations depend on the tables only.
LEMMA TablesStay ==
    ASSUME UNCHANGED <<roots, tables, spaces>>
    PROVE  /\ TablesApart' <=> TablesApart
           /\ AllShared' <=> AllShared
           /\ \A s, v : VirtToPhys(s, v)' = VirtToPhys(s, v)
           /\ \A o : OpSound(o) => OpSound(o)'
<1>1. \A s, v : VirtToPhys(s, v)' = VirtToPhys(s, v)
  BY Zenon DEF VirtToPhys
<1>2. TablesApart' <=> TablesApart
  BY DEF TablesApart
<1>3. AllShared' <=> AllShared
  BY Zenon DEF AllShared, SharedIn
<1>4. ASSUME NEW o, OpSound(o) PROVE OpSound(o)'
  <2>1. RangeSound(o) => RangeSound(o)'
    BY Zenon DEF RangeSound
  <2>2. SeenSound(o) => SeenSound(o)'
    BY Zenon DEF SeenSound
  <2>3. PagesSound(o) => PagesSound(o)'
    BY <1>1, Zenon DEF PagesSound
  <2>4. OrderSound(o) => OrderSound(o)'
    BY <1>1, Zenon DEF OrderSound, HighAt
  <2> QED  BY <1>4, <2>1, <2>2, <2>3, <2>4, Zenon DEF OpSound, Lowered, SharedIn
<1> QED  BY <1>1, <1>2, <1>3, <1>4, Zenon

\* Two operations are apart from each other.
LEMMA ApartSymmetric == \A o, p : OpsApart(o, p) => OpsApart(p, o)
BY Zenon DEF OpsApart

\* A call that goes on without a new lock bit keeps away from the others.
LEMMA ApartFrame ==
    ASSUME NEW o \in OpTypes, NEW n \in OpTypes, NEW p \in OpTypes, OpsApart(o, p),
           n.kind = o.kind, n.space = o.space, n.from = o.from, n.end = o.end,
           HoldsBit(n) => HoldsBit(o) /\ BitOf(n) = BitOf(o)
    PROVE  OpsApart(n, p)
BY Zenon DEF OpsApart, Covers

\* A core without an operation is apart from all.
LEMMA ApartNoOp == NoOp \in OpTypes /\ OpSound(NoOp) /\ ~HoldsBit(NoOp) /\ \A p : OpsApart(NoOp, p)
<1>1. NoOp \in OpTypes
  BY PtAssumption, Zenon DEF NoOp, OpTypes
<1>2. OpSound(NoOp)
  BY Zenon DEF OpSound, NoOp, Calls
<1>3. ~HoldsBit(NoOp)
  BY Zenon DEF HoldsBit, NoOp
<1>4. NoOp.kind = "none"
  BY Zenon DEF NoOp
<1> QED  BY <1>1, <1>2, <1>3, <1>4, Zenon DEF OpsApart, Covers

\* What a step of core c has to see to when it changes the state of its call.
LEMMA CallStep ==
    ASSUME PtInv, NEW c \in PtCores, NEW n \in OpTypes, op' = [op EXCEPT ![c] = n], UNCHANGED <<cr3, tlb>>,
           PtTypeOK', TablesApart', AllShared', OpSound(n)', ShootSound(c)',
           \A d \in PtCores \ {c} : shoot'[d] = shoot[d],
           \A d \in PtCores \ {c}, p \in OpTypes : p = op[d] => OpSound(p)' /\ OpsApart(n, p),
           HoldsBit(n) => BitOf(n) \in lockBits',
           \A d \in PtCores \ {c} : HoldsBit(op[d]) => BitOf(op[d]) \in lockBits',
           \A e \in PtCores : \A v \in DOMAIN tlb[e] :
               (tlb[e][v] = VirtToPhys(cr3[e], v) \/ WillDrop(c, e, v)) =>
                   (tlb[e][v] = VirtToPhys(cr3[e], v)' \/ WillDrop(c, e, v)')
    PROVE  PtInv'
<1>1. op \in [PtCores -> OpTypes]
  BY InvParts, Zenon DEF PtTypeOK
<1>2. op'[c] = n /\ \A d \in PtCores \ {c} : op'[d] = op[d] /\ op[d] \in OpTypes
  BY <1>1, Zenon
<1>3. ASSUME NEW d \in PtCores
      PROVE  OpSound(op[d])' /\ ShootSound(d)' /\ (HoldsBit(op[d]) => BitOf(op[d]) \in lockBits)'
  <2>1. CASE d = c
    BY <1>2, <2>1, Zenon
  <2>2. CASE d # c
    <3>1. PICK p \in OpTypes : p = op[d]
      BY <1>2, <2>2, Zenon
    <3>2. op'[d] = p /\ OpSound(p)'
      BY <1>2, <2>2, <3>1, Zenon
    <3>3. ShootSound(d)'
      <4>1. ShootSound(d) /\ shoot'[d] = shoot[d] /\ op'[d] = op[d]
        BY <1>2, <2>2, Zenon DEF PtInv
      <4> QED  BY <4>1, Zenon DEF ShootSound, Triggering, ShootAsid
    <3> QED  BY <2>2, <3>1, <3>2, <3>3, Zenon
  <2> QED  BY <2>1, <2>2, Zenon
<1>4. ASSUME NEW d \in PtCores, NEW e \in PtCores, d # e PROVE OpsApart(op'[d], op'[e])
  <2>1. CASE d = c
    BY <1>2, <1>4, <2>1, Zenon
  <2>2. CASE e = c
    BY <1>2, <1>4, <2>2, ApartSymmetric, Zenon
  <2>3. CASE d # c /\ e # c
    BY <1>2, <1>4, <2>3, Zenon DEF PtInv
  <2> QED  BY <2>1, <2>2, <2>3, Zenon
<1>5. TlbSound'
  <2> SUFFICES ASSUME NEW e \in PtCores, NEW v \in DOMAIN tlb[e]
               PROVE  tlb[e][v] = VirtToPhys(cr3[e], v)' \/ \E d \in PtCores : WillDrop(d, e, v)'
    BY Zenon DEF TlbSound
  <2>1. tlb[e][v] = VirtToPhys(cr3[e], v) \/ \E d \in PtCores : WillDrop(d, e, v)
    BY Zenon DEF PtInv, TlbSound
  <2>2. ASSUME NEW d \in PtCores \ {c}, WillDrop(d, e, v) PROVE WillDrop(d, e, v)'
    BY <1>2, <2>2, Zenon DEF WillDrop
  <2> QED  BY <2>1, <2>2, Zenon
<1>6. \A d, e \in PtCores : d # e => OpsApart(op[d], op[e])'
  BY <1>4, Zenon DEF OpsApart, Covers, HoldsBit, BitOf
<1> QED  BY <1>3, <1>5, <1>6, Zenon DEF PtInv

\* The same for a step that changes neither the tables nor what others do.
LEMMA QuietStep ==
    ASSUME PtInv, NEW c \in PtCores, NEW n \in OpTypes, op' = [op EXCEPT ![c] = n],
           UNCHANGED <<roots, tables, spaces, cr3, tlb>>,
           shoot' \in [PtCores -> [pages : SUBSET Pages, asid : PtSpaces \cup {Absent}, left : SUBSET PtCores]],
           \A d \in PtCores \ {c} : shoot'[d] = shoot[d],
           OpSound(n), ShootSound(c)',
           \A d \in PtCores \ {c}, p \in OpTypes : p = op[d] => OpsApart(n, p),
           HoldsBit(n) => BitOf(n) \in lockBits',
           \A d \in PtCores \ {c} : HoldsBit(op[d]) => BitOf(op[d]) \in lockBits',
           \A e \in PtCores : \A v \in DOMAIN tlb[e] : WillDrop(c, e, v) => WillDrop(c, e, v)'
    PROVE  PtInv'
<1>1. PtTypeOK'
  BY InvParts, Zenon DEF PtTypeOK
<1>2. TablesApart' /\ AllShared' /\ OpSound(n)' /\ \A s, v : VirtToPhys(s, v)' = VirtToPhys(s, v)
  BY TablesStay, Zenon DEF PtInv
<1>3. ASSUME NEW d \in PtCores \ {c}, NEW p \in OpTypes, p = op[d] PROVE OpSound(p)' /\ OpsApart(n, p)
  <2>1. OpSound(p)
    BY <1>3, Zenon DEF PtInv
  <2> QED  BY <1>3, <2>1, TablesStay, Zenon
<1>4. ASSUME NEW e \in PtCores, NEW v PROVE VirtToPhys(cr3[e], v)' = VirtToPhys(cr3[e], v)
  BY Zenon DEF VirtToPhys
<1> QED  BY <1>1, <1>2, <1>3, <1>4, CallStep, Zenon

\* What the invariant says of the call of one core.
LEMMA OfCall ==
    ASSUME PtInv, NEW c \in PtCores
    PROVE  /\ op[c] \in OpTypes /\ OpSound(op[c]) /\ ShootSound(c)
           /\ shoot[c] \in [pages : SUBSET Pages, asid : PtSpaces \cup {Absent}, left : SUBSET PtCores]
           /\ HoldsBit(op[c]) => BitOf(op[c]) \in lockBits
           /\ \A d \in PtCores \ {c} : OpsApart(op[c], op[d]) /\ op[d] \in OpTypes
           /\ \A d \in PtCores \ {c} : HoldsBit(op[d]) => BitOf(op[d]) \in lockBits
BY Zenon DEF PtInv, PtTypeOK

\* The kind of a call, from where it is.
LEMMA KindOf ==
    ASSUME NEW o \in OpTypes, OpSound(o)
    PROVE  /\ o.pc \in {"lock", "probe", "table", "page", "unlock", "trigger_page", "trigger_unlock"} =>
                o.kind \in Calls /\ RangeSound(o) /\ SeenSound(o) /\ PagesSound(o) /\ OrderSound(o)
           /\ o.pc \in {"trigger_page", "trigger_unlock"} => o.kind = "unmap"
           /\ o.pc = "trigger_return" => o.kind \in {"unmap", "lower"}
           /\ o.pc = "entry" => o.kind = "clone" /\ o.from = o.at /\ o.end = o.at /\ o.batch = {}
           /\ o.kind \notin Calls => o.from = o.at
           /\ o.kind \in Calls => RangeSound(o) /\ SeenSound(o) /\ PagesSound(o) /\ OrderSound(o)
<1>1. o.kind \in {"none", "lower", "clone"} \/ o.kind \in Calls
  BY Zenon DEF OpTypes, Calls
<1>2. CASE o.kind = "none"
  <2>1. o.pc = "out" /\ o.from = o.at
    BY <1>2 DEF OpSound, NoOp
  <2> QED  BY <1>2, <2>1, Zenon DEF Calls
<1>3. CASE o.kind = "lower"
  <2>1. o.pc = "trigger_return" /\ o.from = o.at
    BY <1>3, Zenon DEF OpSound
  <2> QED  BY <1>3, <2>1, Zenon DEF Calls
<1>4. CASE o.kind = "clone"
  <2>1. o.pc = "entry" /\ o.from = o.at /\ o.end = o.at /\ o.batch = {}
    BY <1>4, Zenon DEF OpSound
  <2> QED  BY <1>4, <2>1, Zenon DEF Calls
<1>5. CASE o.kind \in Calls
  <2>1. RangeSound(o) /\ SeenSound(o) /\ PagesSound(o) /\ OrderSound(o)
    BY <1>5, Zenon DEF OpSound
  <2>2. o.pc # "entry" /\ (o.kind = "map" => o.pc \notin {"trigger_page", "trigger_unlock", "trigger_return"})
    BY <2>1, Zenon DEF RangeSound
  <2> QED  BY <1>5, <2>1, <2>2, Zenon DEF Calls
<1> QED  BY <1>1, <1>2, <1>3, <1>4, <1>5, Zenon

\* Locking an entry keeps the invariant: nobody else holds the bit.
LEMMA PtLockStep ==
    ASSUME PtInv, NEW c \in PtCores, PtLock(c) PROVE PtInv'
<1>1. PICK o \in OpTypes : o = op[c]
  BY OfCall, Zenon
<1>2. o.pc = "lock" /\ <<o.space, Entry(o.at)>> \notin lockBits /\ lockBits' = lockBits \cup {<<o.space, Entry(o.at)>>}
      /\ UNCHANGED <<roots, tables, cr3, tlb, shoot, spaces>>
  BY <1>1, Zenon DEF PtLock, LockBitClear
<1>3. PICK n \in OpTypes : n = [o EXCEPT !.pc = "probe"]
  BY Zenon DEF OpTypes
<1>4. op' = [op EXCEPT ![c] = n]
  BY <1>1, <1>3, Zenon DEF PtLock
<1>5. /\ n.pc = "probe" /\ n.kind = o.kind /\ n.space = o.space /\ n.from = o.from /\ n.at = o.at /\ n.end = o.end
      /\ n.base = o.base /\ n.phys = o.phys /\ n.high = o.high /\ n.batch = o.batch
  BY <1>3, Zenon DEF OpTypes
<1>6. OpSound(o)
  BY <1>1, OfCall, Zenon
<1>7. o.kind \in Calls
  BY <1>2, <1>6, KindOf, Zenon
<1>8. OpSound(n)
  <2>1. RangeSound(n)
    BY <1>2, <1>5, <1>6, <1>7, Zenon DEF OpSound, RangeSound
  <2>2. SeenSound(n)
    BY <1>5, Zenon DEF SeenSound
  <2>3. PagesSound(n) /\ OrderSound(n)
    BY <1>2, <1>5, <1>6, <1>7 DEF OpSound, PagesSound, OrderSound, HighAt
  <2> QED  BY <1>5, <1>7, <2>1, <2>2, <2>3, Zenon DEF OpSound, Calls
<1>9. BitOf(n) = <<o.space, Entry(o.at)>>
  BY <1>5, Zenon DEF BitOf
<1>10. ASSUME NEW d \in PtCores \ {c}, NEW p \in OpTypes, p = op[d] PROVE OpsApart(n, p)
  <2>1. OpsApart(o, p) /\ (HoldsBit(p) => BitOf(p) # BitOf(n))
    BY <1>1, <1>2, <1>9, <1>10, OfCall, Zenon
  <2> QED  BY <1>5, <2>1, Zenon DEF OpsApart, Covers
<1>11. ShootSound(c)' /\ \A e \in PtCores : \A v \in DOMAIN tlb[e] : WillDrop(c, e, v) => WillDrop(c, e, v)'
  <2>1. op'[c] = n /\ shoot' = shoot /\ cr3' = cr3
    BY <1>2, <1>4, InvParts, Zenon DEF PtTypeOK
  <2>2. shoot[c].left = {}
    BY <1>1, <1>2, OfCall, Zenon DEF ShootSound, Triggering
  <2> QED  BY <1>1, <1>5, <2>1, <2>2, Zenon DEF WillDrop, Covers, ShootSound
<1>12. shoot' \in [PtCores -> [pages : SUBSET Pages, asid : PtSpaces \cup {Absent}, left : SUBSET PtCores]]
  BY <1>2, InvParts, Zenon DEF PtTypeOK
<1> QED  BY <1>2, <1>4, <1>8, <1>9, <1>10, <1>11, <1>12, OfCall, QuietStep, Zenon

\* The page that a call is at.
LEMMA AtPage ==
    ASSUME NEW o \in OpTypes, RangeSound(o)
    PROVE  /\ \A v \in o.from .. o.end - 1 : v \in Pages /\ v \in Nat /\ Entry(v) \in RootEntries /\ v % Fan \in 0 .. Fan - 1
           /\ o.at < o.end => o.at \in o.from .. o.end - 1
           /\ o.from < o.at => o.at - 1 \in o.from .. o.end - 1
<1>1. o.from \in Nat /\ o.at \in Nat /\ o.end \in Nat /\ o.from <= o.at /\ o.at <= o.end
  BY Zenon DEF OpTypes, RangeSound
<1>2. \A v \in o.from .. o.end - 1 : v \in Pages
  BY Zenon DEF RangeSound
<1> QED  BY <1>1, <1>2, EntryOf DEF RootEntries

\* Looking at an entry keeps the invariant.
LEMMA PtProbeStep ==
    ASSUME PtInv, NEW c \in PtCores, PtProbe(c) PROVE PtInv'
<1>1. PICK o \in OpTypes : o = op[c]
  BY OfCall, Zenon
<1>2. o.pc = "probe" /\ UNCHANGED <<roots, tables, lockBits, cr3, tlb, shoot, spaces>>
  BY <1>1, Zenon DEF PtProbe
<1>3. OpSound(o)
  BY <1>1, OfCall, Zenon
<1>4. o.kind \in Calls /\ RangeSound(o)
  BY <1>2, <1>3, KindOf, Zenon
<1>5. o.space \in PtSpaces /\ Entry(o.at) \in RootEntries
  BY <1>2, <1>4, AtPage, Zenon DEF OpTypes, RangeSound
<1>6. roots[o.space][Entry(o.at)] \in Nat \cup {Absent}
  BY <1>5, InvParts DEF PtTypeOK
<1>7. PICK n \in OpTypes : n = [o EXCEPT !.seen = roots[o.space][Entry(o.at)], !.pc = "table"]
  BY <1>6, Zenon DEF OpTypes
<1>8. op' = [op EXCEPT ![c] = n]
  BY <1>1, <1>7, Zenon DEF PtProbe
<1>9. /\ n.pc = "table" /\ n.kind = o.kind /\ n.space = o.space /\ n.from = o.from /\ n.at = o.at /\ n.end = o.end
      /\ n.base = o.base /\ n.phys = o.phys /\ n.high = o.high /\ n.batch = o.batch /\ n.seen = roots[o.space][Entry(o.at)]
  BY <1>7, Zenon DEF OpTypes
<1>10. OpSound(n)
  <2>1. RangeSound(n)
    BY <1>2, <1>4, <1>9, Zenon DEF RangeSound
  <2>2. SeenSound(n)
    BY <1>9, Zenon DEF SeenSound
  <2>3. PagesSound(n) /\ OrderSound(n)
    BY <1>2, <1>3, <1>4, <1>9 DEF OpSound, PagesSound, OrderSound, HighAt
  <2> QED  BY <1>4, <1>9, <2>1, <2>2, <2>3, Zenon DEF OpSound, Calls
<1>11. HoldsBit(o) /\ BitOf(n) = BitOf(o)
  BY <1>2, <1>9, Zenon DEF HoldsBit, BitOf
<1>12. ASSUME NEW d \in PtCores \ {c}, NEW p \in OpTypes, p = op[d] PROVE OpsApart(n, p)
  BY <1>1, <1>9, <1>11, <1>12, OfCall, ApartFrame
<1>13. ShootSound(c)' /\ \A e \in PtCores : \A v \in DOMAIN tlb[e] : WillDrop(c, e, v) => WillDrop(c, e, v)'
  <2>1. op'[c] = n /\ shoot' = shoot /\ cr3' = cr3
    BY <1>2, <1>8, InvParts, Zenon DEF PtTypeOK
  <2>2. shoot[c].left = {}
    BY <1>1, <1>2, OfCall, Zenon DEF ShootSound, Triggering
  <2> QED  BY <1>1, <1>9, <2>1, <2>2, Zenon DEF WillDrop, Covers, ShootSound
<1>14. shoot' \in [PtCores -> [pages : SUBSET Pages, asid : PtSpaces \cup {Absent}, left : SUBSET PtCores]]
  BY <1>2, InvParts, Zenon DEF PtTypeOK
<1>15. BitOf(n) \in lockBits'
  BY <1>1, <1>2, <1>11, OfCall, Zenon
<1>16. \A d \in PtCores \ {c} : HoldsBit(op[d]) => BitOf(op[d]) \in lockBits'
  BY <1>2, OfCall, Zenon
<1> QED  BY <1>2, <1>8, <1>10, <1>12, <1>13, <1>14, <1>15, <1>16, QuietStep, Zenon

\* The state of a call when its entry is unlocked.
LEMMA Unlocked ==
    ASSUME NEW o \in OpTypes, o.kind \in Calls, OpSound(o), o.pc = "unlock", o.at < o.end, NEW n \in OpTypes,
           n = [o EXCEPT !.pc = "lock", !.high = NextHigh(o.high), !.phys = NextHigh(o.high)]
    PROVE  OpSound(n)
<1>1. /\ n.pc = "lock" /\ n.kind = o.kind /\ n.space = o.space /\ n.from = o.from /\ n.at = o.at /\ n.end = o.end
      /\ n.base = o.base /\ n.batch = o.batch /\ n.high = NextHigh(o.high) /\ n.phys = NextHigh(o.high)
  BY DEF OpTypes
<1>2. RangeSound(n)
  BY <1>1, Zenon DEF OpSound, RangeSound
<1>3. SeenSound(n) /\ PagesSound(n)
  BY <1>1 DEF OpSound, SeenSound, PagesSound
<1>4. ASSUME o.kind = "map", o.base % Fan = o.from % Fan
      PROVE  n.phys = n.base + n.at - n.from /\ HighAt(n, n.at)
  <2>1. PICK x \in Nat : x = o.at - 1 /\ o.at = x + 1 /\ o.from <= x
    BY DEF OpSound, RangeSound, OpTypes
  <2>2. o.from \in Nat /\ o.base \in Nat /\ o.high \in Nat
    BY Zenon DEF OpTypes
  <2>3. HighAt(o, x) /\ (x + 1) % Fan = 0
    BY <1>4, <2>1, Zenon DEF OpSound, OrderSound
  <2>4. NextHigh(o.high) = o.base + (x + 1) - o.from
    BY <1>4, <2>1, <2>2, <2>3, HighNext, Zenon
  <2>5. Entry(x + 1) = Entry(x) + 1 /\ x + 1 = Fan * Entry(x + 1) /\ Entry(o.from) <= Entry(x) /\ Entry(x) \in Nat
        /\ Entry(o.from) \in Nat
    BY <2>1, <2>2, <2>3, EntryNext, EntryMonotone, DivMod, Zenon
  <2>6. Entry(x + 1) # Entry(o.from)
    BY <2>5
  <2> QED  BY <1>1, <2>1, <2>2, <2>4, <2>5, <2>6 DEF HighAt
<1>5. OrderSound(n)
  BY <1>1, <1>4, Zenon DEF OpSound, OrderSound
<1> QED  BY <1>1, <1>2, <1>3, <1>5, Zenon DEF OpSound, Calls

\* Unlocking an entry keeps the invariant.
LEMMA PtUnlockStep ==
    ASSUME PtInv, NEW c \in PtCores, PtUnlock(c) PROVE PtInv'
<1>1. PICK o \in OpTypes : o = op[c]
  BY OfCall, Zenon
<1>2. o.pc = "unlock" /\ lockBits' = lockBits \ {<<o.space, Entry(o.at - 1)>>}
      /\ UNCHANGED <<roots, tables, cr3, tlb, shoot, spaces>>
  BY <1>1, Zenon DEF PtUnlock
<1>3. OpSound(o)
  BY <1>1, OfCall, Zenon
<1>4. o.kind \in Calls /\ RangeSound(o)
  BY <1>2, <1>3, KindOf, Zenon
<1>5. HoldsBit(o) /\ BitOf(o) = <<o.space, Entry(o.at - 1)>>
  BY <1>2, Zenon DEF HoldsBit, BitOf
<1>6. PICK n \in OpTypes : /\ op' = [op EXCEPT ![c] = n] /\ ~HoldsBit(n) /\ OpSound(n)
                           /\ n = NoOp \/ (n.kind = o.kind /\ n.space = o.space /\ n.from = o.from /\ n.end = o.end /\ n.batch = o.batch)
                           /\ o.kind = "map" \/ n # NoOp
  <2>1. CASE o.at < o.end
    <3>1. NextHigh(o.high) \in Nat
      BY NextHighOf, Zenon DEF OpTypes
    <3>2. PICK n \in OpTypes : n = [o EXCEPT !.pc = "lock", !.high = NextHigh(o.high), !.phys = NextHigh(o.high)]
      BY <3>1, Zenon DEF OpTypes
    <3>3. op' = [op EXCEPT ![c] = n]
      <4>1. o.high = [o EXCEPT !.pc = "lock"].high
        BY Zenon DEF OpTypes
      <4> QED  BY <1>1, <2>1, <3>2, <4>1, Zenon DEF PtUnlock
    <3>4. n.pc = "lock" /\ n.kind = o.kind /\ n.space = o.space /\ n.from = o.from /\ n.end = o.end /\ n.batch = o.batch
      BY <3>2 DEF OpTypes
    <3>5. n # NoOp
      BY <3>4 DEF NoOp
    <3> QED  BY <1>2, <1>3, <1>4, <2>1, <3>2, <3>3, <3>4, <3>5, Unlocked, Zenon DEF HoldsBit
  <2>2. CASE ~(o.at < o.end) /\ o.kind = "unmap"
    <3>1. PICK n \in OpTypes : n = [o EXCEPT !.pc = "trigger_return"]
      BY Zenon DEF OpTypes
    <3>2. op' = [op EXCEPT ![c] = n]
      BY <1>1, <2>2, <3>1, Zenon DEF PtUnlock
    <3>3. n.pc = "trigger_return" /\ n.kind = o.kind /\ n.space = o.space /\ n.from = o.from /\ n.end = o.end
          /\ n.batch = o.batch /\ n.at = o.at
      BY <3>1, Zenon DEF OpTypes
    <3>4. n # NoOp
      BY <3>3 DEF NoOp
    <3>5. RangeSound(n) /\ SeenSound(n) /\ PagesSound(n) /\ OrderSound(n)
      BY <1>2, <1>3, <1>4, <2>2, <3>3 DEF OpSound, RangeSound, SeenSound, PagesSound, OrderSound
    <3>6. OpSound(n)
      BY <2>2, <3>3, <3>5, Zenon DEF OpSound, Calls
    <3> QED  BY <2>2, <3>2, <3>3, <3>4, <3>6, Zenon DEF HoldsBit
  <2>3. CASE ~(o.at < o.end) /\ o.kind # "unmap"
    <3>1. op' = [op EXCEPT ![c] = NoOp]
      BY <1>1, <2>3, Zenon DEF PtUnlock
    <3>2. o.kind = "map"
      BY <1>4, <2>3, Zenon DEF Calls
    <3> QED  BY <3>1, <3>2, ApartNoOp, Zenon
  <2> QED  BY <2>1, <2>2, <2>3, Zenon
<1>7. ASSUME NEW d \in PtCores \ {c}, NEW p \in OpTypes, p = op[d] PROVE OpsApart(n, p)
  <2>1. OpsApart(o, p)
    BY <1>1, <1>7, OfCall, Zenon
  <2> QED  BY <1>6, <2>1, ApartFrame, ApartNoOp, Zenon
<1>8. ShootSound(c)' /\ \A e \in PtCores : \A v \in DOMAIN tlb[e] : WillDrop(c, e, v) => WillDrop(c, e, v)'
  <2>1. op'[c] = n /\ shoot' = shoot /\ cr3' = cr3
    BY <1>2, <1>6, InvParts, Zenon DEF PtTypeOK
  <2>2. shoot[c].left = {}
    BY <1>1, <1>2, OfCall, Zenon DEF ShootSound, Triggering
  <2> QED  BY <1>1, <1>6, <2>1, <2>2, Zenon DEF WillDrop, Covers, ShootSound
<1>9. shoot' \in [PtCores -> [pages : SUBSET Pages, asid : PtSpaces \cup {Absent}, left : SUBSET PtCores]]
  BY <1>2, InvParts, Zenon DEF PtTypeOK
<1>10. \A d \in PtCores \ {c} : HoldsBit(op[d]) => BitOf(op[d]) \in lockBits'
  BY <1>1, <1>2, <1>5, OfCall, Zenon DEF OpsApart
<1> QED  BY <1>2, <1>6, <1>7, <1>8, <1>9, <1>10, QuietStep, Zenon

\* A new call, for a range whose pages no other call is busy with.
LEMMA PtCallStep ==
    ASSUME PtInv, NEW c \in PtCores, PtCall(c) PROVE PtInv'
<1>1. PICK o \in OpTypes : o = op[c]
  BY OfCall, Zenon
<1>2. o.kind = "none" /\ UNCHANGED <<roots, tables, lockBits, cr3, tlb, shoot, spaces>>
  BY <1>1, Zenon DEF PtCall
<1>3. PICK kind \in {"map", "unmap"}, s \in spaces, v \in Pages, m \in 1 .. Fan + 1, p \in PtBases \cup {0} :
         /\ v + m - 1 \in Pages /\ IsKernel(v) = IsKernel(v + m - 1)
         /\ s = PtBoot => IsKernel(v)
         /\ \A w \in v .. v + m - 1 : ~ Busy(s, w) /\ (VirtToPhys(s, w) = Absent) = (kind = "map")
         /\ op' = [op EXCEPT ![c] = CallOf(kind, s, v, m, p)]
  <2>1. PICK kind \in {"map", "unmap"}, s \in spaces, v \in Pages, m \in 1 .. Fan + 1 :
         /\ v + m - 1 \in Pages /\ IsKernel(v) = IsKernel(v + m - 1)
         /\ s = cr3[c] \/ ~ IsKernel(v)
         /\ s = PtBoot => IsKernel(v)
         /\ \A w \in v .. v + m - 1 : ~ Busy(s, w) /\ (VirtToPhys(s, w) = Absent) = (kind = "map")
         /\ \E p \in IF kind = "map" THEN PtBases ELSE {0} : op' = [op EXCEPT ![c] = CallOf(kind, s, v, m, p)]
    BY Zenon DEF PtCall
  <2>2. PICK p \in IF kind = "map" THEN PtBases ELSE {0} : op' = [op EXCEPT ![c] = CallOf(kind, s, v, m, p)]
    BY <2>1, Zenon
  <2>3. p \in PtBases \cup {0}
    BY <2>2, Zenon
  <2> QED  BY <2>1, <2>2, <2>3, Zenon
<1>4. p \in Nat /\ v \in Nat /\ m \in Nat \ {0} /\ s \in PtSpaces /\ Fan \in Nat
  BY <1>3, PtAssumption, PagesNat, InvParts DEF PtTypeOK
<1>5. PICK n \in OpTypes : n = CallOf(kind, s, v, m, p)
  <2>1. v + m \in Nat /\ kind \in {"none", "map", "unmap", "lower", "clone"}
    BY <1>3, <1>4
  <2> QED  BY <1>4, <2>1, ApartNoOp, ZenonT(40) DEF OpTypes, NoOp, CallOf
<1>6. /\ n.kind = kind /\ n.pc = "lock" /\ n.space = s /\ n.from = v /\ n.at = v /\ n.end = v + m
      /\ n.phys = p /\ n.high = p /\ n.base = p /\ n.batch = {}
  BY <1>5, Zenon DEF NoOp, CallOf
<1>7. op' = [op EXCEPT ![c] = n]
  BY <1>3, <1>5, Zenon
<1>8. RangeSound(n)
  <2>1. ASSUME NEW w \in n.from .. n.end - 1 PROVE w \in Pages /\ IsKernel(w) = IsKernel(n.from)
    <3>1. w \in Nat /\ v <= w /\ w <= v + m - 1 /\ v + m - 1 \in Nat
      BY <1>4, <1>6
    <3>2. w \in Pages
      BY <1>3, <3>1, PtAssumption DEF Pages
    <3>3. Entry(v) <= Entry(w) /\ Entry(w) <= Entry(v + m - 1)
      BY <1>4, <3>1, EntryMonotone, Zenon
    <3>4. Entry(v) \in Nat /\ Entry(w) \in Nat /\ Entry(v + m - 1) \in Nat
      BY <1>4, <3>1, DivMod, Zenon
    <3>5. IsKernel(w) = IsKernel(v)
      BY <1>3, <3>3, <3>4, PtAssumption DEF IsKernel
    <3> QED  BY <1>6, <3>2, <3>5, Zenon
  <2>2. n.from <= n.at /\ n.at <= n.end /\ n.at < n.end
    BY <1>4, <1>6
  <2> QED  BY <1>3, <1>6, <2>1, <2>2, Zenon DEF RangeSound
<1>9. SeenSound(n)
  BY <1>6, Zenon DEF SeenSound
<1>10. PagesSound(n)
  <2>1. v .. v - 1 = {} /\ v .. (v + m) - 1 = v .. v + m - 1
    BY <1>4
  <2> QED  BY <1>3, <1>6, <2>1, Zenon DEF PagesSound
<1>11. OrderSound(n)
  <2>1. v .. v - 1 = {} /\ p = p + v - v
    BY <1>4
  <2> QED  BY <1>6, <2>1, Zenon DEF OrderSound, HighAt
<1>12. OpSound(n) /\ ~HoldsBit(n)
  BY <1>3, <1>6, <1>8, <1>9, <1>10, <1>11, Zenon DEF OpSound, Calls, HoldsBit
<1>13. ASSUME NEW d \in PtCores \ {c}, NEW q \in OpTypes, q = op[d] PROVE OpsApart(n, q)
  <2>1. ASSUME NEW t \in PtSpaces, NEW w \in Pages, Covers(n, t, w), Covers(q, t, w) PROVE FALSE
    <3>1. w \in v .. v + m - 1 /\ (s = t \/ IsKernel(w))
      BY <1>4, <1>6, <2>1 DEF Covers
    <3>2. Covers(q, s, w)
      BY <2>1, <3>1, Zenon DEF Covers
    <3> QED  BY <1>3, <1>13, <3>1, <3>2, Zenon DEF Busy
  <2> QED  BY <1>3, <1>6, <1>12, <2>1, Zenon DEF OpsApart
<1>14. ShootSound(c)' /\ \A e \in PtCores : \A w \in DOMAIN tlb[e] : WillDrop(c, e, w) => WillDrop(c, e, w)'
  <2>1. shoot[c].left = {}
    BY <1>1, <1>2, OfCall, Zenon DEF ShootSound
  <2> QED  BY <1>1, <1>2, <2>1, Zenon DEF WillDrop, ShootSound
<1>15. shoot' \in [PtCores -> [pages : SUBSET Pages, asid : PtSpaces \cup {Absent}, left : SUBSET PtCores]]
  BY <1>2, InvParts, Zenon DEF PtTypeOK
<1>16. \A d \in PtCores \ {c} : HoldsBit(op[d]) => BitOf(op[d]) \in lockBits'
  BY <1>2, OfCall, Zenon
<1> QED  BY <1>2, <1>7, <1>12, <1>13, <1>14, <1>15, <1>16, QuietStep, Zenon

\* Sending the shoot-down keeps the invariant: every core has yet to drop what it covers.
LEMMA PtTriggerStep ==
    ASSUME PtInv, NEW c \in PtCores, PtTrigger(c) PROVE PtInv'
<1>1. PICK o \in OpTypes : o = op[c]
  BY OfCall, Zenon
<1>2. /\ o.pc \in {"trigger_page", "trigger_unlock", "trigger_return"} /\ shoot[c].left = {}
      /\ shoot' = [shoot EXCEPT ![c] = [pages |-> o.batch, asid |-> ShootAsid(c), left |-> PtCores]]
      /\ UNCHANGED <<roots, tables, lockBits, cr3, tlb, spaces>>
  BY <1>1, Zenon DEF PtTrigger, Triggering
<1>3. PICK n \in OpTypes : n = [o EXCEPT !.batch = {}]
  BY Zenon DEF OpTypes
<1>4. op' = [op EXCEPT ![c] = n]
  BY <1>1, <1>3, Zenon DEF PtTrigger
<1>5. /\ n.pc = o.pc /\ n.kind = o.kind /\ n.space = o.space /\ n.from = o.from /\ n.at = o.at /\ n.end = o.end
      /\ n.base = o.base /\ n.phys = o.phys /\ n.high = o.high /\ n.seen = o.seen /\ n.batch = {}
  BY <1>3, Zenon DEF OpTypes
<1>6. OpSound(o)
  BY <1>1, OfCall, Zenon
<1>7. o.kind \in {"unmap", "lower"}
  BY <1>2, <1>6, KindOf, Zenon
<1>8. OpSound(n)
  <2>1. CASE o.kind = "unmap"
    <3>1. RangeSound(n) /\ SeenSound(n) /\ PagesSound(n) /\ OrderSound(n)
      <4>1. RangeSound(o) /\ SeenSound(o) /\ PagesSound(o) /\ OrderSound(o)
        BY <1>6, <2>1, Zenon DEF OpSound, Calls
      <4>2. RangeSound(n) /\ SeenSound(n)
        BY <1>5, <4>1, Zenon DEF RangeSound, SeenSound
      <4>3. PagesSound(n) /\ OrderSound(n)
        BY <1>5, <2>1, <4>1, Zenon DEF PagesSound, OrderSound, HighAt
      <4> QED  BY <4>2, <4>3, Zenon
    <3> QED  BY <1>5, <2>1, <3>1, Zenon DEF OpSound, Calls
  <2>2. CASE o.kind = "lower"
    BY <1>5, <1>6, <2>2, Zenon DEF OpSound, Calls
  <2> QED  BY <1>7, <2>1, <2>2, Zenon
<1>9. (HoldsBit(n) => HoldsBit(o)) /\ BitOf(n) = BitOf(o)
  BY <1>5, Zenon DEF HoldsBit, BitOf
<1>10. ASSUME NEW d \in PtCores \ {c}, NEW p \in OpTypes, p = op[d] PROVE OpsApart(n, p)
  <2>1. OpsApart(o, p)
    BY <1>1, <1>10, OfCall, Zenon
  <2> QED  BY <1>5, <1>9, <2>1, ApartFrame, Zenon
<1>11. ShootAsid(c) \in PtSpaces \cup {Absent}
  BY <1>1, Zenon DEF ShootAsid, OpTypes
<1>12. /\ shoot' \in [PtCores -> [pages : SUBSET Pages, asid : PtSpaces \cup {Absent}, left : SUBSET PtCores]]
       /\ \A d \in PtCores \ {c} : shoot'[d] = shoot[d]
       /\ shoot'[c] = [pages |-> o.batch, asid |-> ShootAsid(c), left |-> PtCores]
  <2>1. [pages |-> o.batch, asid |-> ShootAsid(c), left |-> PtCores]
          \in [pages : SUBSET Pages, asid : PtSpaces \cup {Absent}, left : SUBSET PtCores]
    BY <1>11, Zenon DEF OpTypes
  <2> QED  BY <1>2, <2>1, InvParts, Zenon DEF PtTypeOK
<1>13. op'[c] = n /\ cr3' = cr3
  BY <1>2, <1>4, InvParts, Zenon DEF PtTypeOK
<1>14. ShootSound(c)'
  <2>1. ShootAsid(c)' = ShootAsid(c) /\ Triggering(c)'
    BY <1>1, <1>2, <1>5, <1>13, Zenon DEF ShootAsid, Triggering
  <2> QED  BY <1>5, <1>7, <1>12, <1>13, <2>1 DEF ShootSound
<1>15. ASSUME NEW e \in PtCores, NEW v, WillDrop(c, e, v) PROVE WillDrop(c, e, v)'
  <2>1. v \in o.batch /\ Covers(n, cr3[e], v)
    BY <1>1, <1>2, <1>5, <1>15, Zenon DEF WillDrop, Covers
  <2>2. v \in shoot'[c].pages /\ e \in shoot'[c].left
    BY <1>12, <2>1
  <2> QED  BY <1>5, <1>7, <1>13, <2>1, <2>2, Zenon DEF WillDrop
<1>16. HoldsBit(n) => BitOf(n) \in lockBits'
  BY <1>1, <1>2, <1>9, OfCall, Zenon
<1>17. \A d \in PtCores \ {c} : HoldsBit(op[d]) => BitOf(op[d]) \in lockBits'
  BY <1>2, OfCall, Zenon
<1> QED  BY <1>2, <1>4, <1>8, <1>10, <1>12, <1>14, <1>15, <1>16, <1>17, QuietStep, Zenon

\* The end of the shoot-down keeps the invariant: every core has dropped what it covers.
LEMMA PtTriggeredStep ==
    ASSUME PtInv, NEW c \in PtCores, PtTriggered(c) PROVE PtInv'
<1>1. PICK o \in OpTypes : o = op[c]
  BY OfCall, Zenon
<1>2. /\ o.pc \in {"trigger_page", "trigger_unlock", "trigger_return"} /\ shoot[c].left = {} /\ o.batch = {}
      /\ UNCHANGED <<roots, tables, lockBits, cr3, tlb, shoot, spaces>>
  BY <1>1, Zenon DEF PtTriggered, Triggering, AllDone
<1>3. OpSound(o)
  BY <1>1, OfCall, Zenon
<1>4. PICK n \in OpTypes : /\ op' = [op EXCEPT ![c] = n] /\ OpSound(n)
                           /\ HoldsBit(n) => HoldsBit(o) /\ BitOf(n) = BitOf(o)
                           /\ n = NoOp \/ (n.kind = o.kind /\ n.space = o.space /\ n.from = o.from /\ n.end = o.end)
  <2>1. CASE o.pc = "trigger_return"
    <3>1. op' = [op EXCEPT ![c] = NoOp]
      BY <1>1, <2>1, Zenon DEF PtTriggered
    <3> QED  BY <3>1, ApartNoOp, Zenon
  <2>2. CASE o.pc # "trigger_return"
    <3>1. PICK n \in OpTypes : n = [o EXCEPT !.pc = AfterTrigger(o.pc)]
      BY <1>2, <2>2, Zenon DEF OpTypes, AfterTrigger
    <3>2. op' = [op EXCEPT ![c] = n]
      BY <1>1, <2>2, <3>1, Zenon DEF PtTriggered
    <3>3. /\ (o.pc = "trigger_page" /\ n.pc = "page") \/ (o.pc = "trigger_unlock" /\ n.pc = "unlock")
          /\ n.kind = o.kind /\ n.space = o.space /\ n.from = o.from /\ n.at = o.at /\ n.end = o.end
          /\ n.seen = o.seen /\ n.batch = {}
      BY <1>2, <2>2, <3>1 DEF OpTypes, AfterTrigger
    <3>4. o.kind = "unmap"
      BY <1>2, <1>3, <2>2, KindOf, Zenon
    <3>5. RangeSound(n) /\ SeenSound(n) /\ PagesSound(n) /\ OrderSound(n)
      <4>1. RangeSound(o) /\ SeenSound(o) /\ PagesSound(o) /\ OrderSound(o)
        BY <1>3, <3>4, Zenon DEF OpSound, Calls
      <4>2. RangeSound(n) /\ SeenSound(n)
        BY <3>3, <3>4, <4>1, Zenon DEF RangeSound, SeenSound
      <4>3. PagesSound(n) /\ OrderSound(n)
        BY <3>3, <3>4, <4>1 DEF PagesSound, OrderSound
      <4> QED  BY <4>2, <4>3, Zenon
    <3>6. OpSound(n)
      BY <3>3, <3>4, <3>5, Zenon DEF OpSound, Calls
    <3>7. HoldsBit(o) /\ BitOf(n) = BitOf(o)
      BY <3>3, Zenon DEF HoldsBit, BitOf
    <3> QED  BY <3>2, <3>3, <3>6, <3>7, Zenon
  <2> QED  BY <2>1, <2>2, Zenon
<1>5. ASSUME NEW d \in PtCores \ {c}, NEW p \in OpTypes, p = op[d] PROVE OpsApart(n, p)
  <2>1. OpsApart(o, p)
    BY <1>1, <1>5, OfCall, Zenon
  <2> QED  BY <1>4, <2>1, ApartFrame, ApartNoOp, Zenon
<1>6. ShootSound(c)' /\ \A e \in PtCores : \A v \in DOMAIN tlb[e] : WillDrop(c, e, v) => WillDrop(c, e, v)'
  BY <1>1, <1>2, Zenon DEF ShootSound, WillDrop
<1>7. shoot' \in [PtCores -> [pages : SUBSET Pages, asid : PtSpaces \cup {Absent}, left : SUBSET PtCores]]
  BY <1>2, InvParts, Zenon DEF PtTypeOK
<1>8. HoldsBit(n) => BitOf(n) \in lockBits'
  BY <1>1, <1>2, <1>4, OfCall, Zenon
<1>9. \A d \in PtCores \ {c} : HoldsBit(op[d]) => BitOf(op[d]) \in lockBits'
  BY <1>2, OfCall, Zenon
<1> QED  BY <1>2, <1>4, <1>5, <1>6, <1>7, <1>8, <1>9, QuietStep, Zenon

\* Starting to clone the upper half keeps the invariant.
LEMMA CloneUpperHalfStep ==
    ASSUME PtInv, NEW c \in PtCores, NEW s \in PtSpaces, CloneUpperHalf(c, s) PROVE PtInv'
<1>1. /\ op[c].kind = "none" /\ s \notin spaces /\ \A d \in PtCores : op[d].space # s
      /\ UNCHANGED <<roots, tables, lockBits, cr3, tlb, shoot, spaces>>
  BY Zenon DEF CloneUpperHalf
<1>2. PICK n \in OpTypes : n = [NoOp EXCEPT !.kind = "clone", !.pc = "entry", !.space = s,
                                            !.from = Lower, !.at = Lower, !.end = Lower]
  <2>1. Lower \in Nat
    BY PtAssumption
  <2> QED  BY <2>1, ApartNoOp, Zenon DEF OpTypes, NoOp
<1>3. op' = [op EXCEPT ![c] = n]
  BY <1>2, Zenon DEF CloneUpperHalf
<1>4. /\ n.kind = "clone" /\ n.pc = "entry" /\ n.space = s /\ n.from = Lower /\ n.at = Lower /\ n.end = Lower
      /\ n.batch = {}
  BY <1>2, Zenon DEF NoOp
<1>5. Lower .. Lower - 1 = {} /\ Lower \in KernelEntries
  BY PtAssumption DEF KernelEntries
<1>6. OpSound(n) /\ ~HoldsBit(n)
  BY <1>1, <1>4, <1>5, Zenon DEF OpSound, Calls, HoldsBit
<1>7. ASSUME NEW d \in PtCores \ {c}, NEW p \in OpTypes, p = op[d] PROVE OpsApart(n, p)
  BY <1>1, <1>4, <1>5, <1>6, <1>7, Zenon DEF OpsApart, Covers
<1>8. ShootSound(c)' /\ \A e \in PtCores : \A v \in DOMAIN tlb[e] : WillDrop(c, e, v) => WillDrop(c, e, v)'
  <2>1. shoot[c].left = {}
    BY <1>1, OfCall, Zenon DEF ShootSound
  <2> QED  BY <1>1, <2>1, Zenon DEF WillDrop, ShootSound
<1>9. shoot' \in [PtCores -> [pages : SUBSET Pages, asid : PtSpaces \cup {Absent}, left : SUBSET PtCores]]
  BY <1>1, InvParts, Zenon DEF PtTypeOK
<1>10. \A d \in PtCores \ {c} : HoldsBit(op[d]) => BitOf(op[d]) \in lockBits'
  BY <1>1, OfCall, Zenon
<1> QED  BY <1>1, <1>3, <1>6, <1>7, <1>8, <1>9, <1>10, QuietStep, Zenon

=============================================================================
