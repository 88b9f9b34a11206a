----------------------------- MODULE F767Proofs -----------------------------
(***************************************************************************)
(* What the journal of an F767 board says about its two slots is true, for *)
(* every set of images, every size of a word, a chunk, a slot and the      *)
(* journal, any number of power losses and failing flash operations, and   *)
(* wherever the host tool stops.                                           *)
(*                                                                         *)
(* The updater's copy of the record is the one in force; an image that is  *)
(* recorded as valid is backed by its slot; and the slot being programmed  *)
(* is not recorded as valid.  That the last holds for every chunk rests on *)
(* what may be queued: a chunk or VALIDATE waits alone, so that no CLEAR   *)
(* and no selection comes between it and the status it was checked by.     *)
(***************************************************************************)
EXTENDS F767Update, WellFoundedInduction, TLAPS

-----------------------------------------------------------------------------
Crcs == {<<>>} \cup UNION {Files[t] : t \in ImageTargets}
ImageRecord == [valid : BOOLEAN, crc : Crcs]
Records == [seq : 0..(SeqSpan - 1), requested : BOOLEAN, image : [ImageTargets -> ImageRecord]]
Kinds == Records \cup {TornRecord}
Journals == Seq(Kinds)

(* The fields of the object dictionary, the programmer and the tool.       *)
BootTyped(b) ==
    /\ DOMAIN b = {"status", "len", "written", "crc", "chunk", "cmd", "target"}
    /\ b.len \in Nat /\ b.crc \in Crcs /\ b.target \in ImageTargets

ProgTyped(p) == DOMAIN p = {"target", "accepted", "pending"} /\ p.target \in ImageTargets

ToolTyped(x) ==
    /\ DOMAIN x = {"pc", "target", "image", "crc", "stay", "sent", "polls"}
    /\ x.crc \in Crcs /\ x.target \in ImageTargets

ImagesTyped(img) == DOMAIN img = ImageTargets

(* The images a record calls valid are in flash.                           *)
Backs(m, img) ==
    \A t \in ImageTargets : m.image[t].valid => ReadBack(img[t], Len(m.image[t].crc)) = m.image[t].crc

(* The flash, and RAM: an image recorded as valid is in its slot, and the  *)
(* slot being programmed is not recorded as valid.                         *)
Stored ==
    /\ journal \in Journals /\ meta \in Records
    /\ ImagesTyped(images) /\ BootTyped(boot) /\ ProgTyped(programmer)
    /\ Backs(InForce(journal), images)
    /\ boot.status = "programming" => ~ InForce(journal).image[programmer.target].valid

(* Off the updater nothing is pending; the updater's copy is the record in *)
(* force.                                                                  *)
Session ==
    /\ device # "updater" => changes = <<>> /\ ~ erasing /\ boot.status # "programming"
    /\ device = "updater" => meta = InForce(journal)

(* The tool is past the answer to CLEAR.                                   *)
Late == {"chunk", "written", "validate", "verdict", "reset"}

(* What the updater has not handled yet: one chunk, or one command of a    *)
(* tool that waits for its effect; or, of tools that do not, CLEARs and    *)
(* selections.                                                             *)
Early ==
    /\ tool.pc \notin Late
    /\ \A i \in 1..Len(changes) : changes[i] = "target" \/ (changes[i] = "cmd" /\ boot.cmd = "clear")
Pending ==
    /\ erasing => tool.pc \notin Late
    /\ \/ changes = <<>>
       \/ changes = <<"chunk">> /\ ~ erasing /\ boot.status = "programming"
       \/ changes = <<"cmd">> /\ boot.cmd = "validate" /\ ~ erasing /\ boot.status = "programming"
       \/ changes = <<"cmd">> /\ boot.cmd = "reset" /\ ~ erasing
       \/ Early

F767Inv ==
    /\ Stored /\ ToolTyped(tool)
    /\ changes \in Seq({"chunk", "target", "cmd"}) /\ Session /\ Pending

-----------------------------------------------------------------------------
(* Induction over the slots of the journal, in terms of sets of numbers:   *)
(* scan_meta visits them one after another.                                *)
Smaller == {ss \in Nat \X Nat : ss[1] < ss[2]}

(* What holds before the first slot and is kept by every slot holds of     *)
(* all.                                                                    *)
LEMMA SlotInduction ==
    ASSUME NEW L \in Nat, NEW S, 0 \in S, \A n \in 0..(L - 1) : n \in S => n + 1 \in S
    PROVE  0..L \subseteq S
<1> SUFFICES ASSUME 0..L \ S # {} PROVE FALSE
  OBVIOUS
<1>1. IsWellFoundedOn(Smaller, Nat)
  BY NatLessThanWellFounded DEF OpToRel, Smaller
<1>2. 0..L \ S \in SUBSET Nat
  OBVIOUS
<1>3. PICK x \in 0..L \ S : \A y \in 0..L \ S : ~(<<y, x>> \in Smaller)
  BY Zenon, <1>1, <1>2, WFMin
<1>4. x # 0
  BY <1>3
<1>5. x - 1 \in 0..(L - 1) /\ <<x - 1, x>> \in Smaller
  BY <1>3, <1>4 DEF Smaller
<1>6. x - 1 \in S
  BY <1>3, <1>5
<1> QED BY <1>3, <1>5, <1>6

(* What the pass holds after each slot, and that it is the one function    *)
(* with this property.                                                     *)
Passes(f, j, n) ==
    /\ DOMAIN f = 0..n
    /\ f[0] = TornRecord
    /\ \A k \in 1..n : f[k] = NewerOf(f[k - 1], j[k])

(* The pass holds a record or none.                                        *)
LEMMA NewerOfKind ==
    ASSUME NEW a \in Kinds, NEW b \in Kinds
    PROVE  NewerOf(a, b) \in Kinds
BY DEF NewerOf

(* There is such a function.                                               *)
LEMMA PassExists ==
    ASSUME NEW j \in Seq(Kinds)
    PROVE  \E f \in [0..Len(j) -> Kinds] : Passes(f, j, Len(j))
<1> DEFINE S == {n \in Nat : \E f \in [0..n -> Kinds] : Passes(f, j, n)}
<1>1. Len(j) \in Nat
  OBVIOUS
<1>2. 0 \in S
  <2>1. [k \in 0..0 |-> TornRecord] \in [0..0 -> Kinds]
    BY DEF Kinds
  <2>2. Passes([k \in 0..0 |-> TornRecord], j, 0)
    BY DEF Passes
  <2> QED BY <2>1, <2>2
<1>3. ASSUME NEW n \in 0..(Len(j) - 1), n \in S PROVE n + 1 \in S
  <2>1. PICK f \in [0..n -> Kinds] : Passes(f, j, n)
    BY <1>3
  <2> DEFINE g == [k \in 0..(n + 1) |-> IF k <= n THEN f[k] ELSE NewerOf(f[n], j[n + 1])]
  <2>2. n \in Nat /\ n + 1 \in 1..Len(j)
    BY <1>1
  <2>3. j[n + 1] \in Kinds /\ f[n] \in Kinds
    BY <2>1, <2>2
  <2>4. g \in [0..(n + 1) -> Kinds]
    BY <2>1, <2>2, <2>3, NewerOfKind
  <2>5. g[0] = TornRecord
    BY <2>1, <2>2 DEF Passes
  <2>6. ASSUME NEW k \in 1..(n + 1) PROVE g[k] = NewerOf(g[k - 1], j[k])
    <3>1. CASE k <= n
      <4>1. k \in 1..n /\ k - 1 \in 0..n /\ k \in 0..(n + 1) /\ k - 1 \in 0..(n + 1) /\ k - 1 <= n
        BY <2>2, <3>1
      <4>2. g[k] = f[k] /\ g[k - 1] = f[k - 1]
        BY <4>1, <3>1
      <4> HIDE DEF g
      <4> QED BY <4>1, <4>2, <2>1 DEF Passes
    <3>2. CASE k = n + 1
      <4>1. g[k] = NewerOf(f[n], j[n + 1]) /\ g[k - 1] = f[n]
        BY <2>2, <3>2
      <4> HIDE DEF g
      <4> QED BY <4>1, <3>2
    <3> QED BY <2>2, <3>1, <3>2
  <2>7. Passes(g, j, n + 1)
    BY Zenon, <2>5, <2>6 DEF Passes
  <2> HIDE DEF g
  <2> QED BY <2>2, <2>4, <2>7
<1> DEFINE L == Len(j)
<1>4. L \in Nat /\ \A n \in 0..(L - 1) : n \in S => n + 1 \in S
  BY <1>1, <1>3
<1> HIDE DEF S, L
<1>5. L \in S
  <2>1. 0..L \subseteq S
    BY <1>2, <1>4, SlotInduction
  <2>2. L \in 0..L
    BY <1>4
  <2> QED BY <2>1, <2>2
<1> QED BY <1>5 DEF S, L

(* There is one only.                                                      *)
LEMMA PassUnique ==
    ASSUME NEW j, NEW n \in Nat, NEW f, NEW g, Passes(f, j, n), Passes(g, j, n)
    PROVE  f[n] = g[n]
<1> DEFINE S == {k \in Nat : f[k] = g[k]}
<1>1. 0 \in S
  BY DEF Passes
<1>2. ASSUME NEW k \in 0..(n - 1), k \in S PROVE k + 1 \in S
  <2>1. k + 1 \in 1..n /\ k + 1 \in Nat /\ (k + 1) - 1 = k
    OBVIOUS
  <2>2. f[k + 1] = NewerOf(f[k], j[k + 1]) /\ g[k + 1] = NewerOf(g[k], j[k + 1])
    BY <2>1 DEF Passes
  <2> QED BY <1>2, <2>1, <2>2
<1> HIDE DEF S
<1>3. n \in S
  BY <1>1, <1>2, SlotInduction
<1> QED BY <1>3 DEF S

Pass(j) ==
    LET newest[n \in 0..Len(j)] == IF n = 0 THEN TornRecord ELSE NewerOf(newest[n - 1], j[n])
    IN  newest

(* scan_meta returns what the pass holds after the last slot.              *)
LEMMA NewestIsPass ==
    ASSUME NEW j \in Seq(Kinds)
    PROVE  /\ Newest(j) = Pass(j)[Len(j)]
           /\ Passes(Pass(j), j, Len(j))
           /\ Newest(j) \in Kinds
<1> DEFINE Body(f) == [n \in 0..Len(j) |-> IF n = 0 THEN TornRecord ELSE NewerOf(f[n - 1], j[n])]
<1>1. Newest(j) = Pass(j)[Len(j)]
  BY DEF Newest, Pass
<1>2. Pass(j) = CHOOSE f : f = Body(f)
  BY DEF Pass
<1>3. PICK h \in [0..Len(j) -> Kinds] : Passes(h, j, Len(j))
  BY PassExists
<1>4. h = Body(h)
  <2>1. ASSUME NEW n \in 0..Len(j) PROVE h[n] = Body(h)[n]
    BY <1>3 DEF Passes
  <2> QED BY <1>3, <2>1
<1> HIDE DEF Body
<1>5. Pass(j) = Body(Pass(j))
  BY <1>2, <1>4
<1>6. Passes(Pass(j), j, Len(j))
  <2> DEFINE p == Pass(j)
  <2> HIDE DEF p
  <2>1. p = Body(p)
    BY <1>5 DEF p
  <2>2. DOMAIN p = 0..Len(j) /\ p[0] = TornRecord
    BY <2>1 DEF Body
  <2>3. ASSUME NEW k \in 1..Len(j) PROVE p[k] = NewerOf(p[k - 1], j[k])
    BY <2>1 DEF Body
  <2>4. Passes(p, j, Len(j))
    BY <2>2, <2>3 DEF Passes
  <2> QED BY <2>4 DEF p
<1>7. Pass(j)[Len(j)] = h[Len(j)]
  <2>1. Len(j) \in Nat
    OBVIOUS
  <2> QED BY <1>3, <1>6, <2>1, PassUnique
<1> QED BY <1>1, <1>3, <1>6, <1>7

(* One more slot: the pass goes one step further.                          *)
LEMMA NewestAppend ==
    ASSUME NEW j \in Seq(Kinds), NEW x \in Kinds
    PROVE  Newest(Append(j, x)) = NewerOf(Newest(j), x)
<1> DEFINE a == Append(j, x)
           L == Len(j)
<1>1. a \in Seq(Kinds) /\ Len(a) = L + 1 /\ L \in Nat /\ a[L + 1] = x
      /\ \A k \in 1..L : a[k] = j[k]
  OBVIOUS
<1> HIDE DEF a, L
<1>2. Newest(a) = Pass(a)[L + 1] /\ Passes(Pass(a), a, L + 1)
  BY <1>1, NewestIsPass
<1>3. Newest(j) = Pass(j)[L] /\ Passes(Pass(j), j, L)
  BY NewestIsPass DEF L
<1> DEFINE p == Pass(a)
           q == [k \in 0..L |-> p[k]]
<1>4. Passes(q, j, L)
  <2>1. DOMAIN q = 0..L /\ q[0] = p[0]
    BY <1>1
  <2>2. ASSUME NEW k \in 1..L PROVE q[k] = NewerOf(q[k - 1], j[k])
    <3>1. k \in 1..(L + 1) /\ k \in 0..L /\ k - 1 \in 0..L
      BY <1>1
    <3>2. q[k] = p[k] /\ q[k - 1] = p[k - 1]
      BY <3>1
    <3> HIDE DEF q, p
    <3>3. p[k] = NewerOf(p[k - 1], a[k])
      BY <1>2, <3>1 DEF Passes, p
    <3> QED BY <1>1, <3>2, <3>3
  <2> HIDE DEF q
  <2> QED BY <1>2, <2>1, <2>2 DEF Passes
<1>5. q[L] = p[L]
  BY <1>1
<1> HIDE DEF q
<1>6. p[L] = Pass(j)[L]
  BY <1>1, <1>3, <1>4, <1>5, PassUnique
<1>7. p[L + 1] = NewerOf(p[L], x)
  <2>1. L + 1 \in 1..(L + 1) /\ (L + 1) - 1 = L
    BY <1>1
  <2> QED BY <1>1, <1>2, <2>1 DEF Passes
<1> QED BY <1>2, <1>3, <1>6, <1>7 DEF a

(* The record of an empty journal.                                         *)
LEMMA BlankIsRecord == BlankRecord \in Records
BY SeqSpanAssumption DEF BlankRecord, Records, ImageRecord, Crcs

(* A torn slot is no record: its sequence number is none.                  *)
LEMMA RecordsDecode == \A m \in Records : m # TornRecord /\ m.seq \in 0..(SeqSpan - 1)
BY SeqSpanAssumption DEF Records, TornRecord

(* scan_meta returns a record.                                             *)
LEMMA InForceIsRecord ==
    ASSUME NEW j \in Journals
    PROVE  InForce(j) \in Records
BY NewestIsPass, BlankIsRecord DEF InForce, Journals, Kinds

(* The number after a record's is newer, also where it wraps.              *)
LEMMA NextIsNewer ==
    ASSUME NEW s \in 0..(SeqSpan - 1)
    PROVE  /\ (s + 1) % SeqSpan \in 0..(SeqSpan - 1)
           /\ (s + 1) % SeqSpan # s
           /\ (((s + 1) % SeqSpan) - s) % SeqSpan < SeqSpan \div 2
<1> USE SeqSpanAssumption
<1>0. 1 < SeqSpan \div 2 /\ SeqSpan \div 2 \in Int
  OBVIOUS
<1>1. CASE s + 1 < SeqSpan
  <2>1. (s + 1) % SeqSpan = s + 1
    BY <1>1
  <2>2. (s + 1) - s = 1 /\ 1 % SeqSpan = 1
    OBVIOUS
  <2> QED BY <1>0, <1>1, <2>1, <2>2
<1>2. CASE s + 1 = SeqSpan
  <2>1. (s + 1) % SeqSpan = 0
    BY <1>2
  <2>2. 0 - s = 1 - SeqSpan /\ (1 - SeqSpan) % SeqSpan = 1
    BY <1>2
  <2> QED BY <1>0, <1>2, <2>1, <2>2
<1> QED BY <1>1, <1>2

(* append_meta of the next record puts it in force, and a torn slot leaves *)
(* the one that was.                                                       *)
LEMMA AppendedRecord ==
    ASSUME NEW j \in Journals, NEW m \in Records, m.seq = (InForce(j).seq + 1) % SeqSpan
    PROVE  Append(j, m) \in Journals /\ InForce(Append(j, m)) = m
<1>1. m \in Kinds /\ j \in Seq(Kinds) /\ Append(j, m) \in Journals
  BY DEF Kinds, Journals
<1>2. Newest(Append(j, m)) = NewerOf(Newest(j), m)
  BY <1>1, NewestAppend
<1>3. m # TornRecord
  BY RecordsDecode
<1>4. CASE Newest(j) = TornRecord
  BY <1>1, <1>2, <1>3, <1>4 DEF NewerOf, InForce
<1>5. CASE Newest(j) # TornRecord
  <2> DEFINE s == InForce(j).seq
  <2>1. InForce(j) = Newest(j) /\ s \in 0..(SeqSpan - 1)
    BY <1>5, InForceIsRecord, RecordsDecode DEF InForce
  <2>2. m.seq # s /\ (m.seq - s) % SeqSpan < SeqSpan \div 2
    BY <2>1, NextIsNewer
  <2>3. NewerOf(Newest(j), m) = m
    BY <1>3, <1>5, <2>1, <2>2 DEF NewerOf
  <2> QED BY <1>1, <1>2, <1>3, <2>3 DEF InForce
<1> QED BY <1>4, <1>5

(* A slot that does not decode changes nothing for scan_meta.              *)
LEMMA AppendedTorn ==
    ASSUME NEW j \in Journals
    PROVE  Append(j, TornRecord) \in Journals /\ InForce(Append(j, TornRecord)) = InForce(j)
<1>1. TornRecord \in Kinds /\ j \in Seq(Kinds) /\ Append(j, TornRecord) \in Journals
  BY DEF Kinds, Journals
<1>2. Newest(Append(j, TornRecord)) = Newest(j)
  BY <1>1, NewestAppend DEF NewerOf
<1> QED BY <1>1, <1>2 DEF InForce

(* MetaRecord::next: the next number, and one image or the request set.    *)
NextWith(m, t, i) == [m EXCEPT !.seq = (@ + 1) % SeqSpan, !.image[t] = i]

(* MetaRecord::next with set_image: the other image is kept.               *)
LEMMA NextImage ==
    ASSUME NEW m \in Records, NEW t \in ImageTargets, NEW i \in ImageRecord
    PROVE  /\ NextWith(m, t, i) \in Records
           /\ NextWith(m, t, i).seq = (m.seq + 1) % SeqSpan
           /\ NextWith(m, t, i).image[t] = i
           /\ \A u \in ImageTargets : u # t => NextWith(m, t, i).image[u] = m.image[u]
<1> DEFINE r == NextWith(m, t, i)
<1>1. (m.seq + 1) % SeqSpan \in 0..(SeqSpan - 1)
  BY RecordsDecode, NextIsNewer
<1>2. m.image \in [ImageTargets -> ImageRecord] /\ DOMAIN m = {"seq", "requested", "image"}
      /\ m.requested \in BOOLEAN
  BY DEF Records
<1>3. r.seq = (m.seq + 1) % SeqSpan /\ r.requested = m.requested
      /\ r.image = [m.image EXCEPT ![t] = i]
  BY <1>2 DEF NextWith
<1>4. DOMAIN r = {"seq", "requested", "image"} /\ r = [x \in DOMAIN r |-> r[x]]
  BY Zenon, <1>2 DEF NextWith
<1> HIDE DEF r
<1>5. r = [seq |-> r.seq, requested |-> r.requested, image |-> r.image]
  BY <1>4
<1>6. r.image \in [ImageTargets -> ImageRecord]
      /\ r.image[t] = i /\ \A u \in ImageTargets : u # t => r.image[u] = m.image[u]
  BY <1>2, <1>3
<1>7. r \in Records
  BY <1>1, <1>2, <1>3, <1>5, <1>6 DEF Records
<1> QED BY <1>3, <1>6, <1>7 DEF r

(* MetaRecord::next with update_requested: both images are kept.           *)
LEMMA NextRequest ==
    ASSUME NEW m \in Records, NEW v \in BOOLEAN
    PROVE  /\ WithRequest(m, v) \in Records
           /\ WithRequest(m, v).seq = (m.seq + 1) % SeqSpan
           /\ WithRequest(m, v).image = m.image
<1>1. (m.seq + 1) % SeqSpan \in 0..(SeqSpan - 1)
  BY RecordsDecode, NextIsNewer
<1> DEFINE r == WithRequest(m, v)
<1>2. m.image \in [ImageTargets -> ImageRecord] /\ DOMAIN m = {"seq", "requested", "image"}
  BY DEF Records
<1>3. r.seq = (m.seq + 1) % SeqSpan /\ r.requested = v /\ r.image = m.image
  BY <1>2 DEF WithRequest
<1>4. DOMAIN r = {"seq", "requested", "image"} /\ r = [x \in DOMAIN r |-> r[x]]
  BY Zenon, <1>2 DEF WithRequest
<1> HIDE DEF r
<1>5. r = [seq |-> r.seq, requested |-> r.requested, image |-> r.image]
  BY <1>4
<1>6. r \in Records
  BY <1>1, <1>2, <1>3, <1>5 DEF Records
<1> QED BY <1>3, <1>6 DEF r

-----------------------------------------------------------------------------
(* A run of a handler: typed; while power is on the copy in RAM is the     *)
(* record in force.  Sound also backs that record and disowns the slot     *)
(* being programmed.                                                       *)
Run(s) ==
    /\ DOMAIN s = {"j", "img", "meta", "boot", "prog", "ok", "on", "f"}
    /\ s.j \in Journals /\ s.meta \in Records
    /\ ImagesTyped(s.img) /\ BootTyped(s.boot) /\ ProgTyped(s.prog)
    /\ s.ok \in BOOLEAN /\ s.on \in BOOLEAN
    /\ s.on => s.meta = InForce(s.j)

Sound(s) ==
    /\ Run(s) /\ Backs(InForce(s.j), s.img)
    /\ s.on /\ s.boot.status = "programming" => ~ InForce(s.j).image[s.prog.target].valid

(* append_meta: the new record is in force, or the old one is; a failure   *)
(* with power on leaves the old one.                                       *)
LEMMA AppendMetaRuns ==
    ASSUME NEW s, Run(s), s.on, NEW m \in Records, m.seq = (InForce(s.j).seq + 1) % SeqSpan,
           NEW r \in AppendMeta(s, m)
    PROVE  /\ Run(r) /\ r.img = s.img /\ r.boot = s.boot /\ r.prog = s.prog
           /\ InForce(r.j) \in {InForce(s.j), m}
           /\ r.ok => r.on /\ InForce(r.j) = m
<1> DEFINE full == Len(s.j) = Slots
           torn == IF full THEN {s.j} ELSE {s.j, Append(s.j, TornRecord)}
<1>1. Append(s.j, m) \in Journals /\ InForce(Append(s.j, m)) = m
  BY AppendedRecord DEF Run
<1>2. ASSUME NEW x \in torn PROVE x \in Journals /\ InForce(x) = InForce(s.j)
  BY Zenon, AppendedTorn DEF Run
<1>3. CASE r = [s EXCEPT !.ok = FALSE]
  BY Zenon, <1>3 DEF Run
<1>4. CASE r = [s EXCEPT !.j = Append(@, m), !.meta = m, !.ok = TRUE]
  <2>1. DOMAIN r = DOMAIN s
    BY <1>4
  <2>2. r.j = Append(s.j, m) /\ r.meta = m /\ r.ok = TRUE /\ r.img = s.img /\ r.boot = s.boot
        /\ r.prog = s.prog /\ r.on = s.on
    BY Zenon, <1>4 DEF Run
  <2> QED BY Zenon, <1>1, <2>1, <2>2 DEF Run
<1>5. ASSUME NEW x \in torn, r = [s EXCEPT !.j = x, !.ok = FALSE, !.f = @ + 1]
      PROVE  /\ Run(r) /\ r.img = s.img /\ r.boot = s.boot /\ r.prog = s.prog
             /\ InForce(r.j) \in {InForce(s.j), m} /\ ~ r.ok
  <2>1. DOMAIN r = DOMAIN s
    BY <1>5
  <2>2. r.j = x /\ r.meta = s.meta /\ r.ok = FALSE /\ r.img = s.img /\ r.boot = s.boot
        /\ r.prog = s.prog /\ r.on = s.on
    BY Zenon, <1>5 DEF Run
  <2>3. x \in Journals /\ InForce(x) = InForce(s.j)
    BY <1>2
  <2> HIDE DEF torn, full
  <2> QED BY Zenon, <2>1, <2>2, <2>3 DEF Run
<1>6. ASSUME NEW x \in torn \cup {Append(s.j, m)},
             r = [s EXCEPT !.j = x, !.ok = FALSE, !.on = FALSE, !.f = @ + 1]
      PROVE  /\ Run(r) /\ r.img = s.img /\ r.boot = s.boot /\ r.prog = s.prog
             /\ InForce(r.j) \in {InForce(s.j), m} /\ ~ r.ok
  <2>1. DOMAIN r = DOMAIN s
    BY <1>6
  <2>2. r.j = x /\ r.meta = s.meta /\ r.ok = FALSE /\ r.img = s.img /\ r.boot = s.boot
        /\ r.prog = s.prog /\ r.on = FALSE
    BY <1>6 DEF Run
  <2>3. x \in Journals /\ InForce(x) \in {InForce(s.j), m}
    BY Zenon, <1>1, <1>2
  <2> HIDE DEF torn, full
  <2> QED BY Zenon, <2>1, <2>2, <2>3 DEF Run
<1> HIDE DEF torn, full
<1>7. \/ r = [s EXCEPT !.ok = FALSE]
      \/ r = [s EXCEPT !.j = Append(@, m), !.meta = m, !.ok = TRUE]
      \/ \E x \in torn : r = [s EXCEPT !.j = x, !.ok = FALSE, !.f = @ + 1]
      \/ \E x \in torn \cup {Append(s.j, m)} :
            r = [s EXCEPT !.j = x, !.ok = FALSE, !.on = FALSE, !.f = @ + 1]
  BY Zenon DEF AppendMeta, torn, full
<1> QED BY Zenon, <1>3, <1>4, <1>5, <1>6, <1>7

(* A record that disowns images, and owns none the other does not, is      *)
(* backed by what backs the other.                                         *)
Weaker(m, n) == \A t \in ImageTargets : m.image[t].valid => m.image[t] = n.image[t]

(* What is in flash backs a weaker record too.                             *)
LEMMA WeakerIsBacked ==
    ASSUME NEW m, NEW n, NEW img, Weaker(m, n), Backs(n, img)
    PROVE  Backs(m, img)
BY DEF Weaker, Backs

(* set_image(target, 0, false).                                            *)
LEMMA DisownedIsWeaker ==
    ASSUME NEW m \in Records, NEW t \in ImageTargets
    PROVE  /\ WithImage(m, t, <<>>, FALSE) \in Records
           /\ WithImage(m, t, <<>>, FALSE).seq = (m.seq + 1) % SeqSpan
           /\ Weaker(WithImage(m, t, <<>>, FALSE), m)
           /\ ~ WithImage(m, t, <<>>, FALSE).image[t].valid
<1> DEFINE i == [valid |-> FALSE, crc |-> <<>>]
           r == NextWith(m, t, i)
<1>1. i \in ImageRecord /\ ~ i.valid
  BY DEF Crcs, ImageRecord
<1>2. WithImage(m, t, <<>>, FALSE) = r
  BY DEF WithImage, NextWith
<1> HIDE DEF i
<1>3. r \in Records /\ r.seq = (m.seq + 1) % SeqSpan /\ r.image[t] = i
      /\ \A u \in ImageTargets : u # t => r.image[u] = m.image[u]
  BY <1>1, NextImage
<1> HIDE DEF r
<1>4. Weaker(r, m) /\ ~ r.image[t].valid
  BY <1>1, <1>3 DEF Weaker
<1> QED BY Zenon, <1>2, <1>3, <1>4

(* fail() records an image as invalid, or changes nothing, and leaves the  *)
(* programming status.                                                     *)
LEMMA FailIsSound ==
    ASSUME NEW s, Run(s), Backs(InForce(s.j), s.img), NEW t \in ImageTargets, NEW r \in Fail(s, t)
    PROVE  Sound(r) /\ r.boot.cmd = s.boot.cmd
<1>1. CASE ~ s.on
  BY <1>1 DEF Fail, Sound
<1>2. CASE s.on
  <2> DEFINE m == WithImage(s.meta, t, <<>>, FALSE)
  <2>1. s.meta \in Records /\ s.meta = InForce(s.j) /\ s.j \in Journals
    BY <1>2 DEF Run
  <2>2. m \in Records /\ m.seq = (InForce(s.j).seq + 1) % SeqSpan /\ Weaker(m, InForce(s.j))
    BY Zenon, <2>1, DisownedIsWeaker
  <2>3. PICK x \in AppendMeta(s, m) : r = [x EXCEPT !.boot.status = "error"]
    BY Zenon, <1>2 DEF Fail
  <2> HIDE DEF m
  <2>4. Run(x) /\ x.img = s.img /\ x.boot = s.boot /\ x.prog = s.prog
        /\ InForce(x.j) \in {InForce(s.j), m}
    BY <1>2, <2>2, <2>3, AppendMetaRuns
  <2>5. Weaker(InForce(x.j), InForce(s.j))
    BY <2>2, <2>4 DEF Weaker
  <2>6. Backs(InForce(x.j), x.img)
    BY <2>4, <2>5, WeakerIsBacked
  <2>7. DOMAIN r = DOMAIN x /\ r.j = x.j /\ r.img = x.img /\ r.meta = x.meta /\ r.prog = x.prog
        /\ r.ok = x.ok /\ r.on = x.on
    BY <2>3, <2>4 DEF Run
  <2>8. BootTyped(r.boot) /\ r.boot.status = "error" /\ r.boot.cmd = x.boot.cmd
    BY <2>3, <2>4 DEF Run, BootTyped
  <2>9. Run(r)
    BY <2>4, <2>7, <2>8 DEF Run
  <2> QED BY <2>4, <2>6, <2>7, <2>8, <2>9 DEF Sound
<1> QED BY <1>1, <1>2

(* A flash operation on a slot the record disowns.                         *)
LEMMA FlashOpRuns ==
    ASSUME NEW s, Run(s), s.on, Backs(InForce(s.j), s.img), NEW t \in ImageTargets,
           ~ InForce(s.j).image[t].valid, NEW done, NEW cut, NEW r \in FlashOp(s, t, done, cut)
    PROVE  /\ Run(r) /\ Backs(InForce(r.j), r.img) /\ r.j = s.j /\ r.boot = s.boot /\ r.prog = s.prog
           /\ r.ok => r.on
<1> USE DEF ImagesTyped
<1>1. PICK x \in {done, cut} : /\ r.j = s.j /\ r.meta = s.meta /\ r.boot = s.boot /\ r.prog = s.prog
                               /\ r.img = [s.img EXCEPT ![t] = x] /\ DOMAIN r = DOMAIN s
                               /\ r.ok \in BOOLEAN /\ r.on \in BOOLEAN /\ (r.ok => r.on)
  <2>1. CASE r = [s EXCEPT !.img[t] = done, !.ok = TRUE]
    <3>1. r.j = s.j /\ r.meta = s.meta /\ r.boot = s.boot /\ r.prog = s.prog
          /\ r.img = [s.img EXCEPT ![t] = done] /\ DOMAIN r = DOMAIN s /\ r.ok = TRUE /\ r.on = s.on
      BY Zenon, <2>1 DEF Run
    <3> QED BY Zenon, <3>1
  <2>2. ASSUME NEW on \in BOOLEAN, r = [s EXCEPT !.img[t] = cut, !.ok = FALSE, !.on = on, !.f = @ + 1]
        PROVE  /\ r.j = s.j /\ r.meta = s.meta /\ r.boot = s.boot /\ r.prog = s.prog
               /\ r.img = [s.img EXCEPT ![t] = cut] /\ DOMAIN r = DOMAIN s
               /\ r.ok = FALSE /\ r.on \in BOOLEAN
    BY <2>2 DEF Run
  <2>3. \/ r = [s EXCEPT !.img[t] = done, !.ok = TRUE]
        \/ \E on \in BOOLEAN : r = [s EXCEPT !.img[t] = cut, !.ok = FALSE, !.on = on, !.f = @ + 1]
    BY Zenon DEF FlashOp
  <2> QED BY Zenon, <2>1, <2>2, <2>3
<1>2. Run(r)
  BY <1>1 DEF Run
<1>3. \A u \in ImageTargets : u # t => r.img[u] = s.img[u]
  BY <1>1 DEF Run
<1>4. Backs(InForce(r.j), r.img)
  BY <1>1, <1>3 DEF Backs
<1> QED BY SMTT(30), <1>1, <1>2, <1>4

(* Erasing a slot the record disowns ends in programming that slot.        *)
LEMMA ErasedIsSound ==
    ASSUME NEW s, Run(s), s.on, Backs(InForce(s.j), s.img), NEW t \in ImageTargets,
           ~ InForce(s.j).image[t].valid, NEW r \in Erased(s, t)
    PROVE  Sound(r) /\ r.boot.cmd = s.boot.cmd
<1>1. PICK x \in FlashOp(s, t, <<>>, <<FlashJunk>>) :
        r \in IF x.ok THEN {[x EXCEPT !.prog = ProgrammerFor(t), !.boot.written = 0,
                                      !.boot.status = "programming"]}
              ELSE Fail(x, t)
  BY Zenon DEF Erased
<1>2. Run(x) /\ Backs(InForce(x.j), x.img) /\ x.j = s.j /\ x.boot = s.boot /\ (x.ok => x.on)
  BY FlashOpRuns
<1>3. CASE ~ x.ok
  BY <1>1, <1>2, <1>3, FailIsSound
<1>4. CASE x.ok
  <2>1. r = [x EXCEPT !.prog = ProgrammerFor(t), !.boot.written = 0, !.boot.status = "programming"]
    BY <1>1, <1>4
  <2>2. DOMAIN r = DOMAIN x /\ r.j = x.j /\ r.img = x.img /\ r.meta = x.meta /\ r.ok = x.ok
        /\ r.on = x.on /\ r.prog = ProgrammerFor(t)
    BY <1>2, <2>1 DEF Run
  <2>3. r.boot = [x.boot EXCEPT !.written = 0, !.status = "programming"]
    BY Zenon, <1>2, <2>1 DEF Run
  <2>4. BootTyped(r.boot) /\ r.boot.cmd = x.boot.cmd
    BY <1>2, <2>3 DEF Run, BootTyped
  <2>5. ProgTyped(r.prog) /\ r.prog.target = t
    BY <2>2 DEF ProgTyped, ProgrammerFor
  <2>6. Run(r)
    BY <1>2, <2>2, <2>4, <2>5 DEF Run
  <2> QED BY <1>2, <2>2, <2>4, <2>5, <2>6 DEF Sound
<1> QED BY <1>3, <1>4

(* clear(): the record disowns the image before the slot is erased.        *)
LEMMA ClearedIsSound ==
    ASSUME NEW s, Sound(s), s.on, NEW r \in SlotCleared(s)
    PROVE  Sound(r) /\ r.boot.cmd = s.boot.cmd
<1> DEFINE t == s.boot.target
           m == WithImage(s.meta, t, <<>>, FALSE)
<1>1. t \in ImageTargets /\ s.meta \in Records /\ s.meta = InForce(s.j) /\ Run(s)
      /\ Backs(InForce(s.j), s.img)
  BY DEF Sound, Run, BootTyped
<1>2. m \in Records /\ m.seq = (InForce(s.j).seq + 1) % SeqSpan /\ Weaker(m, InForce(s.j))
      /\ ~ m.image[t].valid
  BY <1>1, DisownedIsWeaker
<1>3. PICK x \in AppendMeta(s, m) : r \in IF x.ok THEN Erased(x, t) ELSE Fail(x, t)
  BY Zenon DEF SlotCleared
<1> HIDE DEF m, t
<1>4. Run(x) /\ x.img = s.img /\ x.boot = s.boot /\ InForce(x.j) \in {InForce(s.j), m}
      /\ (x.ok => x.on /\ InForce(x.j) = m)
  BY <1>1, <1>2, AppendMetaRuns
<1>5. Weaker(InForce(x.j), InForce(s.j))
  BY <1>2, <1>4 DEF Weaker
<1>6. Backs(InForce(x.j), x.img)
  BY <1>1, <1>4, <1>5, WeakerIsBacked
<1>7. CASE x.ok
  <2>1. r \in Erased(x, t) /\ x.on /\ ~ InForce(x.j).image[t].valid
    BY <1>2, <1>3, <1>4, <1>7
  <2> QED BY <1>1, <1>4, <1>6, <2>1, ErasedIsSound
<1>8. CASE ~ x.ok
  BY SMTT(30), <1>1, <1>3, <1>4, <1>6, <1>8, FailIsSound
<1> QED BY <1>7, <1>8

(* Programmer::push programs the slot that the record disowns.             *)
LEMMA PushedIsSound ==
    ASSUME NEW s, Sound(s), s.on, s.boot.status = "programming", NEW r \in Pushed(s)
    PROVE  Sound(r)
<1> DEFINE t == s.prog.target
<1>1. Run(s) /\ Backs(InForce(s.j), s.img) /\ t \in ImageTargets /\ ~ InForce(s.j).image[t].valid
  BY DEF Sound, Run, ProgTyped
<1>2. ASSUME NEW x, Run(x), Backs(InForce(x.j), x.img), x.j = s.j, x.prog = s.prog,
             NEW p, NEW n, r = [x EXCEPT !.prog.pending = p, !.prog.accepted = n, !.boot.written = n]
      PROVE  Sound(r)
  <2>1. DOMAIN r = DOMAIN x /\ r.j = x.j /\ r.img = x.img /\ r.meta = x.meta /\ r.ok = x.ok /\ r.on = x.on
    BY <1>2 DEF Run
  <2>2. r.prog = [x.prog EXCEPT !.pending = p, !.accepted = n]
    BY <1>2 DEF Run
  <2>3. r.boot = [x.boot EXCEPT !.written = n]
    BY <1>2 DEF Run
  <2>4. ProgTyped(r.prog) /\ r.prog.target = t
    BY ZenonT(40), <1>2, <2>2 DEF Run, ProgTyped
  <2>5. BootTyped(r.boot)
    BY <1>2, <2>3 DEF Run, BootTyped
  <2>6. Run(r)
    BY <1>2, <2>1, <2>4, <2>5 DEF Run
  <2> QED BY <1>1, <1>2, <2>1, <2>4, <2>6 DEF Sound
<1> DEFINE p == s.prog.pending
           d == s.boot.chunk
           take == IF p = <<>> THEN 0
                   ELSE IF FlashWord - Len(p) < Len(d) THEN FlashWord - Len(p) ELSE Len(d)
           head == p \o SubSeq(d, 1, take)
           rest == SubSeq(d, take + 1, Len(d))
           n == Len(rest) - (Len(rest) % FlashWord)
           words == (IF Len(head) = FlashWord THEN head ELSE <<>>) \o SubSeq(rest, 1, n)
           accepted == s.prog.accepted + Len(d)
           tail == SubSeq(rest, n + 1, Len(rest))
           flashed == IF words = <<>> THEN {s}
                      ELSE FlashOp(s, t, s.img[t] \o words, Append(s.img[t], FlashJunk))
<1>3. \/ r \in Fail(s, t)
      \/ \E x \in flashed :
            r \in IF x.ok THEN {[x EXCEPT !.prog.pending = tail, !.prog.accepted = accepted,
                                         !.boot.written = accepted]}
                  ELSE Fail(x, t)
  <2> DEFINE outcome(x) ==
               IF x.ok THEN {[x EXCEPT !.prog.pending = tail, !.prog.accepted = accepted,
                                       !.boot.written = accepted]}
               ELSE Fail(x, t)
  <2>1. Pushed(s) = IF accepted > Capacity THEN Fail(s, t) ELSE UNION {outcome(x) : x \in flashed}
    BY ZenonT(40) DEF Pushed
  <2> HIDE DEF tail, accepted, flashed, t
  <2>2. r \in Fail(s, t) \/ r \in UNION {outcome(x) : x \in flashed}
    BY Zenon, <2>1
  <2> HIDE DEF outcome
  <2>3. r \in Fail(s, t) \/ \E x \in flashed : r \in outcome(x)
    BY <2>2
  <2> QED BY Zenon, <2>3 DEF outcome
<1> HIDE DEF tail, accepted, words, t
<1>4. ASSUME NEW x \in flashed
      PROVE  Run(x) /\ Backs(InForce(x.j), x.img) /\ x.j = s.j /\ x.prog = s.prog
  <2>1. CASE words = <<>>
    BY <1>1, <2>1
  <2>2. CASE words # <<>>
    BY SMTT(30), <1>1, <2>2, FlashOpRuns
  <2> QED BY <2>1, <2>2
<1> HIDE DEF flashed
<1>5. ASSUME NEW x \in flashed, x.ok,
             r = [x EXCEPT !.prog.pending = tail, !.prog.accepted = accepted, !.boot.written = accepted]
      PROVE  Sound(r)
  BY Zenon, <1>2, <1>4, <1>5
<1>6. ASSUME NEW x \in flashed, r \in Fail(x, t)
      PROVE  Sound(r)
  BY <1>1, <1>4, <1>6, FailIsSound
<1>7. ASSUME r \in Fail(s, t)
      PROVE  Sound(r)
  BY <1>1, <1>7, FailIsSound
<1> QED BY Zenon, <1>3, <1>5, <1>6, <1>7

(* Programmer::finish, the same.                                           *)
LEMMA FinishedRuns ==
    ASSUME NEW s, Sound(s), s.on, s.boot.status = "programming", NEW r \in FinishedTail(s)
    PROVE  /\ Run(r) /\ Backs(InForce(r.j), r.img) /\ r.j = s.j /\ r.boot = s.boot
           /\ r.ok => r.on
<1> DEFINE t == s.prog.target
           word == s.prog.pending \o [i \in 1..(FlashWord - Len(s.prog.pending)) |-> FlashFF]
<1>1. Run(s) /\ Backs(InForce(s.j), s.img) /\ t \in ImageTargets /\ ~ InForce(s.j).image[t].valid
  BY DEF Sound, Run, ProgTyped
<1>2. CASE s.prog.pending = <<>>
  BY <1>1, <1>2 DEF FinishedTail
<1>3. CASE s.prog.pending # <<>>
  <2>1. PICK x \in FlashOp(s, t, s.img[t] \o word, Append(s.img[t], FlashJunk)) :
           r = [x EXCEPT !.prog.pending = <<>>]
    BY <1>3, Zenon DEF FinishedTail
  <2> HIDE DEF word, t
  <2>2. Run(x) /\ Backs(InForce(x.j), x.img) /\ x.j = s.j /\ x.boot = s.boot /\ (x.ok => x.on)
    BY <1>1, FlashOpRuns
  <2>3. DOMAIN r = DOMAIN x /\ r.j = x.j /\ r.img = x.img /\ r.meta = x.meta /\ r.ok = x.ok
        /\ r.on = x.on /\ r.boot = x.boot /\ r.prog = [x.prog EXCEPT !.pending = <<>>]
    BY <2>1, <2>2 DEF Run
  <2>4. ProgTyped(r.prog)
    BY <2>2, <2>3 DEF Run, ProgTyped
  <2>5. Run(r)
    BY <2>2, <2>3, <2>4 DEF Run
  <2> QED BY <2>2, <2>3, <2>5
<1> QED BY <1>2, <1>3

(* What was read back has the length that was compared.                    *)
LEMMA ReadBackLength ==
    ASSUME NEW img, NEW n \in Nat, NEW c, ReadBack(img, n) = c
    PROVE  ReadBack(img, Len(c)) = c
<1>1. Len(ReadBack(img, n)) = n
  BY DEF ReadBack
<1> QED BY <1>1

(* validate(): only what was read back is recorded as valid.               *)
LEMMA RecordedIsSound ==
    ASSUME NEW s, Run(s), Backs(InForce(s.j), s.img), s.on, NEW t \in ImageTargets,
           ReadBack(s.img[t], Len(s.boot.crc)) = s.boot.crc, NEW r \in Recorded(s, t)
    PROVE  Sound(r)
<1> DEFINE i == [valid |-> TRUE, crc |-> s.boot.crc]
           m == NextWith(s.meta, t, i)
<1>1. s.meta \in Records /\ s.meta = InForce(s.j) /\ i \in ImageRecord
  BY DEF Run, BootTyped, ImageRecord
<1>2. i.crc = s.boot.crc
  OBVIOUS
<1>3. WithImage(s.meta, t, s.boot.crc, TRUE) = m
  BY DEF WithImage, NextWith
<1>4. PICK x \in AppendMeta(s, WithImage(s.meta, t, s.boot.crc, TRUE)) :
         r \in IF x.ok THEN {[x EXCEPT !.boot.status = "valid"]} ELSE Fail(x, t)
  BY Zenon DEF Recorded
<1> HIDE DEF i
<1>5. m \in Records /\ m.seq = (InForce(s.j).seq + 1) % SeqSpan /\ m.image[t] = i
      /\ \A u \in ImageTargets : u # t => m.image[u] = InForce(s.j).image[u]
  BY <1>1, NextImage
<1> HIDE DEF m
<1>6. Backs(m, s.img)
  BY <1>2, <1>5 DEF Backs
<1>7. Run(x) /\ x.img = s.img /\ InForce(x.j) \in {InForce(s.j), m}
  BY Zenon, <1>3, <1>4, <1>5, AppendMetaRuns
<1>8. Backs(InForce(x.j), x.img)
  BY <1>6, <1>7
<1>9. CASE x.ok
  <2>1. r = [x EXCEPT !.boot.status = "valid"]
    BY <1>4, <1>9
  <2>2. DOMAIN r = DOMAIN x /\ r.j = x.j /\ r.img = x.img /\ r.meta = x.meta /\ r.ok = x.ok
        /\ r.on = x.on /\ r.prog = x.prog /\ r.boot = [x.boot EXCEPT !.status = "valid"]
    BY <1>7, <2>1 DEF Run
  <2>3. BootTyped(r.boot) /\ r.boot.status = "valid"
    BY <1>7, <2>2 DEF Run, BootTyped
  <2>4. Run(r)
    BY <1>7, <2>2, <2>3 DEF Run
  <2> QED BY <1>8, <2>2, <2>3, <2>4 DEF Sound
<1>10. CASE ~ x.ok
  BY <1>4, <1>7, <1>8, <1>10, FailIsSound
<1> QED BY <1>9, <1>10

(* validate(): the tail is flushed and read back before anything is        *)
(* recorded.                                                               *)
LEMMA ValidatedIsSound ==
    ASSUME NEW s, Sound(s), s.on, s.boot.status = "programming", NEW r \in Validated(s)
    PROVE  Sound(r)
<1> DEFINE t == s.prog.target
<1>1. t \in ImageTargets
  BY DEF Sound, Run, ProgTyped
<1>2. PICK x \in FinishedTail(s) :
        \/ x.ok /\ ReadBack(x.img[t], x.boot.len) = x.boot.crc /\ r \in Recorded(x, t)
        \/ r \in Fail(x, t)
  BY Zenon DEF Validated
<1> HIDE DEF t
<1>3. Run(x) /\ Backs(InForce(x.j), x.img) /\ (x.ok => x.on)
  BY FinishedRuns
<1>4. ASSUME x.ok, ReadBack(x.img[t], x.boot.len) = x.boot.crc, r \in Recorded(x, t)
      PROVE  Sound(r)
  <2>1. x.boot.len \in Nat
    BY <1>3 DEF Run, BootTyped
  <2>2. ReadBack(x.img[t], Len(x.boot.crc)) = x.boot.crc
    BY <1>4, <2>1, ReadBackLength
  <2> QED BY <1>1, <1>3, <1>4, <2>2, RecordedIsSound
<1>5. ASSUME r \in Fail(x, t)
      PROVE  Sound(r)
  BY <1>1, <1>3, <1>5, FailIsSound
<1> QED BY <1>2, <1>4, <1>5

-----------------------------------------------------------------------------
(* The steps.  An outcome that becomes the state.                          *)
LEMMA BecomeStored ==
    ASSUME NEW r, Sound(r), Become(r)
    PROVE  /\ Stored'
           /\ r.on => meta' = InForce(journal') /\ boot' = r.boot
           /\ ~ r.on => boot' = BootNew
<1>1. r.on \in BOOLEAN /\ journal' = r.j /\ images' = r.img
  BY DEF Sound, Run, Become
<1>2. CASE r.on
  BY <1>1, <1>2 DEF Sound, Run, Become, Stored
<1>3. CASE ~ r.on
  <2>1. meta' = BlankRecord /\ boot' = BootNew /\ programmer' = ProgrammerFor("firmware")
    BY <1>3 DEF Become
  <2>2. BootTyped(boot') /\ boot'.status # "programming"
    BY <2>1 DEF BootNew, BootTyped, ImageTargets, Crcs
  <2>3. ProgTyped(programmer')
    BY <2>1 DEF ProgrammerFor, ProgTyped, ImageTargets
  <2> QED BY <1>1, <1>3, <2>1, <2>2, <2>3, BlankIsRecord DEF Sound, Run, Stored
<1> QED BY <1>1, <1>2, <1>3

(* Power loss leaves the flash as it is.                                   *)
LEMMA PoweredOff ==
    ASSUME Stored, journal' = journal, images' = images, meta' = BlankRecord, boot' = BootNew,
           programmer' = ProgrammerFor("firmware")
    PROVE  Stored' /\ boot'.status # "programming"
<1>1. BootTyped(boot') /\ boot'.status # "programming"
  BY DEF BootNew, BootTyped, ImageTargets, Crcs
<1>2. ProgTyped(programmer')
  BY DEF ProgrammerFor, ProgTyped, ImageTargets
<1> QED BY <1>1, <1>2, BlankIsRecord DEF Stored

(* The state as the beginning of a run: of the updater, and of one that    *)
(* reads the record first.                                                 *)
LEMMA NowIsSound ==
    ASSUME Stored, meta = InForce(journal)
    PROVE  Sound(Now) /\ Now.on
BY DEF Stored, Now, Sound, Run

(* main() and the handler of the request read the record first.            *)
LEMMA NowReadIsSound ==
    ASSUME Stored
    PROVE  /\ Sound([Now EXCEPT !.meta = InForce(journal)])
           /\ [Now EXCEPT !.meta = InForce(journal)].on
           /\ [Now EXCEPT !.meta = InForce(journal)].meta = InForce(journal)
           /\ [Now EXCEPT !.meta = InForce(journal)].j = journal
           /\ [Now EXCEPT !.meta = InForce(journal)].boot = boot
<1> DEFINE s == [Now EXCEPT !.meta = InForce(journal)]
<1>1. /\ DOMAIN s = {"j", "img", "meta", "boot", "prog", "ok", "on", "f"}
      /\ s.j = journal /\ s.img = images /\ s.meta = InForce(journal) /\ s.boot = boot
      /\ s.prog = programmer /\ s.ok = TRUE /\ s.on = TRUE
  BY DEF Now
<1>2. InForce(journal) \in Records
  BY InForceIsRecord DEF Stored
<1> HIDE DEF s
<1>3. Sound(s) /\ s.on /\ s.meta = InForce(journal) /\ s.j = journal /\ s.boot = boot
  BY Zenon, <1>1, <1>2 DEF Stored, Sound, Run
<1> QED BY <1>3 DEF s

(* A record with another request is backed as the one before it.           *)
LEMMA RequestIsSound ==
    ASSUME NEW s, Sound(s), s.on, s.boot.status # "programming", NEW v \in BOOLEAN,
           NEW r \in AppendMeta(s, WithRequest(s.meta, v))
    PROVE  Sound(r) /\ r.boot = s.boot
<1> DEFINE m == WithRequest(s.meta, v)
<1>1. s.meta \in Records /\ s.meta = InForce(s.j) /\ Run(s) /\ Backs(InForce(s.j), s.img)
  BY DEF Sound, Run
<1>2. m \in Records /\ m.seq = (InForce(s.j).seq + 1) % SeqSpan /\ m.image = InForce(s.j).image
  BY <1>1, NextRequest
<1> HIDE DEF m
<1>3. Run(r) /\ r.img = s.img /\ r.boot = s.boot /\ InForce(r.j) \in {InForce(s.j), m}
  BY <1>1, <1>2, AppendMetaRuns DEF m
<1>4. Backs(InForce(r.j), r.img)
  BY <1>1, <1>2, <1>3 DEF Backs
<1> QED BY <1>3, <1>4 DEF Sound

(* A board that was never programmed.                                      *)
LEMMA F767Start == F767Init => F767Inv
<1> SUFFICES ASSUME F767Init PROVE F767Inv
  OBVIOUS
<1>1. journal \in Journals
  BY DEF F767Init, Journals
<1>2. InForce(journal) \in Records /\ \A t \in ImageTargets : ~ InForce(journal).image[t].valid
  <2>1. <<>> \in Seq(Kinds) /\ Len(<<>>) = 0
    OBVIOUS
  <2>2. Newest(<<>>) = TornRecord
    BY Zenon, <2>1, NewestIsPass DEF Passes
  <2>3. InForce(journal) = BlankRecord
    BY <2>2 DEF F767Init, InForce
  <2> QED BY <2>3, BlankIsRecord DEF BlankRecord
<1>3. Stored
  <2>1. ImagesTyped(images)
    BY DEF F767Init, ImagesTyped
  <2>2. BootTyped(boot) /\ boot.status # "programming"
    BY DEF F767Init, BootNew, BootTyped, ImageTargets, Crcs
  <2>3. ProgTyped(programmer)
    BY DEF F767Init, ProgrammerFor, ProgTyped, ImageTargets
  <2>4. Backs(InForce(journal), images)
    BY <1>2 DEF Backs
  <2> QED BY <1>1, <2>1, <2>2, <2>3, <2>4, BlankIsRecord DEF F767Init, Stored
<1>4. ToolTyped(tool)
  BY DEF F767Init, ToolIdle, ToolTyped, ImageTargets, Crcs
<1>5. Session /\ Pending
  BY DEF F767Init, Session, Pending, BootNew
<1>6. changes \in Seq({"chunk", "target", "cmd"})
  BY DEF F767Init
<1> QED BY <1>3, <1>4, <1>5, <1>6 DEF F767Inv

(* A reset: main(), and the one-shot request is cleared.                   *)
LEMMA ResetKeeps ==
    ASSUME F767Inv, Reset
    PROVE  F767Inv'
<1> DEFINE s == [Now EXCEPT !.meta = InForce(journal)]
<1>1. Stored /\ device = "off" /\ changes = <<>> /\ ~ erasing /\ boot.status # "programming"
  BY DEF F767Inv, Session, Reset
<1>2. Sound(s) /\ s.on /\ s.boot = boot
  BY <1>1, NowReadIsSound
<1>3. PICK r \in IF StartsApp \/ ~ s.meta.requested THEN {s} ELSE AppendMeta(s, WithRequest(s.meta, FALSE)) :
         /\ device' = IF ~ r.on THEN "off" ELSE IF StartsApp THEN "app" ELSE "updater"
         /\ Become(r)
  BY Zenon DEF Reset
<1> HIDE DEF s
<1>4. Sound(r) /\ r.boot = boot
  <2>1. CASE r = s
    BY <1>2, <2>1
  <2>2. CASE r \in AppendMeta(s, WithRequest(s.meta, FALSE))
    BY Zenon, <1>1, <1>2, <2>2, RequestIsSound
  <2> QED BY Zenon, <1>3, <2>1, <2>2
<1>5. Stored' /\ (r.on => meta' = InForce(journal') /\ boot' = boot) /\ (~ r.on => boot' = BootNew)
  BY <1>3, <1>4, BecomeStored
<1>6. boot'.status # "programming"
  BY <1>1, <1>4, <1>5 DEF BootNew, Sound, Run
<1>7. changes' = changes /\ erasing' = erasing /\ tool' = tool
  BY DEF Reset
<1>8. Session' /\ Pending'
  BY <1>1, <1>3, <1>5, <1>6, <1>7 DEF Session, Pending
<1> QED BY <1>5, <1>7, <1>8 DEF F767Inv

(* Power loss between two operations.                                      *)
LEMMA PowerLossKeeps ==
    ASSUME F767Inv, PowerLoss
    PROVE  F767Inv'
<1>1. Stored
  BY DEF F767Inv
<1>2. journal' = journal /\ images' = images /\ meta' = BlankRecord /\ boot' = BootNew
      /\ programmer' = ProgrammerFor("firmware") /\ device' = "off" /\ changes' = <<>>
      /\ erasing' = FALSE /\ tool' = tool
  BY DEF PowerLoss, Become, Now
<1>3. Stored' /\ boot'.status # "programming"
  BY <1>1, <1>2, PoweredOff
<1>4. Session' /\ Pending'
  BY <1>2, <1>3 DEF Session, Pending
<1> QED BY <1>2, <1>3, <1>4 DEF F767Inv

(* The application's handler of the request: the record is read, its       *)
(* successor written, and the node resets or stays.                        *)
LEMMA RequestKeeps ==
    ASSUME F767Inv, Request, device = "app"
    PROVE  F767Inv'
<1> DEFINE s == [Now EXCEPT !.meta = InForce(journal)]
<1>1. Stored /\ changes = <<>> /\ ~ erasing /\ boot.status # "programming" /\ ToolTyped(tool)
  BY DEF F767Inv, Session
<1>2. Sound(s) /\ s.on /\ s.boot = boot /\ s.meta = InForce(journal)
  BY <1>1, NowReadIsSound
<1>3. PICK r \in AppendMeta(s, WithRequest(InForce(journal), TRUE)) :
         /\ Become([r EXCEPT !.on = FALSE])
         /\ device' = IF r.ok \/ ~ r.on THEN "off" ELSE "app"
  BY Zenon DEF Request
<1> HIDE DEF s
<1>4. Sound(r) /\ r.boot = boot
  BY Zenon, <1>1, <1>2, RequestIsSound
<1> DEFINE x == [r EXCEPT !.on = FALSE]
<1>5. DOMAIN x = DOMAIN r /\ x.j = r.j /\ x.img = r.img /\ x.meta = r.meta /\ x.boot = r.boot
      /\ x.prog = r.prog /\ x.ok = r.ok /\ x.on = FALSE
  BY <1>4 DEF Sound, Run
<1> HIDE DEF x
<1>6. Sound(x)
  BY Zenon, <1>4, <1>5 DEF Sound, Run
<1>7. Stored' /\ boot' = BootNew
  BY Zenon, <1>3, <1>5, <1>6, BecomeStored DEF x
<1>8. changes' = changes /\ erasing' = erasing /\ tool' = [tool EXCEPT !.pc = "await_updater"]
      /\ device' # "updater" /\ boot'.status # "programming"
  BY <1>3, <1>7 DEF Request, Goes, BootNew, deviceVars
<1>9. ToolTyped(tool')
  BY <1>1, <1>8 DEF ToolTyped
<1>10. Session' /\ Pending'
  BY <1>1, <1>8 DEF Session, Pending
<1>11. changes' \in Seq({"chunk", "target", "cmd"})
  BY <1>8 DEF F767Inv
<1> QED BY <1>7, <1>9, <1>10, <1>11 DEF F767Inv

(* CLEAR's wait ends: the queue holds selections and CLEARs at most.       *)
LEMMA ClearKeeps ==
    ASSUME F767Inv, ClearNow
    PROVE  F767Inv'
<1>1. Stored /\ erasing /\ device = "updater" /\ meta = InForce(journal)
      /\ tool.pc \notin Late /\ (changes = <<>> \/ Early)
  BY DEF F767Inv, Session, Pending, ClearNow
<1>2. Sound(Now) /\ Now.on
  BY <1>1, NowIsSound
<1>3. PICK r \in SlotCleared(Now) :
         /\ Become(r)
         /\ device' = IF r.on THEN device ELSE "off"
         /\ changes' = IF r.on THEN changes ELSE <<>>
  BY DEF ClearNow
<1>4. Sound(r) /\ r.boot.cmd = boot.cmd
  <2>1. Now.boot = boot
    BY DEF Now
  <2> QED BY <1>2, <2>1, ClearedIsSound
<1>5. Stored' /\ (r.on => meta' = InForce(journal') /\ boot' = r.boot) /\ (~ r.on => boot' = BootNew)
  BY <1>3, <1>4, BecomeStored
<1>6. tool' = tool /\ ~ erasing'
  BY DEF ClearNow
<1>7. CASE r.on
  <2>1. Session'
    BY <1>1, <1>3, <1>5, <1>7 DEF Session
  <2>2. changes' = changes /\ boot'.cmd = boot.cmd
    BY <1>3, <1>4, <1>5, <1>7
  <2>3. Pending'
    BY <1>1, <1>6, <2>2 DEF Pending, Early
  <2> QED BY <1>5, <1>6, <2>1, <2>2, <2>3 DEF F767Inv
<1>8. CASE ~ r.on
  <2>1. boot'.status # "programming" /\ changes' = <<>> /\ device' # "updater"
    BY <1>3, <1>5, <1>8 DEF BootNew
  <2>2. changes' \in Seq({"chunk", "target", "cmd"})
    BY <2>1
  <2>3. Session' /\ Pending'
    BY <1>6, <2>1 DEF Session, Pending
  <2> QED BY <1>5, <1>6, <2>2, <2>3 DEF F767Inv
<1> QED BY <1>7, <1>8

(* The rest of a queue of selections and CLEARs is one.                    *)
LEMMA EarlyTail ==
    ASSUME F767Inv, Early, changes # <<>>, changes' = Tail(changes), tool' = tool,
           boot'.cmd = boot.cmd
    PROVE  Early' /\ changes' \in Seq({"chunk", "target", "cmd"})
<1> DEFINE S == {"chunk", "target", "cmd"}
           L == Len(changes)
<1>1. changes \in Seq(S)
  BY DEF F767Inv
<1> HIDE DEF S
<1>2. changes' \in Seq(S) /\ Len(changes') = L - 1 /\ L \in Nat
      /\ \A i \in 1..(L - 1) : changes'[i] = changes[i + 1]
  BY <1>1
<1> HIDE DEF L
<1>3. ASSUME NEW i \in 1..(L - 1)
      PROVE  changes'[i] = "target" \/ (changes'[i] = "cmd" /\ boot'.cmd = "clear")
  <2>1. i + 1 \in 1..L
    BY <1>2
  <2>2. changes[i + 1] = "target" \/ (changes[i + 1] = "cmd" /\ boot.cmd = "clear")
    BY <2>1 DEF Early, L
  <2> QED BY <1>2, <2>2
<1>4. Early'
  BY <1>2, <1>3 DEF Early
<1> QED BY <1>2, <1>4 DEF S

(* The change that is handled is one that Pending allows.                  *)
LEMMA HandledFirst ==
    ASSUME F767Inv, changes # <<>>
    PROVE  /\ Head(changes) \in {"chunk", "target", "cmd"}
           /\ \/ Head(changes) = "chunk" /\ changes = <<"chunk">> /\ boot.status = "programming"
              \/ Head(changes) = "cmd" /\ changes = <<"cmd">> /\ boot.cmd = "validate"
                 /\ boot.status = "programming"
              \/ Head(changes) = "cmd" /\ boot.cmd = "reset"
              \/ Head(changes) = "cmd" /\ boot.cmd = "clear" /\ Early
              \/ Head(changes) = "target" /\ Early
<1>1. changes \in Seq({"chunk", "target", "cmd"})
  BY DEF F767Inv
<1>2. Head(changes) \in {"chunk", "target", "cmd"}
  BY <1>1
<1>3. ASSUME Early
      PROVE  Head(changes) = "target" \/ (Head(changes) = "cmd" /\ boot.cmd = "clear")
  <2>1. 1 \in 1..Len(changes) /\ Head(changes) = changes[1]
    BY <1>1
  <2> QED BY <1>3, <2>1 DEF Early
<1>4. Head(<<"chunk">>) = "chunk" /\ Head(<<"cmd">>) = "cmd"
  OBVIOUS
<1> QED BY <1>2, <1>3, <1>4 DEF F767Inv, Pending

(* handle_change.                                                          *)
LEMMA HandleKeeps ==
    ASSUME F767Inv, HandleChange
    PROVE  F767Inv'
<1> DEFINE h == Head(changes)
<1>1. Stored /\ device = "updater" /\ changes # <<>> /\ ~ erasing /\ meta = InForce(journal)
      /\ ToolTyped(tool) /\ tool' = tool
  BY DEF F767Inv, Session, HandleChange
<1>2. Sound(Now) /\ Now.on /\ Now.boot = boot
  BY <1>1, NowIsSound DEF Now
<1>3. CASE h = "cmd" /\ boot.cmd = "clear"
  <2>1. erasing' = TRUE /\ changes' = Tail(changes)
        /\ UNCHANGED <<device, journal, images, faults, meta, boot, programmer>>
    BY <1>3 DEF HandleChange
  <2>2. Early
    BY <1>1, <1>3, HandledFirst
  <2>3. Early' /\ changes' \in Seq({"chunk", "target", "cmd"})
    BY SMTT(30), <1>1, <2>1, <2>2, EarlyTail
  <2>4. Stored' /\ Session'
    BY <1>1, <2>1 DEF Stored, Session
  <2>5. Pending'
    BY <2>3 DEF Pending, Early
  <2> QED BY <1>1, <2>3, <2>4, <2>5 DEF F767Inv
<1>4. CASE h = "cmd" /\ boot.cmd = "reset"
  <2>1. device' = "off" /\ changes' = <<>> /\ erasing' = erasing /\ Become([Now EXCEPT !.on = FALSE])
    BY <1>4 DEF HandleChange
  <2>2. journal' = journal /\ images' = images /\ meta' = BlankRecord /\ boot' = BootNew
        /\ programmer' = ProgrammerFor("firmware")
    BY <2>1 DEF Become, Now
  <2>3. Stored' /\ boot'.status # "programming"
    BY <1>1, <2>2, PoweredOff
  <2>4. changes' \in Seq({"chunk", "target", "cmd"})
    BY <2>1
  <2>5. Session' /\ Pending'
    BY <1>1, <2>1, <2>3 DEF Session, Pending
  <2> QED BY <1>1, <2>3, <2>4, <2>5 DEF F767Inv
<1>5. ASSUME NEW r, Sound(r), Become(r), device' = (IF r.on THEN device ELSE "off"),
             changes' = (IF r.on THEN Tail(changes) ELSE <<>>), erasing' = erasing,
             r.on => Tail(changes) = <<>> \/ (Early /\ r.boot.cmd = boot.cmd)
      PROVE  F767Inv'
  <2>1. Stored' /\ (r.on => meta' = InForce(journal') /\ boot' = r.boot) /\ (~ r.on => boot' = BootNew)
    BY <1>5, BecomeStored
  <2>2. CASE r.on
    <3>1. Session'
      BY <1>1, <1>5, <2>1, <2>2 DEF Session
    <3>2. CASE Tail(changes) = <<>>
      <4>1. changes' = <<>>
        BY <1>5, <2>2, <3>2
      <4>2. changes' \in Seq({"chunk", "target", "cmd"})
        BY <4>1
      <4>3. Pending'
        BY <1>1, <1>5, <4>1 DEF Pending
      <4> QED BY <1>1, <2>1, <3>1, <4>2, <4>3 DEF F767Inv
    <3>3. CASE Early /\ r.boot.cmd = boot.cmd
      <4>1. changes' = Tail(changes) /\ boot'.cmd = boot.cmd
        BY <1>5, <2>1, <2>2, <3>3
      <4>2. Early' /\ changes' \in Seq({"chunk", "target", "cmd"})
        BY <1>1, <3>3, <4>1, EarlyTail
      <4>3. Pending'
        BY <1>1, <1>5, <4>2 DEF Pending
      <4> QED BY <1>1, <2>1, <3>1, <4>2, <4>3 DEF F767Inv
    <3> QED BY <1>5, <2>2, <3>2, <3>3
  <2>3. CASE ~ r.on
    <3>1. boot'.status # "programming" /\ changes' = <<>> /\ device' # "updater"
      BY <1>5, <2>1, <2>3 DEF BootNew
    <3>2. changes' \in Seq({"chunk", "target", "cmd"})
      BY <3>1
    <3>3. Session' /\ Pending'
      BY <1>1, <1>5, <3>1 DEF Session, Pending
    <3> QED BY <1>1, <2>1, <3>2, <3>3 DEF F767Inv
  <2>4. r.on \in BOOLEAN
    BY <1>5 DEF Sound, Run
  <2> QED BY <2>2, <2>3, <2>4
<1>6. CASE ~ (h = "cmd" /\ boot.cmd \in {"clear", "reset"})
  <2>1. PICK r \in CASE h = "chunk" -> Pushed(Now)
                     [] h = "target" -> {[Now EXCEPT !.boot.len = 0]}
                     [] OTHER -> Validated(Now) :
           /\ Become(r)
           /\ device' = IF r.on THEN device ELSE "off"
           /\ changes' = IF r.on THEN Tail(changes) ELSE <<>>
           /\ UNCHANGED erasing
    BY <1>6 DEF HandleChange
  <2>2. Tail(<<"chunk">>) = <<>> /\ Tail(<<"cmd">>) = <<>>
    OBVIOUS
  <2>3. CASE h = "chunk"
    <3>1. r \in Pushed(Now)
      BY <2>1, <2>3
    <3>2. changes = <<"chunk">> /\ boot.status = "programming"
      BY <1>1, <2>3, HandledFirst
    <3>3. Sound(r)
      BY <1>2, <3>1, <3>2, PushedIsSound
    <3> QED BY <1>5, <2>1, <2>2, <3>2, <3>3
  <2>4. CASE h = "target"
    <3>1. r = [Now EXCEPT !.boot.len = 0]
      BY <2>1, <2>4
    <3>2. Early
      BY <1>1, <2>4, HandledFirst
    <3>3. DOMAIN r = DOMAIN Now /\ r.j = Now.j /\ r.img = Now.img /\ r.meta = Now.meta /\ r.prog = Now.prog
          /\ r.ok = Now.ok /\ r.on = Now.on /\ r.boot = [Now.boot EXCEPT !.len = 0]
      BY <3>1 DEF Now
    <3>4. BootTyped(r.boot) /\ r.boot.status = Now.boot.status /\ r.boot.cmd = boot.cmd
      BY <1>2, <3>3 DEF Sound, Run, BootTyped
    <3>5. Sound(r)
      BY <1>2, <3>3, <3>4 DEF Sound, Run
    <3> QED BY <1>5, <2>1, <3>2, <3>4, <3>5
  <2>5. CASE h # "chunk" /\ h # "target"
    <3>1. r \in Validated(Now)
      BY <2>1, <2>5
    <3>2. changes = <<"cmd">> /\ boot.status = "programming"
      BY <1>1, <1>6, <2>5, HandledFirst
    <3>3. Sound(r)
      BY <1>2, <3>1, <3>2, ValidatedIsSound
    <3> QED BY <1>5, <2>1, <2>2, <3>2, <3>3
  <2> QED BY <2>3, <2>4, <2>5
<1> QED BY <1>3, <1>4, <1>6

-----------------------------------------------------------------------------
(* The tool's steps.  Those that do not reach the object dictionary go     *)
(* past CLEAR only when nothing is pending.                                *)
LEMMA ToolFields ==
    ASSUME ToolTyped(tool)
    PROVE  /\ \A pc : Goes(pc) => ToolTyped(tool') /\ tool'.pc = pc
           /\ Stops => ToolTyped(tool') /\ tool'.pc = "idle"
<1>1. ASSUME NEW pc, Goes(pc) PROVE ToolTyped(tool') /\ tool'.pc = pc
  BY <1>1 DEF Goes, ToolTyped
<1>2. ASSUME Stops PROVE ToolTyped(tool') /\ tool'.pc = "idle"
  BY <1>2 DEF Stops, ToolIdle, ToolTyped, ImageTargets, Crcs
<1> QED BY <1>1, <1>2

(* A step of the tool that writes nothing.                                 *)
LEMMA ToolAlone ==
    ASSUME F767Inv, UNCHANGED deviceVars, ToolTyped(tool'), tool'.pc \in Late => Quiet
    PROVE  F767Inv'
<1>1. /\ journal' = journal /\ images' = images /\ device' = device /\ meta' = meta /\ boot' = boot
      /\ changes' = changes /\ erasing' = erasing /\ programmer' = programmer
  BY DEF deviceVars
<1>2. Stored' /\ Session' /\ changes' \in Seq({"chunk", "target", "cmd"})
  BY <1>1 DEF F767Inv, Stored, Session
<1>3. Pending'
  BY <1>1 DEF F767Inv, Pending, Early, Quiet
<1> QED BY <1>2, <1>3 DEF F767Inv

(* The steps of the tool that write nothing.                               *)
LEMMA ToolSteps ==
    ASSUME F767Inv,
           \/ StartTool \/ Identify \/ (Request /\ device # "app") \/ AwaitUpdater \/ AwaitApp \/ Selected
           \/ StatusErased \/ StatusValid \/ CheckWritten \/ ToolGivesUp
    PROVE  F767Inv'
<1> SUFFICES UNCHANGED deviceVars /\ ToolTyped(tool') /\ (tool'.pc \in Late => Quiet)
  BY ToolAlone
<1>0. ToolTyped(tool)
  BY SMTT(30) DEF F767Inv
<1>1. CASE StartTool
  <2>0. PICK t \in ImageTargets : \E img \in Files[t] : \E o \in Options :
           tool' = [ToolIdle EXCEPT
                      !.pc = "identify", !.target = t, !.crc = img, !.stay = o.stay,
                      !.image = IF o.corrupt THEN [img EXCEPT ![Len(img) \div 2 + 1] = FlashJunk] ELSE img]
    BY ZenonT(40), <1>1 DEF StartTool
  <2>1. PICK img \in Files[t] : \E o \in Options :
           tool' = [ToolIdle EXCEPT
                      !.pc = "identify", !.target = t, !.crc = img, !.stay = o.stay,
                      !.image = IF o.corrupt THEN [img EXCEPT ![Len(img) \div 2 + 1] = FlashJunk] ELSE img]
    BY Zenon, <2>0
  <2>2. img \in Crcs
    BY DEF Crcs
  <2>3. DOMAIN tool' = DOMAIN ToolIdle /\ tool'.pc = "identify" /\ tool'.target = t /\ tool'.crc = img
    BY <2>1 DEF ToolIdle
  <2> QED BY ZenonT(40), <1>1, <2>2, <2>3 DEF StartTool, ToolTyped, ToolIdle, Late
<1>2. CASE Identify
  BY <1>0, <1>2, ToolFields DEF Identify, Late
<1>3. CASE Request /\ device # "app"
  <2>1. Goes("await_updater") /\ UNCHANGED deviceVars
    BY <1>3, Zenon DEF Request
  <2>2. ToolTyped(tool') /\ tool'.pc = "await_updater"
    BY <1>0, <2>1, ToolFields
  <2> QED BY <2>1, <2>2 DEF Late
<1>4. ASSUME NEW pc, NEW up, NEW then, AwaitRole(pc, up, then), pc \notin Late, then \notin Late
      PROVE  UNCHANGED deviceVars /\ ToolTyped(tool') /\ (tool'.pc \in Late => Quiet)
  <2>1. CASE tool' = [tool EXCEPT !.polls = @ + 1]
    BY <1>0, <1>4, <2>1 DEF AwaitRole, ToolTyped
  <2>2. CASE Goes(then) \/ Stops
    BY <1>0, <1>4, <2>2, ToolFields DEF AwaitRole, Late
  <2> QED BY <1>4, <2>1, <2>2 DEF AwaitRole
<1>5. CASE AwaitUpdater
  <2>1. "await_updater" \notin Late /\ "select" \notin Late
    BY DEF Late
  <2> QED BY <1>4, <1>5, <2>1 DEF AwaitUpdater
<1>6. CASE AwaitApp
  <2>1. "await_app" \notin Late /\ "done" \notin Late
    BY DEF Late
  <2> QED BY <1>4, <1>6, <2>1 DEF AwaitApp
<1>7. CASE Selected
  BY <1>0, <1>7, ToolFields DEF Selected, Late
<1>8. CASE StatusErased
  BY <1>0, <1>8, ToolFields DEF StatusErased, ReadStatus
<1>9. CASE StatusValid
  BY <1>0, <1>9, ToolFields DEF StatusValid, ReadStatus
<1>10. CASE CheckWritten
  BY <1>0, <1>10, ToolFields DEF CheckWritten
<1>11. CASE ToolGivesUp
  BY <1>0, <1>11, ToolFields DEF ToolGivesUp, Late
<1> QED BY <1>1, <1>2, <1>3, <1>5, <1>6, <1>7, <1>8, <1>9, <1>10, <1>11

(* An SDO that writes the object dictionary: the flash and the status stay,*)
(* and what is queued is what Pending allows.                              *)
LEMMA OdWritten ==
    ASSUME F767Inv, UNCHANGED exceptOd, device = "updater", BootTyped(boot'),
           boot'.status = boot.status, ToolTyped(tool'),
           changes' \in Seq({"chunk", "target", "cmd"}), Pending'
    PROVE  F767Inv'
<1>1. /\ journal' = journal /\ images' = images /\ device' = device /\ meta' = meta
      /\ erasing' = erasing /\ programmer' = programmer
  BY DEF exceptOd
<1>2. Stored' /\ Session'
  BY <1>1 DEF F767Inv, Stored, Session
<1> QED BY <1>2 DEF F767Inv

(* What the updater still has to handle while it answers.                  *)
LEMMA Waiting ==
    ASSUME F767Inv, Answering, tool.pc \notin Late
    PROVE  Early
BY DEF F767Inv, Answering, Pending, Early

(* Past CLEAR the tool waits for the effect of each request.               *)
LEMMA NothingWaits ==
    ASSUME F767Inv, Answering, tool.pc \in Late
    PROVE  changes = <<>> /\ ~ erasing
BY DEF F767Inv, Answering, Pending

(* A selection or a CLEAR joins the queue.                                 *)
LEMMA EarlyAppend ==
    ASSUME F767Inv, Early, NEW e \in {"target", "cmd"}, changes' = Append(changes, e),
           tool'.pc \notin Late, erasing' = erasing,
           boot'.cmd = boot.cmd \/ boot'.cmd = "clear", e = "cmd" => boot'.cmd = "clear"
    PROVE  changes' \in Seq({"chunk", "target", "cmd"}) /\ Pending'
<1> DEFINE S == {"chunk", "target", "cmd"}
           L == Len(changes)
<1>1. changes \in Seq(S) /\ e \in S
  BY DEF F767Inv
<1> HIDE DEF S
<1>2. changes' \in Seq(S) /\ Len(changes') = L + 1 /\ L \in Nat /\ changes'[L + 1] = e
      /\ \A i \in 1..L : changes'[i] = changes[i]
  BY <1>1
<1> HIDE DEF L
<1>3. ASSUME NEW i \in 1..(L + 1)
      PROVE  changes'[i] = "target" \/ (changes'[i] = "cmd" /\ boot'.cmd = "clear")
  <2>1. CASE i \in 1..L
    <3>1. changes[i] = "target" \/ (changes[i] = "cmd" /\ boot.cmd = "clear")
      BY <2>1 DEF Early, L
    <3> QED BY <1>2, <2>1, <3>1
  <2>2. CASE i = L + 1
    BY <1>2, <2>2
  <2> QED BY <1>2, <2>1, <2>2
<1>4. Early' /\ Pending'
  BY <1>2, <1>3 DEF Early, Pending
<1> QED BY <1>2, <1>4 DEF S

(* 0x2000:5 is written, or refused while programming.                      *)
LEMMA SelectKeeps ==
    ASSUME F767Inv, Select
    PROVE  F767Inv'
<1>1. ToolTyped(tool) /\ BootTyped(boot) /\ device = "updater" /\ tool.pc \notin Late /\ Answering
      /\ erasing' = erasing
  BY DEF F767Inv, Stored, Select, Answering, Late, exceptOd
<1>2. Early
  BY <1>1, Waiting
<1>3. ToolTyped(tool') /\ tool'.pc \notin Late
  BY <1>1, ToolFields DEF Select, Late
<1>4. CASE boot.status = "programming"
  <2>1. UNCHANGED deviceVars
    BY <1>4 DEF Select, exceptOd, deviceVars
  <2> QED BY <1>3, <2>1, ToolAlone
<1>5. CASE boot.status # "programming"
  <2>1. boot' = [boot EXCEPT !.target = tool.target] /\ changes' = Append(changes, "target")
    BY <1>5 DEF Select
  <2>2. BootTyped(boot') /\ boot'.status = boot.status /\ boot'.cmd = boot.cmd
    BY <1>1, <2>1 DEF BootTyped, ToolTyped
  <2>3. changes' \in Seq({"chunk", "target", "cmd"}) /\ Pending'
    BY <1>1, <1>2, <1>3, <2>1, <2>2, EarlyAppend
  <2> QED BY <1>1, <1>3, <2>2, <2>3, OdWritten DEF Select
<1> QED BY <1>4, <1>5

(* The length and the CRC are written.                                     *)
LEMMA LengthKeeps ==
    ASSUME F767Inv, WriteLength \/ WriteCrc
    PROVE  F767Inv'
<1>1. ToolTyped(tool) /\ BootTyped(boot) /\ device = "updater" /\ tool.pc \notin Late /\ Answering
      /\ changes' = changes /\ UNCHANGED exceptOd
  BY DEF F767Inv, Stored, WriteLength, WriteCrc, Answering, Late
<1>2. Early
  BY <1>1, Waiting
<1>3. ToolTyped(tool') /\ tool'.pc \notin Late
  BY <1>1, ToolFields DEF WriteLength, WriteCrc, Late
<1>4. BootTyped(boot') /\ boot'.status = boot.status /\ boot'.cmd = boot.cmd
  <2>1. CASE boot' = boot
    BY <1>1, <2>1
  <2>2. CASE LengthAllowed(Len(tool.image)) /\ boot' = [boot EXCEPT !.len = Len(tool.image)]
    <3>1. Len(tool.image) \in Nat
      BY <2>2, CapacityAssumption DEF LengthAllowed
    <3> QED BY <1>1, <2>2, <3>1 DEF BootTyped
  <2>3. CASE boot' = [boot EXCEPT !.crc = tool.crc]
    BY <1>1, <2>3 DEF BootTyped, ToolTyped
  <2> QED BY <2>1, <2>2, <2>3 DEF WriteLength, WriteCrc
<1>5. changes' \in Seq({"chunk", "target", "cmd"})
  BY <1>1 DEF F767Inv
<1>6. Pending'
  BY <1>1, <1>2, <1>3, <1>4 DEF Pending, Early
<1> QED BY <1>1, <1>3, <1>4, <1>5, <1>6, OdWritten

(* CLEAR, VALIDATE and RESET are written, or refused.                      *)
LEMMA CommandKeeps ==
    ASSUME F767Inv, CommandClear \/ CommandValidate \/ CommandReset
    PROVE  F767Inv'
<1>1. ToolTyped(tool) /\ BootTyped(boot)
  BY DEF F767Inv, Stored
<1>2. ASSUME UNCHANGED <<boot, changes>>, UNCHANGED exceptOd, Stops
      PROVE  F767Inv'
  <2>1. UNCHANGED deviceVars
    BY <1>2 DEF deviceVars, exceptOd
  <2>2. ToolTyped(tool') /\ tool'.pc \notin Late
    BY <1>1, <1>2, ToolFields DEF Late
  <2> QED BY <2>1, <2>2, ToolAlone
<1>3. ASSUME NEW cmd, NEW then, Answering, Goes(then), boot' = [boot EXCEPT !.cmd = cmd],
             changes' = Append(changes, "cmd"), UNCHANGED exceptOd,
             changes' \in Seq({"chunk", "target", "cmd"}), Pending'
      PROVE  F767Inv'
  <2>1. BootTyped(boot') /\ boot'.status = boot.status
    BY <1>1, <1>3 DEF BootTyped
  <2> QED BY <1>1, <1>3, <2>1, ToolFields, OdWritten DEF Answering
<1>4. CASE CommandClear
  <2>1. CASE UNCHANGED <<boot, changes>> /\ UNCHANGED exceptOd /\ Stops
    BY <1>2, <2>1
  <2>2. CASE Goes("erased") /\ boot' = [boot EXCEPT !.cmd = "clear"] /\ changes' = Append(changes, "cmd")
    <3>1. Answering /\ UNCHANGED exceptOd /\ tool.pc \notin Late /\ erasing' = erasing
      BY <1>4 DEF CommandClear, Command, Late, exceptOd
    <3>2. Early
      BY <3>1, Waiting
    <3>3. tool'.pc \notin Late /\ boot'.cmd = "clear"
      BY <1>1, <2>2, ToolFields DEF Late, BootTyped
    <3>4. changes' \in Seq({"chunk", "target", "cmd"}) /\ Pending'
      BY <2>2, <3>1, <3>2, <3>3, EarlyAppend
    <3> QED BY <1>3, <2>2, <3>1, <3>4
  <2> QED BY <1>4, <2>1, <2>2 DEF CommandClear, Command
<1>5. ASSUME NEW pc \in Late, NEW cmd \in {"validate", "reset"}, NEW allowed, NEW then,
             Command(pc, cmd, allowed, then), allowed /\ cmd = "validate" => boot.status = "programming"
      PROVE  F767Inv'
  <2>1. CASE UNCHANGED <<boot, changes>> /\ UNCHANGED exceptOd /\ Stops
    BY <1>2, <2>1
  <2>2. CASE allowed /\ Goes(then) /\ boot' = [boot EXCEPT !.cmd = cmd] /\ changes' = Append(changes, "cmd")
    <3>1. Answering /\ UNCHANGED exceptOd /\ tool.pc \in Late
      BY <1>5 DEF Command
    <3>2. changes = <<>> /\ ~ erasing
      BY <3>1, NothingWaits
    <3>3. changes' = <<"cmd">> /\ ~ erasing'
      BY <2>2, <3>1, <3>2 DEF exceptOd
    <3>4. boot'.cmd = cmd /\ boot'.status = boot.status
      BY <1>1, <2>2 DEF BootTyped
    <3>5. changes' \in Seq({"chunk", "target", "cmd"})
      BY <3>3
    <3>6. Pending'
      BY Zenon, <1>5, <2>2, <3>3, <3>4 DEF Pending
    <3> QED BY <1>3, <2>2, <3>1, <3>5, <3>6
  <2> QED BY <1>5, <2>1, <2>2 DEF Command
<1>6. CASE CommandValidate
  <2>1. "validate" \in Late
    BY DEF Late
  <2> QED BY Zenon, <1>5, <1>6, <2>1 DEF CommandValidate
<1>7. CASE CommandReset
  <2>1. "reset" \in Late /\ "reset" # "validate"
    BY DEF Late
  <2> QED BY Zenon, <1>5, <1>7, <2>1 DEF CommandReset
<1> QED BY <1>4, <1>6, <1>7

(* A chunk is written, or refused.                                         *)
LEMMA ChunkKeeps ==
    ASSUME F767Inv, SendChunk
    PROVE  F767Inv'
<1> DEFINE d == SubSeq(tool.image, tool.sent + 1,
                       IF tool.sent + ChunkSize < Len(tool.image) THEN tool.sent + ChunkSize
                       ELSE Len(tool.image))
           next == IF tool.sent + Len(d) = Len(tool.image) THEN "written" ELSE "chunk"
<1>1. ToolTyped(tool) /\ BootTyped(boot) /\ Answering /\ tool.pc \in Late /\ UNCHANGED exceptOd
  BY DEF F767Inv, Stored, SendChunk, Late
<1>2. changes = <<>> /\ ~ erasing /\ ~ erasing'
  BY <1>1, NothingWaits DEF exceptOd
<1>3. \/ Stops /\ UNCHANGED <<boot, changes>>
      \/ /\ ChunkAllowed(d) /\ tool' = [tool EXCEPT !.sent = @ + Len(d), !.pc = next]
         /\ boot' = [boot EXCEPT !.chunk = d] /\ changes' = Append(changes, "chunk")
  BY Zenon DEF SendChunk
<1> HIDE DEF d, next
<1>4. CASE Stops /\ UNCHANGED <<boot, changes>>
  <2>1. UNCHANGED deviceVars
    BY <1>1, <1>4 DEF deviceVars, exceptOd
  <2>2. ToolTyped(tool') /\ tool'.pc \notin Late
    BY <1>1, <1>4, ToolFields DEF Late
  <2> QED BY <2>1, <2>2, ToolAlone
<1>5. CASE /\ ChunkAllowed(d) /\ tool' = [tool EXCEPT !.sent = @ + Len(d), !.pc = next]
           /\ boot' = [boot EXCEPT !.chunk = d] /\ changes' = Append(changes, "chunk")
  <2>1. ToolTyped(tool')
    BY <1>1, <1>5 DEF ToolTyped
  <2>2. BootTyped(boot') /\ boot'.status = "programming" /\ boot.status = "programming"
    BY <1>1, <1>5 DEF BootTyped, ChunkAllowed
  <2>3. changes' = <<"chunk">>
    BY <1>2, <1>5
  <2>4. changes' \in Seq({"chunk", "target", "cmd"})
    BY <2>3
  <2>5. Pending'
    BY <1>2, <2>2, <2>3 DEF Pending
  <2> QED BY <1>1, <2>1, <2>2, <2>4, <2>5, OdWritten DEF Answering
<1> QED BY <1>3, <1>4, <1>5

(* Every step of the board and the tool keeps F767Inv.                     *)
LEMMA F767Step == F767Inv /\ [F767Next]_f767Vars => F767Inv'
<1> SUFFICES ASSUME F767Inv, [F767Next]_f767Vars PROVE F767Inv'
  OBVIOUS
<1>1. CASE UNCHANGED f767Vars
  <2>1. UNCHANGED deviceVars /\ tool' = tool
    BY <1>1 DEF f767Vars, deviceVars
  <2>2. Stored' /\ Session' /\ Pending'
    BY <2>1 DEF deviceVars, F767Inv, Stored, Session, Pending, Early
  <2> QED BY <2>1, <2>2 DEF F767Inv, deviceVars
<1> QED
  BY <1>1, ResetKeeps, PowerLossKeeps, HandleKeeps, ClearKeeps, RequestKeeps, ToolSteps, SelectKeeps,
     LengthKeeps, CommandKeeps, ChunkKeeps DEF F767Next

(* An image that the journal of the F767 board records as valid is in its  *)
(* slot byte for byte, whatever was interrupted: clear() disowns it before *)
(* the slot is erased, validate() records it after the read-back, and the  *)
(* slot being programmed is never one that is recorded as valid.           *)
THEOREM F767RecordsWhatIsStored == F767Spec => []RecordedIsStored
<1>1. F767Inv => RecordedIsStored
  BY DEF F767Inv, Stored, Backs, RecordedIsStored
<1> QED BY <1>1, F767Start, F767Step, PTL DEF F767Spec
=============================================================================
