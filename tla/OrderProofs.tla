---------------------------- MODULE OrderProofs -----------------------------
(***************************************************************************)
(* Two parts that share no state and whose proofs rest on there being a    *)
(* least number of every set:                                              *)
(*   MetaLog    the metadata log implements a register (MetaRegister), for *)
(*              every number of slots and every range of sequence numbers  *)
(*              that is wide enough for them;                              *)
(*   CanRouter  every reader of the router is handed its frames in the     *)
(*              order of the bus, none twice, for every capacity of the    *)
(*              buffers and any number of frames.                          *)
(***************************************************************************)
EXTENDS MetaLog, CanRouter, WellFoundedInduction, TLAPS

-----------------------------------------------------------------------------
(* Induction, in terms of sets of numbers.                                 *)
Below == {ss \in Nat \X Nat : ss[1] < ss[2]}

(* Every set of natural numbers that is not empty has a least one: a first *)
(* slot, an oldest frame.                                                  *)
LEMMA Least ==
    ASSUME NEW T \in SUBSET Nat, T # {}
    PROVE  \E x \in T : \A y \in T : x <= y
<1>1. IsWellFoundedOn(Below, Nat)
  BY NatLessThanWellFounded DEF OpToRel, Below
<1>2. PICK x \in T : \A y \in T : ~(<<y, x>> \in Below)
  BY Zenon, <1>1, WFMin
<1>3. ASSUME NEW y \in T PROVE x <= y
  <2>1. ~(<<y, x>> \in Below)
    BY <1>2
  <2>2. ~(y < x)
    BY <2>1 DEF Below
  <2> QED BY <2>2
<1> QED BY <1>2, <1>3

(* What holds before the first slot and is kept by every slot holds of     *)
(* all.                                                                    *)
LEMMA SlotInduction ==
    ASSUME NEW S, 0 \in S, \A n \in 0..(MetaSlots - 1) : n \in S => n + 1 \in S
    PROVE  0..MetaSlots \subseteq S
<1> SUFFICES ASSUME 0..MetaSlots \ S # {} PROVE FALSE
  OBVIOUS
<1> USE SlotsAssumption
<1>1. PICK x \in 0..MetaSlots \ S : \A y \in 0..MetaSlots \ S : x <= y
  <2>1. 0..MetaSlots \ S \in SUBSET Nat
    OBVIOUS
  <2> QED BY Zenon, <2>1, Least
<1>2. x # 0
  BY <1>1
<1>3. x - 1 \in 0..(MetaSlots - 1) /\ x - 1 \in S
  BY <1>1, <1>2
<1>4. x \in S
  BY <1>3
<1> QED BY <1>1, <1>4

-----------------------------------------------------------------------------
(* What one pass over the slots does.                                      *)
Best(p) ==
    LET best[s \in 0..MetaSlots] ==
            IF s = 0 THEN {}
            ELSE IF p[s].kind = "rec" /\ \A b \in best[s - 1] : Newer(p[s].rec, b)
                   THEN {p[s].rec}
                   ELSE best[s - 1]
    IN  best

(* The last record among the first s slots.                                *)
LastUpTo(p, s) ==
    {t \in 1..s : p[t].kind = "rec" /\ \A u \in 1..s : u > t => p[u].kind # "rec"}
Upto(p, s) == {p[t].rec : t \in LastUpTo(p, s)}

Slot == [kind : {"free", "junk", "rec"}, rec : Record]

(* In the order of the slots, each record is newer than those before it,   *)
(* by two at most for every slot.                                          *)
Behind(r, q) == (r.seq - q.seq) % SeqRange
Ascending(p) ==
    \A s, t \in Slots :
        s < t /\ p[s].kind = "rec" /\ p[t].kind = "rec" =>
            Behind(p[t].rec, p[s].rec) \in 1..(2 * (t - s))

(* A record that is a few numbers ahead is the newer one of the two, also  *)
(* across the wrap.                                                        *)
LEMMA BehindIsNewer ==
    ASSUME NEW r \in Record, NEW q \in Record, NEW k \in 1..(2 * MetaSlots),
           Behind(r, q) = k
    PROVE  Newer(r, q)
<1> DEFINE a == r.seq
           b == q.seq
<1>1. a \in Int /\ b \in Int /\ SeqRange \in Nat /\ MetaSlots \in Nat
  BY SlotsAssumption DEF Record, Seqs
<1>2. (a - b) % SeqRange = k
  BY DEF Behind
<1>3. k < SeqRange \div 2 /\ k # 0
  <2>1. 2 * MetaSlots < SeqRange \div 2
    BY SlotsAssumption
  <2>2. SeqRange \div 2 \in Int
    BY <1>1
  <2> QED BY <1>1, <2>1, <2>2
<1>4. a # b
  <2> SUFFICES ASSUME a = b PROVE FALSE
    OBVIOUS
  <2>1. a - b = 0
    BY <1>1
  <2>2. 0 % SeqRange = 0
    <3>1. SeqRange > 0
      BY <1>1, SlotsAssumption
    <3> QED BY <1>1, <3>1
  <2> QED BY <2>1, <2>2, <1>2, <1>3
<1> QED BY <1>2, <1>3, <1>4 DEF Newer

(* The pass over an ascending log holds, after every slot, the last record *)
(* so far.                                                                 *)
LEMMA BestIsLast ==
    ASSUME NEW p \in [Slots -> Slot], Ascending(p)
    PROVE  \A s \in 0..MetaSlots : Best(p)[s] = Upto(p, s)
<1> DEFINE g == [s \in 0..MetaSlots |-> Upto(p, s)]
           Pass(f) == [s \in 0..MetaSlots |->
                          IF s = 0 THEN {}
                          ELSE IF p[s].kind = "rec" /\ \A b \in f[s - 1] : Newer(p[s].rec, b)
                                 THEN {p[s].rec}
                                 ELSE f[s - 1]]
<1>0. MetaSlots \in Nat \ {0} /\ Slots = 1..MetaSlots
  BY SlotsAssumption DEF Slots
<1>1. Upto(p, 0) = {}
  BY DEF Upto, LastUpTo
<1>2. ASSUME NEW s \in 1..MetaSlots, p[s].kind = "rec"
      PROVE  Upto(p, s) = {p[s].rec}
  <2>1. LastUpTo(p, s) = {s}
    BY <1>0, <1>2 DEF LastUpTo
  <2> QED BY <2>1 DEF Upto
<1>3. ASSUME NEW s \in 1..MetaSlots, p[s].kind # "rec"
      PROVE  Upto(p, s) = Upto(p, s - 1)
  <2>1. LastUpTo(p, s) = LastUpTo(p, s - 1)
    BY <1>0, <1>3 DEF LastUpTo
  <2> QED BY <2>1 DEF Upto
<1>4. ASSUME NEW s \in 1..MetaSlots, p[s].kind = "rec", NEW b \in Upto(p, s - 1)
      PROVE  Newer(p[s].rec, b)
  <2>1. PICK t \in LastUpTo(p, s - 1) : b = p[t].rec
    BY <1>4 DEF Upto
  <2>2. t \in 1..(s - 1) /\ p[t].kind = "rec"
    BY <2>1 DEF LastUpTo
  <2>3. t \in Slots /\ s \in Slots /\ t < s /\ 2 * (s - t) <= 2 * MetaSlots
    BY <1>0, <2>2
  <2>4. Behind(p[s].rec, b) \in 1..(2 * (s - t))
    BY <1>4, <2>1, <2>2, <2>3 DEF Ascending
  <2>5. Behind(p[s].rec, b) \in 1..(2 * MetaSlots)
    BY <2>3, <2>4, <1>0
  <2>6. p[s].rec \in Record /\ b \in Record
    BY <2>1, <2>3 DEF Slot
  <2> QED BY <2>5, <2>6, BehindIsNewer
<1>5. g = Pass(g)
  <2>1. ASSUME NEW s \in 0..MetaSlots PROVE g[s] = Pass(g)[s]
    <3>1. CASE s = 0
      BY <1>1, <3>1
    <3>2. CASE s # 0 /\ p[s].kind = "rec"
      <4>1. s \in 1..MetaSlots /\ s - 1 \in 0..MetaSlots
        BY <3>2, <1>0
      <4>2. g[s - 1] = Upto(p, s - 1) /\ g[s] = Upto(p, s)
        BY <4>1
      <4> QED BY <3>2, <4>1, <4>2, <1>2, <1>4
    <3>3. CASE s # 0 /\ p[s].kind # "rec"
      <4>1. s \in 1..MetaSlots /\ s - 1 \in 0..MetaSlots
        BY <3>3, <1>0
      <4> QED BY <3>3, <4>1, <1>3
    <3> QED BY <3>1, <3>2, <3>3
  <2> QED BY Zenon, <2>1
<1>6. Best(p) = Pass(Best(p))
  <2> HIDE DEF g
  <2> QED BY Zenon, <1>5 DEF Best
<1> DEFINE S == {s \in 0..MetaSlots : Best(p)[s] = Upto(p, s)}
<1> HIDE DEF g
<1>7. 0 \in S
  BY <1>0, <1>1, <1>6
<1>8. ASSUME NEW n \in 0..(MetaSlots - 1), n \in S
      PROVE  n + 1 \in S
  <2> DEFINE s == n + 1
  <2>1. s \in 1..MetaSlots /\ s \in 0..MetaSlots /\ s # 0 /\ s - 1 = n
    BY <1>0
  <2>2. Best(p)[n] = Upto(p, n)
    BY <1>8
  <2> HIDE DEF s
  <2>3. Best(p)[s] = IF p[s].kind = "rec" /\ \A b \in Best(p)[s - 1] : Newer(p[s].rec, b)
                     THEN {p[s].rec} ELSE Best(p)[s - 1]
    BY Zenon, <1>6, <2>1
  <2>4. CASE p[s].kind = "rec"
    <3>1. \A b \in Upto(p, s - 1) : Newer(p[s].rec, b)
      BY <2>1, <2>4, <1>4
    <3>2. Best(p)[s - 1] = Upto(p, s - 1)
      BY <2>1, <2>2
    <3>3. Best(p)[s] = {p[s].rec}
      BY <2>3, <2>4, <3>1, <3>2
    <3>4. Upto(p, s) = {p[s].rec}
      BY <2>1, <2>4, <1>2
    <3> QED BY <3>3, <3>4, <2>1 DEF s
  <2>5. CASE p[s].kind # "rec"
    BY <2>1, <2>2, <2>3, <2>5, <1>3 DEF s
  <2> QED BY <2>4, <2>5
<1> HIDE DEF S
<1>9. 0..MetaSlots \subseteq S
  BY <1>7, <1>8, SlotInduction
<1> QED BY <1>9 DEF S

(* A log that holds a record has a last one.                               *)
LEMMA LastExists ==
    ASSUME NEW p, NEW t \in Slots, p[t].kind = "rec"
    PROVE  \E s \in LastUpTo(p, MetaSlots) : t <= s
<1>0. MetaSlots \in Nat \ {0} /\ Slots = 1..MetaSlots
  BY SlotsAssumption DEF Slots
<1> DEFINE T == {n \in Nat : n < MetaSlots /\ p[MetaSlots - n].kind = "rec"}
<1>1. MetaSlots - t \in T
  <2>1. MetaSlots - (MetaSlots - t) = t
    BY <1>0
  <2> QED BY <1>0, <2>1
<1>2. PICK x \in T : \A y \in T : x <= y
  BY Zenon, <1>1, Least
<1> DEFINE s == MetaSlots - x
<1>3. s \in 1..MetaSlots /\ p[s].kind = "rec" /\ t <= s
  BY <1>0, <1>1, <1>2
<1>4. ASSUME NEW u \in 1..MetaSlots, u > s PROVE p[u].kind # "rec"
  <2> SUFFICES ASSUME p[u].kind = "rec" PROVE FALSE
    OBVIOUS
  <2>1. MetaSlots - (MetaSlots - u) = u
    BY <1>0
  <2>2. MetaSlots - u \in T
    BY <1>0, <2>1
  <2>3. x <= MetaSlots - u
    BY <1>2, <2>2
  <2> QED BY <2>3, <1>4, <1>2, <1>0
<1> QED BY <1>3, <1>4 DEF LastUpTo

(* scan_meta returns the last record, for ascending sequence numbers.      *)
LEMMA ScanFindsLast ==
    ASSUME NEW p \in [Slots -> Slot], Ascending(p), NEW s \in LastUpTo(p, MetaSlots)
    PROVE  Scan(p) = p[s].rec
<1>0. MetaSlots \in Nat \ {0}
  BY SlotsAssumption
<1>1. LastUpTo(p, MetaSlots) = {s}
  BY <1>0 DEF LastUpTo
<1>2. Best(p)[MetaSlots] = {p[s].rec}
  BY <1>0, <1>1, BestIsLast DEF Upto
<1>3. Scan(p) = IF Best(p)[MetaSlots] = {} THEN BLANK ELSE CHOOSE b \in Best(p)[MetaSlots] : TRUE
  BY DEF Scan, Best
<1> QED BY <1>2, <1>3

(* A page without records scans as blank.                                  *)
LEMMA ScanOfNone ==
    ASSUME NEW p \in [Slots -> Slot], \A s \in Slots : p[s].kind # "rec"
    PROVE  Ascending(p) /\ Scan(p) = BLANK
<1>0. MetaSlots \in Nat \ {0} /\ Slots = 1..MetaSlots
  BY SlotsAssumption DEF Slots
<1>1. Ascending(p)
  BY DEF Ascending
<1>2. Upto(p, MetaSlots) = {}
  BY <1>0 DEF Upto, LastUpTo
<1>3. Best(p)[MetaSlots] = {}
  BY <1>0, <1>1, <1>2, BestIsLast
<1>4. Scan(p) = IF Best(p)[MetaSlots] = {} THEN BLANK ELSE CHOOSE b \in Best(p)[MetaSlots] : TRUE
  BY DEF Scan, Best
<1> QED BY <1>1, <1>3, <1>4

(* The last record of the page, and the record the log is about to write   *)
(* or the updater keeps: at most two generations ahead.                    *)
Last(p) == LastUpTo(p, MetaSlots)

(* A page the log can be in; one that ends with record r in slot s; one    *)
(* with the records of p; one without a record.                            *)
Sound(z) ==
    /\ z \in [Slots -> Slot] /\ Ascending(z)
    /\ \A u, t \in Slots : z[u] = Free /\ z[t].kind = "rec" => t < u
EndsWith(z, s, r) == Sound(z) /\ Last(z) = {s} /\ z[s].rec = r /\ Scan(z) = r
SameRecords(z, p) ==
    Sound(z) /\ Last(z) = Last(p) /\ (\A u \in Last(z) : z[u] = p[u]) /\ Scan(z) = Scan(p)
NoRecords(z) == Sound(z) /\ Last(z) = {} /\ Scan(z) = BLANK

LogInv ==
    /\ Sound(page)
    /\ mode \in {"off", "app", "updater"}
    /\ ram \in Record
    /\ op \subseteq Record
    /\ \A r, q \in op : r = q
    /\ result \in {"off", "up", "busy", "ok", "err"}
    /\ mode = "off" <=> result = "off"
    /\ op # {} <=> result = "busy"
    /\ \A s \in Last(page) :
          /\ \A r \in op : Behind(r, page[s].rec) \in {1, 2}
          /\ mode = "updater" => Behind(ram, page[s].rec) \in {0, 1}
          /\ mode = "updater" /\ result = "up" => Behind(ram, page[s].rec) = 0

-----------------------------------------------------------------------------
(* Arithmetic of sequence numbers that wrap.                               *)
LEMMA Wrapped ==
    ASSUME NEW N \in Nat, NEW a \in 0..(N - 1), NEW b \in 0..(N - 1)
    PROVE  (a - b) % N = IF a >= b THEN a - b ELSE a - b + N
<1>1. CASE a >= b
  <2>1. a - b \in 0..(N - 1)
    BY <1>1
  <2>2. \A d \in 0..(N - 1) : d % N = d
    OBVIOUS
  <2> QED BY <1>1, <2>1, <2>2
<1>2. CASE a < b
  <2>1. a - b + N \in 1..(N - 1) /\ (a - b + N) - N = a - b
    BY <1>2
  <2>2. \A d \in 1..(N - 1) : (d - N) % N = d
    OBVIOUS
  <2> QED BY <1>2, <2>1, <2>2
<1> QED BY <1>1, <1>2

(* Distances between sequence numbers add up below the range.              *)
LEMMA BehindAdds ==
    ASSUME NEW r \in Record, NEW q \in Record, NEW o \in Record,
           Behind(r, q) + Behind(q, o) < SeqRange
    PROVE  Behind(r, o) = Behind(r, q) + Behind(q, o)
<1> DEFINE a == r.seq
           b == q.seq
           c == o.seq
<1>1. a \in 0..(SeqRange - 1) /\ b \in 0..(SeqRange - 1) /\ c \in 0..(SeqRange - 1)
  BY DEF Record, Seqs
<1>2. Behind(r, q) = (a - b) % SeqRange /\ Behind(q, o) = (b - c) % SeqRange
      /\ Behind(r, o) = (a - c) % SeqRange
  BY DEF Behind
<1>3. SeqRange \in Nat
  BY SlotsAssumption
<1> DEFINE x == Behind(r, q)
           y == Behind(q, o)
           w == Behind(r, o)
<1>4. x + y < SeqRange
  OBVIOUS
<1> HIDE DEF a, b, c, x, y, w
<1>5. x = IF a >= b THEN a - b ELSE a - b + SeqRange
  BY Zenon, <1>1, <1>2, <1>3, Wrapped DEF x
<1>6. y = IF b >= c THEN b - c ELSE b - c + SeqRange
  BY <1>1, <1>2, <1>3, Wrapped DEF y
<1>7. w = IF a >= c THEN a - c ELSE a - c + SeqRange
  BY Zenon, <1>1, <1>2, <1>3, Wrapped DEF w
<1>8. w = x + y
  BY <1>1, <1>3, <1>4, <1>5, <1>6, <1>7
<1> QED BY <1>8 DEF x, y, w

(* next_generation: the number after the record in force.                  *)
LEMMA NextIsBehindByOne ==
    ASSUME NEW r \in Record, NEW c \in Contents
    PROVE  /\ NextGeneration(r, c) \in Record
           /\ NextGeneration(r, c).content = c
           /\ Behind(NextGeneration(r, c), r) = 1
           /\ Behind(r, r) = 0
<1> DEFINE a == r.seq
           n == (a + 1) % SeqRange
<1>1. a \in 0..(SeqRange - 1) /\ SeqRange \in Nat
  BY SlotsAssumption DEF Record, Seqs
<1>2. SeqRange > 2
  <2>1. SeqRange \div 2 > 2
    BY SlotsAssumption
  <2> QED BY <1>1, <2>1
<1>3. n = IF a + 1 = SeqRange THEN 0 ELSE a + 1
  <2>1. CASE a + 1 = SeqRange
    <3>1. SeqRange % SeqRange = 0
      BY <1>1, <1>2
    <3> QED BY <2>1, <3>1
  <2>2. CASE a + 1 # SeqRange
    <3>1. a + 1 \in 0..(SeqRange - 1)
      BY <1>1, <2>2
    <3>2. \A d \in 0..(SeqRange - 1) : d % SeqRange = d
      BY <1>1
    <3> QED BY <2>2, <3>1, <3>2
  <2> QED BY <2>1, <2>2
<1>4. NextGeneration(r, c) = [seq |-> n, content |-> c]
  BY DEF NextGeneration
<1>5. Behind(NextGeneration(r, c), r) = (n - a) % SeqRange /\ Behind(r, r) = (a - a) % SeqRange
  BY <1>4 DEF Behind
<1> HIDE DEF a, n
<1>6. n \in 0..(SeqRange - 1)
  BY <1>1, <1>2, <1>3
<1>7. (n - a) % SeqRange = 1 /\ (a - a) % SeqRange = 0
  BY <1>1, <1>2, <1>3, <1>6, Wrapped
<1> QED BY <1>4, <1>5, <1>6, <1>7 DEF Record, Seqs

-----------------------------------------------------------------------------
(* An erased page and its blank record.                                    *)
LEMMA BlankIsRecord ==
    /\ BLANK \in Record /\ Free \in Slot /\ Junk \in Slot
    /\ Free.kind = "free" /\ Junk.kind = "junk"
<1>1. 0 \in Seqs
  <2>1. SeqRange \in Nat /\ SeqRange \div 2 > 2
    BY SlotsAssumption
  <2> QED BY <2>1 DEF Seqs
<1> QED BY <1>1, ContentsAssumption DEF BLANK, Record, Free, Junk, Slot

(* What scan_meta returns, of the pages the log can be in.                 *)
LEMMA ScanOf ==
    ASSUME NEW p \in [Slots -> Slot], Ascending(p)
    PROVE  /\ Scan(p) \in Record
           /\ \A s \in Last(p) : s \in Slots /\ p[s].kind = "rec" /\ Scan(p) = p[s].rec
           /\ Last(p) = {} => Scan(p) = BLANK /\ \A s \in Slots : p[s].kind # "rec"
<1>1. CASE Last(p) = {}
  <2>1. \A s \in Slots : p[s].kind # "rec"
    BY <1>1, LastExists DEF Last
  <2> QED BY <1>1, <2>1, ScanOfNone, BlankIsRecord
<1>2. CASE Last(p) # {}
  <2>1. ASSUME NEW s \in Last(p)
        PROVE  s \in Slots /\ p[s].kind = "rec" /\ Scan(p) = p[s].rec
    BY Zenon, ScanFindsLast DEF Last, LastUpTo, Slots
  <2>2. \A s \in Slots : p[s].rec \in Record
    BY DEF Slot
  <2> QED BY <1>2, <2>1, <2>2
<1> QED BY <1>1, <1>2

(* A slot that was erased and is not a record now: the records are the     *)
(* same ones.                                                              *)
LEMMA SpoiledSlot ==
    ASSUME NEW p, Sound(p), NEW s \in FirstFree(p)
    PROVE  SameRecords([p EXCEPT ![s] = Junk], p)
<1> DEFINE z == [p EXCEPT ![s] = Junk]
<1>0. p \in [Slots -> Slot] /\ Ascending(p) /\ s \in Slots /\ p[s].kind # "rec"
      /\ \A u, t \in Slots : p[u] = Free /\ p[t].kind = "rec" => t < u
  BY BlankIsRecord DEF Sound, FirstFree
<1>1. z \in [Slots -> Slot]
  BY <1>0, BlankIsRecord
<1>2. \A t \in Slots : /\ z[t].kind = "rec" <=> p[t].kind = "rec"
                       /\ t # s => z[t] = p[t]
  BY <1>0, BlankIsRecord
<1>3. Last(z) = Last(p) /\ \A u \in Last(z) : u # s /\ u \in Slots
  BY <1>0, <1>2 DEF Last, LastUpTo, Slots
<1>4. Ascending(z)
  BY <1>0, <1>2 DEF Ascending
<1>5. \A u, t \in Slots : z[u] = Free /\ z[t].kind = "rec" => t < u
  BY <1>0, <1>2, BlankIsRecord
<1>6. \A u \in Last(z) : z[u] = p[u]
  BY <1>2, <1>3
<1> HIDE DEF z
<1>7. Scan(z) = Scan(p)
  <2>1. CASE Last(p) = {}
    BY <2>1, <1>0, <1>1, <1>3, <1>4, ScanOf
  <2>2. CASE Last(p) # {}
    <3>1. PICK u \in Last(p) : TRUE
      BY <2>2
    <3> QED BY <3>1, <1>0, <1>1, <1>3, <1>4, <1>6, ScanOf
  <2> QED BY <2>1, <2>2
<1> QED BY Zenon, <1>1, <1>3, <1>4, <1>5, <1>6, <1>7 DEF z, SameRecords, Sound

(* A record written to the first erased slot is the last one.              *)
LEMMA WrittenSlot ==
    ASSUME NEW p, Sound(p), NEW s \in FirstFree(p), NEW r \in Record,
           \A l \in Last(p) : Behind(r, p[l].rec) \in {1, 2}
    PROVE  EndsWith([p EXCEPT ![s] = Holds(r)], s, r)
<1> DEFINE z == [p EXCEPT ![s] = Holds(r)]
<1>a. p \in [Slots -> Slot] /\ Ascending(p)
      /\ \A u, t \in Slots : p[u] = Free /\ p[t].kind = "rec" => t < u
  BY DEF Sound
<1>0. MetaSlots \in Nat \ {0} /\ Slots = 1..MetaSlots /\ SeqRange \in Nat
      /\ 2 * MetaSlots < SeqRange
  <2>1. MetaSlots \in Nat \ {0} /\ SeqRange \in Nat /\ 2 * MetaSlots < SeqRange \div 2
    BY SlotsAssumption
  <2>2. SeqRange \div 2 <= SeqRange
    BY <2>1
  <2>3. SeqRange \div 2 \in Int
    BY <2>1
  <2> QED BY <2>1, <2>2, <2>3 DEF Slots
<1>1. s \in Slots /\ p[s] = Free /\ \A t \in Slots : t < s => p[t] # Free
  BY DEF FirstFree
<1>2. z[s] = Holds(r) /\ z[s].kind = "rec" /\ z[s].rec = r /\ Holds(r) \in Slot /\ Holds(r) # Free
  BY <1>a, <1>1 DEF Holds, Slot, Free
<1>3. z \in [Slots -> Slot] /\ \A t \in Slots : t # s => z[t] = p[t]
  BY <1>a, <1>1, <1>2
<1>4. \A t \in Slots : p[t].kind = "rec" => t < s
  BY <1>a, <1>1
<1> HIDE DEF z
<1>5. ASSUME NEW t \in Slots, p[t].kind = "rec"
      PROVE  Behind(r, p[t].rec) \in 1..(2 * (s - t))
  <2>1. PICK l \in Last(p) : t <= l
    BY <1>5, LastExists DEF Last
  <2>2. l \in Slots /\ p[l].kind = "rec" /\ l < s
    BY <2>1, <1>4 DEF Last, LastUpTo, Slots
  <2>3. Behind(r, p[l].rec) \in {1, 2}
    BY <2>1
  <2>4. CASE l = t
    BY <2>3, <2>2, <2>4, <1>0, <1>1
  <2>5. CASE t < l
    <3>1. Behind(p[l].rec, p[t].rec) \in 1..(2 * (l - t))
      BY <1>a, <1>5, <2>2, <2>5 DEF Ascending
    <3>2. p[l].rec \in Record /\ p[t].rec \in Record
      BY <1>a, <2>2 DEF Slot
    <3> DEFINE x == Behind(r, p[l].rec)
               y == Behind(p[l].rec, p[t].rec)
    <3>3. x \in {1, 2} /\ y \in 1..(2 * (l - t))
      BY <2>3, <3>1
    <3> HIDE DEF x, y
    <3>4. x + y \in 1..(2 * (s - t)) /\ x + y < SeqRange
      BY <3>3, <2>2, <2>5, <1>0, <1>1
    <3>5. Behind(r, p[t].rec) = x + y
      BY <3>2, <3>4, BehindAdds DEF x, y
    <3> QED BY <3>4, <3>5
  <2> QED BY <2>1, <2>2, <2>4, <2>5, <1>0
<1>6. Ascending(z)
  <2> SUFFICES ASSUME NEW u \in Slots, NEW t \in Slots, u < t,
                      z[u].kind = "rec", z[t].kind = "rec"
               PROVE  Behind(z[t].rec, z[u].rec) \in 1..(2 * (t - u))
    BY DEF Ascending
  <2>1. CASE t = s
    <3>1. u # s /\ z[u] = p[u]
      BY <2>1, <1>0, <1>3
    <3> QED BY <2>1, <3>1, <1>2, <1>5
  <2>2. CASE t # s
    <3>1. p[t].kind = "rec" /\ z[t] = p[t]
      BY <2>2, <1>3
    <3>2. t < s
      BY <3>1, <1>4
    <3>3. u # s /\ z[u] = p[u]
      BY <3>2, <1>0, <1>3
    <3> QED BY <1>a, <3>1, <3>3 DEF Ascending
  <2> QED BY <2>1, <2>2
<1>7. Last(z) = {s}
  <2>1. \A t \in Slots : z[t].kind = "rec" => t <= s
    BY <1>0, <1>1, <1>3, <1>4
  <2> QED BY <1>0, <1>1, <1>2, <2>1 DEF Last, LastUpTo
<1>8. ASSUME NEW u \in Slots, NEW t \in Slots, z[u] = Free, z[t].kind = "rec"
      PROVE  t < u
  <2>1. u # s /\ p[u] = Free
    BY <1>2, <1>3, <1>8
  <2>2. u > s
    BY <2>1, <1>0, <1>1
  <2> QED BY <2>1, <2>2, <1>0, <1>1, <1>3, <1>4, <1>8
<1>9. Scan(z) = r
  BY <1>2, <1>3, <1>6, <1>7, ScanOf
<1> QED BY Zenon, <1>2, <1>3, <1>6, <1>7, <1>8, <1>9 DEF z, EndsWith, Sound

(* A page without a record.                                                *)
LEMMA LostPage ==
    ASSUME NEW z \in {Erased, Wrecked}
    PROVE  NoRecords(z)
<1>1. z \in [Slots -> Slot] /\ \A s \in Slots : z[s].kind # "rec"
  BY BlankIsRecord DEF Erased, Wrecked
<1>2. Last(z) = {}
  BY <1>1 DEF Last, LastUpTo, Slots
<1> QED BY <1>1, <1>2, ScanOfNone DEF NoRecords, Sound

-----------------------------------------------------------------------------
(* The log starts as a register without a value.                           *)
LEMMA InitIsRegister == Init => LogInv /\ Register!Init
<1> SUFFICES ASSUME Init PROVE LogInv /\ Register!Init
  OBVIOUS
<1>1. page \in [Slots -> Slot] /\ \A s \in Slots : page[s].kind # "rec"
  BY BlankIsRecord DEF Init
<1>2. Ascending(page) /\ Scan(page) = BLANK
  BY <1>1, ScanOfNone
<1>3. Last(page) = {}
  BY <1>1 DEF Last, LastUpTo, Slots
<1>4. LogInv
  BY <1>1, <1>2, <1>3, BlankIsRecord DEF Init, LogInv, Sound
<1>5. Scan(page).content = Blank
  BY <1>2 DEF BLANK
<1> QED BY <1>4, <1>5 DEF Register!Init, Init

(* A reset: the updater reads the record in force.                         *)
LEMMA PowerOnIsRegister == LogInv /\ PowerOn => LogInv' /\ Register!PowerOn
<1> SUFFICES ASSUME LogInv, PowerOn PROVE LogInv' /\ Register!PowerOn
  OBVIOUS
<1>1. page \in [Slots -> Slot] /\ Ascending(page) /\ op = {} /\ result = "off"
  BY DEF LogInv, Sound, PowerOn
<1>2. Scan(page) \in Record /\ \A s \in Last(page) : Scan(page) = page[s].rec
  BY <1>1, ScanOf
<1>3. \A r \in Record : Behind(r, r) = 0
  BY NextIsBehindByOne, ContentsAssumption
<1>4. \A s \in Last(page) : Behind(ram', page[s].rec) = 0
  BY <1>2, <1>3 DEF PowerOn
<1>5. LogInv'
  BY <1>1, <1>2, <1>4 DEF LogInv, PowerOn
<1>6. Register!PowerOn
  BY <1>1 DEF PowerOn, Register!PowerOn
<1> QED BY <1>5, <1>6

(* append_meta is called: a value is offered to the register.              *)
LEMMA StartIsRegister ==
    ASSUME LogInv, NEW c \in Contents, Start(c)
    PROVE  LogInv' /\ Register!Offer(c)
<1> DEFINE base == IF mode = "app" THEN Scan(page) ELSE ram
           next == NextGeneration(base, c)
<1>1. /\ page \in [Slots -> Slot] /\ Ascending(page) /\ ram \in Record
      /\ mode \in {"app", "updater"} /\ op = {} /\ result \notin {"off", "busy"}
      /\ result \in {"up", "ok", "err"}
  BY DEF LogInv, Sound, Start
<1>2. Scan(page) \in Record /\ \A s \in Last(page) : s \in Slots /\ Scan(page) = page[s].rec
  BY <1>1, ScanOf
<1>3. base \in Record
  BY <1>1, <1>2
<1>4. next \in Record /\ next.content = c /\ Behind(next, base) = 1
  BY <1>3, NextIsBehindByOne
<1>5. /\ op' = {next} /\ result' = "busy" /\ page' = page /\ mode' = mode
      /\ \/ ram' = ram
         \/ mode = "updater" /\ result = "up" /\ ram' = next
  BY DEF Start
<1> HIDE DEF next
<1>6. ASSUME NEW s \in Last(page)
      PROVE  /\ Behind(base, page[s].rec) \in {0, 1}
             /\ Behind(next, page[s].rec) = Behind(base, page[s].rec) + 1
             /\ mode = "updater" /\ result = "up" => Behind(base, page[s].rec) = 0
  <2>1. page[s].rec \in Record
    BY <1>1, <1>2 DEF Slot
  <2>2. Behind(base, page[s].rec) \in {0, 1}
    <3>1. CASE mode = "app"
      BY <3>1, <1>2, <2>1, NextIsBehindByOne, ContentsAssumption
    <3>2. CASE mode = "updater"
      BY <3>2 DEF LogInv
    <3> QED BY <3>1, <3>2, <1>1
  <2>3. SeqRange > 2 /\ SeqRange \in Nat
    <3>1. SeqRange \in Nat /\ SeqRange \div 2 > 2
      BY SlotsAssumption
    <3> QED BY <3>1
  <2>4. mode = "updater" /\ result = "up" => Behind(base, page[s].rec) = 0
    BY DEF LogInv
  <2> HIDE DEF base
  <2>5. Behind(next, page[s].rec) = Behind(base, page[s].rec) + 1
    BY <1>3, <1>4, <2>1, <2>2, <2>3, BehindAdds
  <2> QED BY <2>2, <2>4, <2>5
<1>7. ASSUME NEW s \in Last(page)
      PROVE  /\ \A r \in op' : Behind(r, page[s].rec) \in {1, 2}
             /\ mode' = "updater" => Behind(ram', page[s].rec) \in {0, 1}
  <2>1. Behind(next, page[s].rec) \in {1, 2}
    BY <1>6
  <2>2. ASSUME mode = "updater" PROVE Behind(ram', page[s].rec) \in {0, 1}
    <3>1. base = ram
      BY <2>2
    <3>2. CASE ram' = ram
      BY <3>1, <3>2, <1>6
    <3>3. CASE result = "up" /\ ram' = next
      BY <2>2, <3>3, <1>6
    <3> QED BY <3>2, <3>3, <1>5
  <2> QED BY <2>1, <2>2, <1>5
<1>8. LogInv'
  BY <1>1, <1>4, <1>5, <1>7 DEF LogInv
<1>9. {r.content : r \in op'} = {c}
  BY <1>4, <1>5
<1> QED BY <1>1, <1>5, <1>8, <1>9 DEF Register!Offer

(* The full page is erased: the register loses its value.                  *)
LEMMA EraseIsRegister == LogInv /\ Erase => LogInv' /\ Register!Lose
<1> SUFFICES ASSUME LogInv, Erase PROVE LogInv' /\ Register!Lose
  OBVIOUS
<1>1. NoRecords(page')
  BY LostPage DEF Erase
<1>2. LogInv'
  BY <1>1 DEF LogInv, Erase, NoRecords
<1>3. {r.content : r \in op} # {} /\ Scan(page').content = Blank
  BY <1>1 DEF Erase, Full, BLANK, NoRecords
<1> QED BY <1>2, <1>3 DEF Register!Lose, Erase

(* An erase that fails is a write that is refused.                         *)
LEMMA EraseFailsIsRegister == LogInv /\ EraseFails => LogInv' /\ Register!Nack
<1> SUFFICES ASSUME LogInv, EraseFails PROVE LogInv' /\ Register!Nack
  OBVIOUS
<1>1. {r.content : r \in op} # {} /\ {r.content : r \in op'} = {} /\ result' = "err"
  BY DEF EraseFails, Full
<1>2. result = "busy" /\ mode # "off" /\ mode' = mode /\ ram' = ram /\ op' = {}
  BY DEF EraseFails, Full, LogInv
<1>3. CASE page' = page
  <2>1. LogInv'
    BY <1>1, <1>2, <1>3 DEF LogInv
  <2> QED BY <1>1, <1>3, <2>1 DEF Register!Nack
<1>4. CASE page' = Wrecked
  <2>1. NoRecords(page')
    BY <1>4, LostPage
  <2>2. LogInv'
    BY <1>1, <1>2, <2>1 DEF LogInv, NoRecords
  <2>3. Scan(page').content = Blank
    BY <2>1 DEF BLANK, NoRecords
  <2> QED BY Zenon, <1>1, <2>2, <2>3 DEF Register!Nack
<1> QED BY <1>3, <1>4 DEF EraseFails

(* The record is written: the value that was offered is in force.          *)
LEMMA WriteIsRegister == LogInv /\ Write => LogInv' /\ Register!Ack
<1> SUFFICES ASSUME LogInv, Write PROVE LogInv' /\ Register!Ack
  OBVIOUS
<1>1. PICK s \in FirstFree(page), r \in op :
          /\ page' = [page EXCEPT ![s] = Holds(r)]
          /\ ram' = r /\ op' = {} /\ result' = "ok" /\ mode' = mode
  BY Zenon DEF Write
<1>2. EndsWith(page', s, r)
  BY Zenon, <1>1, WrittenSlot DEF LogInv
<1>3. r \in Record /\ mode # "off" /\ mode \in {"off", "app", "updater"}
  BY <1>1 DEF LogInv
<1>4. Behind(r, r) = 0
  BY <1>3, NextIsBehindByOne, ContentsAssumption
<1>5. LogInv'
  BY Zenon, <1>1, <1>2, <1>3, <1>4 DEF LogInv, EndsWith
<1>6. Scan(page').content \in {q.content : q \in op} /\ {q.content : q \in op'} = {}
  BY Zenon, <1>1, <1>2 DEF EndsWith
<1> QED BY Zenon, <1>1, <1>5, <1>6 DEF Register!Ack

(* A write that fails leaves a slot of junk and the value as it was.       *)
LEMMA WriteFailsIsRegister == LogInv /\ WriteFails => LogInv' /\ Register!Nack
<1> SUFFICES ASSUME LogInv, WriteFails PROVE LogInv' /\ Register!Nack
  OBVIOUS
<1>1. PICK s \in FirstFree(page), r \in op :
          /\ page' = [page EXCEPT ![s] = Junk]
          /\ ram' = ram /\ op' = {} /\ result' = "err" /\ mode' = mode
  BY Zenon DEF WriteFails
<1>2. SameRecords(page', page)
  BY Zenon, <1>1, SpoiledSlot DEF LogInv
<1>3. mode # "off"
  BY <1>1 DEF LogInv
<1>4. LogInv'
  BY Zenon, <1>1, <1>2, <1>3 DEF LogInv, SameRecords
<1>5. {q.content : q \in op} # {} /\ {q.content : q \in op'} = {}
  BY <1>1
<1> QED BY <1>1, <1>2, <1>4, <1>5 DEF Register!Nack, SameRecords

(* Power is lost, in the middle of an operation or between two.            *)
LEMMA PowerLossIsRegister == LogInv /\ PowerLoss => LogInv' /\ Register!PowerLoss
<1> SUFFICES ASSUME LogInv, PowerLoss PROVE LogInv' /\ Register!PowerLoss
  OBVIOUS
<1>1. /\ mode' = "off" /\ ram' = BLANK /\ op' = {} /\ result' = "off" /\ result # "off"
      /\ {q.content : q \in op'} = {}
  BY DEF PowerLoss, LogInv
<1>2. ASSUME Sound(page'), NEW v, Scan(page').content = v,
             v \in {Scan(page).content, Blank} \cup {q.content : q \in op},
             op = {} => v = Scan(page).content
      PROVE  LogInv' /\ Register!PowerLoss
  <2>1. LogInv'
    BY <1>1, <1>2, BlankIsRecord DEF LogInv
  <2>2. {q.content : q \in op} = {} <=> op = {}
    BY Zenon
  <2> QED BY <1>1, <1>2, <2>1, <2>2 DEF Register!PowerLoss
<1>3. CASE page' = page
  BY <1>2, <1>3 DEF LogInv
<1>4. CASE page' = Wrecked /\ op # {}
  <2>1. NoRecords(page')
    BY <1>4, LostPage
  <2> QED BY <1>2, <1>4, <2>1 DEF NoRecords, BLANK
<1>5. ASSUME NEW s \in FirstFree(page), page' = [page EXCEPT ![s] = Junk]
      PROVE  LogInv' /\ Register!PowerLoss
  <2>1. SameRecords(page', page)
    BY Zenon, <1>5, SpoiledSlot DEF LogInv
  <2> QED BY <1>2, <2>1 DEF SameRecords
<1>6. ASSUME NEW s \in FirstFree(page), NEW r \in op, page' = [page EXCEPT ![s] = Holds(r)]
      PROVE  LogInv' /\ Register!PowerLoss
  <2>1. EndsWith(page', s, r)
    BY Zenon, <1>6, WrittenSlot DEF LogInv
  <2> QED BY <1>2, <1>6, <2>1 DEF EndsWith
<1> QED BY <1>3, <1>4, <1>5, <1>6 DEF PowerLoss, Interrupted, Full

(* Every step of the log is a step of the register, or leaves it.          *)
LEMMA StepIsRegister ==
    LogInv /\ [Next]_vars => LogInv' /\ [Register!Next]_Register!vars
<1> SUFFICES ASSUME LogInv, [Next]_vars
             PROVE  LogInv' /\ [Register!Next]_Register!vars
  OBVIOUS
<1>1. CASE PowerOn
  BY <1>1, PowerOnIsRegister DEF Register!Next
<1>2. CASE Erase
  BY <1>2, EraseIsRegister DEF Register!Next
<1>3. CASE EraseFails
  BY <1>3, EraseFailsIsRegister DEF Register!Next
<1>4. CASE Write
  BY <1>4, WriteIsRegister DEF Register!Next
<1>5. CASE WriteFails
  BY <1>5, WriteFailsIsRegister DEF Register!Next
<1>6. CASE PowerLoss
  BY <1>6, PowerLossIsRegister DEF Register!Next
<1>7. ASSUME NEW c \in Contents, Start(c)
      PROVE  LogInv' /\ [Register!Next]_Register!vars
  BY <1>7, StartIsRegister DEF Register!Next
<1>8. CASE UNCHANGED vars
  <2>1. LogInv'
    BY <1>8 DEF vars, LogInv
  <2>2. UNCHANGED Register!vars
    BY <1>8 DEF vars, Register!vars
  <2> QED BY <2>1, <2>2
<1> QED BY <1>1, <1>2, <1>3, <1>4, <1>5, <1>6, <1>7, <1>8 DEF Next

(* For every number of slots and every range of sequence numbers more than *)
(* four times as large, whatever the page holds at first and however often *)
(* power or the flash fails: scan_meta and append_meta implement the       *)
(* register of MetaRegister.                                               *)
THEOREM LogIsRegister == Spec => IsRegister
<1>1. Init => LogInv /\ Register!Init
  BY InitIsRegister
<1>2. LogInv /\ [Next]_vars => LogInv' /\ [Register!Next]_Register!vars
  BY StepIsRegister
<1> QED BY <1>1, <1>2, PTL DEF Spec, IsRegister, Register!Spec

-----------------------------------------------------------------------------
(* The router.                                                             *)
Frame == [n : Nat, id : {x.id : x \in RouterFrames}, full : {x.full : x \in RouterFrames}]

\* The place of a frame in the order of arrival.
Number(f) == f.n

Ascends(q) == \A i, j \in 1..Len(q) : i < j => Number(q[i]) < Number(q[j])
InOrder(h) ==
  \A i, j \in 1..Len(h) : i < j /\ SameSource(h[i], h[j]) => Number(h[i]) < Number(h[j])
Precedes(p, q) ==
  \A i \in 1..Len(p), j \in 1..Len(q) : SameSource(p[i], q[j]) => Number(p[i]) < Number(q[j])
UpTo(q, m) == \A i \in 1..Len(q) : Number(q[i]) <= m
Apart(p, q) == \A i \in 1..Len(p), j \in 1..Len(q) : ~SameSource(p[i], q[j])

\* A buffer, beside what was handed on and how many frames have arrived.
Kept(q, h, m) == q \in Seq(Frame) /\ Ascends(q) /\ Precedes(h, q) /\ UpTo(q, m)

\* The buffers of a demultiplexer keep frames of different kinds; a wait found
\* nothing in its buffer; a HeartbeatPort sets aside what it does not wait for.
KindsApart ==
  /\ \A i \in 1..Len(hbBuf) : IsHeartbeat(hbBuf[i], 0)
  /\ \A i \in 1..Len(pdoBuf) : IsPdo(pdoBuf[i])
  /\ \A i \in 1..Len(otherBuf) : ~IsHeartbeat(otherBuf[i], 0) /\ ~IsPdo(otherBuf[i])
  /\ user = "demux" => overflow = <<>>
  /\ user # "demux" => hbBuf = <<>> /\ pdoBuf = <<>> /\ otherBuf = <<>>
  /\ user = "heartbeat port" => \A i \in 1..Len(overflow) : ~IsHeartbeat(overflow[i], portNode)

CallInv ==
  \/ call = NoCall
  \/ call.kind = "heartbeat" /\ user = "demux" /\ \A i \in 1..Len(hbBuf) : ~IsHeartbeat(hbBuf[i], call.node)
  \/ call.kind = "pdo" /\ user = "demux" /\ pdoBuf = <<>>
  \/ call.kind = "demux sdo" /\ user = "demux"
  \/ call.kind = "sdo port" /\ user = "sdo port"
  \/ call.kind = "heartbeat port" /\ user = "heartbeat port" /\ call.node = portNode

QueuesInv ==
  /\ routed \in Nat
  /\ handed \in Seq(Frame) /\ InOrder(handed) /\ UpTo(handed, routed)
  /\ Kept(hbBuf, handed, routed) /\ Kept(pdoBuf, handed, routed)
  /\ Kept(otherBuf, handed, routed) /\ Kept(overflow, handed, routed)

CountInv ==
  /\ overflowDropped \in Nat
  /\ user = "sdo port" => routed = Len(handed) + Len(overflow) + overflowDropped

RouterInv == QueuesInv /\ KindsApart /\ CallInv /\ CountInv

(* The number of a frame.                                                  *)
LEMMA Numbered == \A f \in Frame : Number(f) \in Nat
BY DEF Frame, Number

(* The numbers of the frames in a buffer.                                  *)
LEMMA NumbersOf == ASSUME NEW q \in Seq(Frame) PROVE Len(q) \in Nat /\ \A i \in 1..Len(q) : q[i] \in Frame /\ Number(q[i]) \in Nat
BY Numbered

\* Frames of different kinds have different sources, and an SDO response is of
\* neither kind.
LEMMA Sources ==
    ASSUME NEW f, NEW g
    PROVE  /\ SameSource(f, g) => SameSource(g, f)
           /\ IsHeartbeat(f, 0) /\ IsPdo(g) => ~SameSource(f, g)
           /\ ~IsHeartbeat(f, 0) /\ ~IsPdo(f) => ~SameSource(f, g)
           /\ f.id = SdoTx(Target) => ~SameSource(f, g)
<1>1. ParsedAs(SdoTx(Target)) = "sdo_response"
  <2>1. Target \in 1..127
    BY TargetAssumption DEF NodeIds
  <2>2. SdoTx(Target) = 1408 + Target /\ (1408 + Target) % 128 = Target /\ (1408 + Target) \div 128 = 11
    BY <2>1 DEF SdoTx
  <2> QED BY <2>1, <2>2 DEF ParsedAs, NodeOf, Block, NMT, SYNC
<1>2. f.id = SdoTx(Target) => ~IsHeartbeat(f, 0) /\ ~IsPdo(f)
  BY <1>1 DEF IsHeartbeat, IsPdo
<1> QED BY <1>2 DEF SameSource, IsHeartbeat, IsPdo

\* A frame straight from the bus, of a source no buffer holds a frame of.
LEMMA HandedNew ==
    ASSUME NEW h \in Seq(Frame), NEW m \in Nat, NEW f \in Frame, Number(f) = m + 1,
           InOrder(h), UpTo(h, m)
    PROVE  /\ Append(h, f) \in Seq(Frame) /\ Len(Append(h, f)) = Len(h) + 1
           /\ InOrder(Append(h, f)) /\ UpTo(Append(h, f), m + 1)
           /\ \A q : Kept(q, h, m) /\ (\A j \in 1..Len(q) : ~SameSource(f, q[j])) =>
                       Kept(q, Append(h, f), m + 1)
<1> DEFINE k == Append(h, f)
           l == Len(h)
<1>1. /\ k \in Seq(Frame) /\ Len(k) = l + 1 /\ k[l + 1] = f /\ l \in Nat
      /\ \A i \in 1..l : k[i] = h[i]
  OBVIOUS
<1>2. \A i \in 1..l : Number(h[i]) <= m /\ Number(h[i]) \in Nat
  BY NumbersOf DEF UpTo
<1>3. \A i, j \in 1..l : i < j /\ SameSource(h[i], h[j]) => Number(h[i]) < Number(h[j])
  BY DEF InOrder
<1> HIDE DEF k, l
<1>4. \A i \in 1..Len(k) : i = l + 1 \/ i \in 1..l
  BY <1>1
<1>5. UpTo(k, m + 1)
  <2> SUFFICES ASSUME NEW i \in 1..Len(k) PROVE Number(k[i]) <= m + 1
    BY DEF UpTo
  <2> QED BY <1>1, <1>2, <1>4
<1>6. InOrder(k)
  <2> SUFFICES ASSUME NEW i \in 1..Len(k), NEW j \in 1..Len(k), i < j, SameSource(k[i], k[j])
               PROVE  Number(k[i]) < Number(k[j])
    BY DEF InOrder
  <2>1. i \in 1..l
    BY <1>1
  <2>2. CASE j = l + 1
    BY <2>1, <2>2, <1>1, <1>2
  <2>3. CASE j \in 1..l
    BY <2>1, <2>3, <1>1, <1>3
  <2> QED BY <2>2, <2>3, <1>4
<1>7. ASSUME NEW q, Kept(q, h, m), \A j \in 1..Len(q) : ~SameSource(f, q[j])
      PROVE  Kept(q, k, m + 1)
  <2>1. q \in Seq(Frame) /\ Ascends(q) /\ Precedes(h, q) /\ UpTo(q, m)
    BY <1>7 DEF Kept
  <2>2. UpTo(q, m + 1)
    <3> SUFFICES ASSUME NEW j \in 1..Len(q) PROVE Number(q[j]) <= m + 1
      BY DEF UpTo
    <3>1. Number(q[j]) <= m /\ Number(q[j]) \in Nat
      BY <2>1, NumbersOf DEF UpTo
    <3> QED BY <3>1
  <2>3. Precedes(k, q)
    <3> SUFFICES ASSUME NEW i \in 1..Len(k), NEW j \in 1..Len(q), SameSource(k[i], q[j])
                 PROVE  Number(k[i]) < Number(q[j])
      BY DEF Precedes
    <3>1. i # l + 1
      BY <1>1, <1>7
    <3>2. i \in 1..Len(h) /\ k[i] = h[i]
      BY <3>1, <1>1, <1>4 DEF l
    <3> QED BY <3>2, <2>1 DEF Precedes
  <2> QED BY <2>1, <2>2, <2>3 DEF Kept
<1> QED BY <1>1, <1>5, <1>6, <1>7 DEF k, l

\* A frame is kept behind the ones that came before it.
LEMMA KeptNew ==
    ASSUME NEW h \in Seq(Frame), NEW m \in Nat, NEW f \in Frame, Number(f) = m + 1, UpTo(h, m),
           NEW q, Kept(q, h, m), NEW cap
    PROVE  /\ Kept(q, h, m + 1)
           /\ Kept(KeptIn(q, f, cap), h, m + 1)
           /\ \A i \in 1..Len(KeptIn(q, f, cap)) :
                 KeptIn(q, f, cap)[i] = f \/ (i \in 1..Len(q) /\ KeptIn(q, f, cap)[i] = q[i])
<1>1. q \in Seq(Frame) /\ Ascends(q) /\ Precedes(h, q) /\ UpTo(q, m)
  BY DEF Kept
<1> DEFINE k == Append(q, f)
           l == Len(q)
<1>2. \A i \in 1..Len(h) : Number(h[i]) <= m /\ Number(h[i]) \in Nat
  BY NumbersOf DEF UpTo
<1>3. \A i \in 1..l : Number(q[i]) <= m /\ Number(q[i]) \in Nat
  BY <1>1, NumbersOf DEF UpTo
<1>4. /\ k \in Seq(Frame) /\ Len(k) = l + 1 /\ k[l + 1] = f /\ l \in Nat
      /\ \A i \in 1..l : k[i] = q[i]
  BY <1>1
<1>5. KeptIn(q, f, cap) = k \/ KeptIn(q, f, cap) = q
  BY DEF KeptIn
<1>6. /\ \A i, j \in 1..l : i < j => Number(q[i]) < Number(q[j])
      /\ \A i \in 1..Len(h), j \in 1..l : SameSource(h[i], q[j]) => Number(h[i]) < Number(q[j])
  BY <1>1 DEF Ascends, Precedes
<1>7. Kept(q, h, m + 1)
  <2>1. UpTo(q, m + 1)
    <3> SUFFICES ASSUME NEW j \in 1..Len(q) PROVE Number(q[j]) <= m + 1
      BY DEF UpTo
    <3>1. Number(q[j]) <= m /\ Number(q[j]) \in Nat
      BY <1>3
    <3> QED BY <3>1
  <2> QED BY <1>1, <2>1 DEF Kept
<1> HIDE DEF k, l
<1>8. \A i \in 1..Len(k) : i = l + 1 \/ i \in 1..l
  BY <1>4
<1>9. \A i \in 1..Len(k) : k[i] = f \/ (i \in 1..l /\ k[i] = q[i])
  BY <1>4, <1>8
<1>10. Kept(k, h, m + 1)
  <2>1. UpTo(k, m + 1)
    <3> SUFFICES ASSUME NEW i \in 1..Len(k) PROVE Number(k[i]) <= m + 1
      BY DEF UpTo
    <3> QED BY <1>3, <1>4, <1>8
  <2>2. Ascends(k)
    <3> SUFFICES ASSUME NEW i \in 1..Len(k), NEW j \in 1..Len(k), i < j
                 PROVE  Number(k[i]) < Number(k[j])
      BY DEF Ascends
    <3>1. i \in 1..l
      BY <1>4
    <3>2. CASE j = l + 1
      BY <3>1, <3>2, <1>3, <1>4
    <3>3. CASE j \in 1..l
      BY <3>1, <3>3, <1>4, <1>6
    <3> QED BY <3>2, <3>3, <1>8
  <2>3. Precedes(h, k)
    <3> SUFFICES ASSUME NEW i \in 1..Len(h), NEW j \in 1..Len(k), SameSource(h[i], k[j])
                 PROVE  Number(h[i]) < Number(k[j])
      BY DEF Precedes
    <3>1. CASE j = l + 1
      BY <3>1, <1>2, <1>4
    <3>2. CASE j \in 1..l
      BY <3>2, <1>4, <1>6
    <3> QED BY <3>1, <3>2, <1>8
  <2> QED BY <1>4, <2>1, <2>2, <2>3 DEF Kept
<1> QED BY <1>5, <1>7, <1>9, <1>10 DEF l

\* The frame at place p of a buffer is handed on, past others of other sources.
LEMMA HandedFrom ==
    ASSUME NEW h \in Seq(Frame), NEW m \in Nat, InOrder(h), UpTo(h, m),
           NEW q, Kept(q, h, m), NEW p \in 1..Len(q),
           \A i \in 1..Len(q) : i < p => ~SameSource(q[p], q[i]),
           NEW t \in Seq(Frame), Len(t) = Len(q) - 1,
           \A i \in 1..Len(t) : t[i] = IF i < p THEN q[i] ELSE q[i + 1]
    PROVE  LET k == Append(h, q[p])
           IN  /\ k \in Seq(Frame) /\ Len(k) = Len(h) + 1 /\ InOrder(k) /\ UpTo(k, m)
               /\ Kept(t, k, m)
               /\ \A i \in 1..Len(t) : \E j \in 1..Len(q) : t[i] = q[j]
               /\ \A r : Kept(r, h, m) /\ Apart(q, r) => Kept(r, k, m)
<1> DEFINE f == q[p]
           l == Len(h)
           k == Append(h, f)
<1>1. q \in Seq(Frame) /\ Ascends(q) /\ Precedes(h, q) /\ UpTo(q, m)
  BY DEF Kept
<1>2. /\ \A i \in 1..Len(q) : Number(q[i]) <= m /\ Number(q[i]) \in Nat
      /\ \A i \in 1..l : Number(h[i]) <= m /\ Number(h[i]) \in Nat
      /\ f \in Frame /\ Len(q) \in Nat
  BY Zenon, <1>1, NumbersOf DEF UpTo
<1>3. /\ k \in Seq(Frame) /\ Len(k) = l + 1 /\ k[l + 1] = f /\ l \in Nat
      /\ \A i \in 1..l : k[i] = h[i]
  BY <1>2
<1>4. /\ \A i, j \in 1..Len(q) : i < j => Number(q[i]) < Number(q[j])
      /\ \A i \in 1..l, j \in 1..Len(q) : SameSource(h[i], q[j]) => Number(h[i]) < Number(q[j])
      /\ \A i, j \in 1..l : i < j /\ SameSource(h[i], h[j]) => Number(h[i]) < Number(h[j])
  BY <1>1 DEF Ascends, Precedes, InOrder
<1>5. \A i \in 1..Len(t) : i + 1 \in 1..Len(q) /\ i \in 1..Len(q)
                           /\ t[i] = IF i < p THEN q[i] ELSE q[i + 1]
  BY <1>2
<1> HIDE DEF f, k, l
<1>6. \A i \in 1..Len(k) : i = l + 1 \/ i \in 1..l
  BY <1>3
<1>7. InOrder(k)
  <2> SUFFICES ASSUME NEW i \in 1..Len(k), NEW j \in 1..Len(k), i < j, SameSource(k[i], k[j])
               PROVE  Number(k[i]) < Number(k[j])
    BY DEF InOrder
  <2>1. i \in 1..l
    BY <1>3
  <2>2. CASE j = l + 1
    BY <2>1, <2>2, <1>3, <1>4 DEF f
  <2>3. CASE j \in 1..l
    BY <2>1, <2>3, <1>3, <1>4
  <2> QED BY <2>2, <2>3, <1>6
<1>8. UpTo(k, m)
  <2> SUFFICES ASSUME NEW i \in 1..Len(k) PROVE Number(k[i]) <= m
    BY DEF UpTo
  <2> QED BY Zenon, <1>2, <1>3, <1>6 DEF f
<1>9. Kept(t, k, m)
  <2>1. UpTo(t, m)
    <3> SUFFICES ASSUME NEW i \in 1..Len(t) PROVE Number(t[i]) <= m
      BY DEF UpTo
    <3> QED BY Zenon, <1>2, <1>5
  <2>2. Ascends(t)
    <3> SUFFICES ASSUME NEW i \in 1..Len(t), NEW j \in 1..Len(t), i < j
                 PROVE  Number(t[i]) < Number(t[j])
      BY DEF Ascends
    <3> DEFINE a == IF i < p THEN i ELSE i + 1
               b == IF j < p THEN j ELSE j + 1
    <3>1. a \in 1..Len(q) /\ b \in 1..Len(q) /\ a < b
      BY <1>2, <1>5
    <3>2. t[i] = q[a] /\ t[j] = q[b]
      BY Zenon, <1>5
    <3> HIDE DEF a, b
    <3> QED BY <3>1, <3>2, <1>4
  <2>3. Precedes(k, t)
    <3> SUFFICES ASSUME NEW i \in 1..Len(k), NEW j \in 1..Len(t), SameSource(k[i], t[j])
                 PROVE  Number(k[i]) < Number(t[j])
      BY SMTT(30) DEF Precedes
    <3> DEFINE b == IF j < p THEN j ELSE j + 1
    <3>1. b \in 1..Len(q) /\ t[j] = q[b] /\ b # p
      BY <1>2, <1>5
    <3> HIDE DEF b
    <3>2. CASE i = l + 1
      <4>1. ~(b < p)
        BY <3>1, <3>2, <1>3 DEF f
      <4>2. p < b
        BY <3>1, <4>1, <1>2
      <4> QED BY <3>1, <3>2, <4>2, <1>3, <1>4 DEF f
    <3>3. CASE i \in 1..l
      BY <3>1, <3>3, <1>3, <1>4
    <3> QED BY <3>2, <3>3, <1>6
  <2> QED BY <2>1, <2>2, <2>3 DEF Kept
<1>10. ASSUME NEW r, Kept(r, h, m), Apart(q, r) PROVE Kept(r, k, m)
  <2>1. r \in Seq(Frame) /\ Ascends(r) /\ Precedes(h, r) /\ UpTo(r, m)
    BY <1>10 DEF Kept
  <2>2. Precedes(k, r)
    <3> SUFFICES ASSUME NEW i \in 1..Len(k), NEW j \in 1..Len(r), SameSource(k[i], r[j])
                 PROVE  Number(k[i]) < Number(r[j])
      BY DEF Precedes
    <3>1. i # l + 1
      BY <1>3, <1>10 DEF Apart, f
    <3>2. i \in 1..Len(h) /\ k[i] = h[i]
      BY <3>1, <1>3, <1>6 DEF l
    <3> QED BY <3>2, <2>1 DEF Precedes
  <2> QED BY <2>1, <2>2 DEF Kept
<1>11. \A i \in 1..Len(t) : \E j \in 1..Len(q) : t[i] = q[j]
  BY <1>5
<1> QED BY <1>3, <1>7, <1>8, <1>9, <1>10, <1>11 DEF f, k, l

\* The first frame of a buffer.
LEMMA HandedFirst ==
    ASSUME NEW h \in Seq(Frame), NEW m \in Nat, InOrder(h), UpTo(h, m),
           NEW q, Kept(q, h, m), q # <<>>
    PROVE  LET k == Append(h, Head(q))
           IN  /\ k \in Seq(Frame) /\ Len(k) = Len(h) + 1 /\ InOrder(k) /\ UpTo(k, m)
               /\ Kept(Tail(q), k, m)
               /\ \A i \in 1..Len(Tail(q)) : \E j \in 1..Len(q) : Tail(q)[i] = q[j]
               /\ \A r : Kept(r, h, m) /\ Apart(q, r) => Kept(r, k, m)
<1> DEFINE t == Tail(q)
<1>1. q \in Seq(Frame)
  BY DEF Kept
<1>2. /\ 1 \in 1..Len(q) /\ Head(q) = q[1] /\ t \in Seq(Frame) /\ Len(t) = Len(q) - 1
      /\ \A i \in 1..Len(q) : ~(i < 1)
      /\ \A i \in 1..Len(t) : t[i] = IF i < 1 THEN q[i] ELSE q[i + 1]
  BY <1>1
<1> HIDE DEF t
<1>3. LET k == Append(h, q[1])
      IN  /\ k \in Seq(Frame) /\ Len(k) = Len(h) + 1 /\ InOrder(k) /\ UpTo(k, m)
          /\ Kept(t, k, m)
          /\ \A i \in 1..Len(t) : \E j \in 1..Len(q) : t[i] = q[j]
          /\ \A r : Kept(r, h, m) /\ Apart(q, r) => Kept(r, k, m)
  BY <1>2, HandedFrom
<1> QED BY <1>2, <1>3 DEF t

(* What is left of a sequence behind a place of it: what the router keeps  *)
(* of a buffer behind the frame it hands over.                             *)
LEMMA SequenceBehind ==
    ASSUME NEW S, NEW q \in Seq(S), NEW p \in 1..Len(q)
    PROVE  /\ SubSeq(q, p + 1, Len(q)) \in Seq(S)
           /\ Len(SubSeq(q, p + 1, Len(q))) = Len(q) - p
           /\ \A i \in 1..(Len(q) - p) : SubSeq(q, p + 1, Len(q))[i] = q[p + i]
OBVIOUS

\* take_buffered_heartbeat: the first match, and the others in their order.
LEMMA HandedHeartbeat ==
    ASSUME NEW h \in Seq(Frame), NEW m \in Nat, InOrder(h), UpTo(h, m),
           NEW q, Kept(q, h, m), NEW node, TakeHeartbeat(q, node).found # <<>>
    PROVE  LET k == h \o TakeHeartbeat(q, node).found
               t == TakeHeartbeat(q, node).rest
           IN  /\ k \in Seq(Frame) /\ InOrder(k) /\ UpTo(k, m)
               /\ Kept(t, k, m)
               /\ \A i \in 1..Len(t) : \E j \in 1..Len(q) : t[i] = q[j]
               /\ \A r : Kept(r, h, m) /\ Apart(q, r) => Kept(r, k, m)
<1> DEFINE hits == {i \in DOMAIN q : IsHeartbeat(q[i], node)}
           p == CHOOSE i \in hits : \A j \in hits : i <= j
           t == SubSeq(q, 1, p - 1) \o SubSeq(q, p + 1, Len(q))
<1>1. q \in Seq(Frame) /\ DOMAIN q = 1..Len(q) /\ Len(q) \in Nat
  BY DEF Kept
<1>2. hits # {}
  BY DEF TakeHeartbeat
<1>3. TakeHeartbeat(q, node) = [found |-> <<q[p]>>, rest |-> t]
  BY <1>2 DEF TakeHeartbeat
<1>4. hits \in SUBSET Nat /\ hits \subseteq 1..Len(q)
  BY <1>1
<1>5. p \in hits /\ \A j \in hits : p <= j
  <2>1. \E x \in hits : \A y \in hits : x <= y
    BY Zenon, <1>2, <1>4, Least
  <2> HIDE DEF hits
  <2> QED BY <2>1
<1>6. p \in 1..Len(q) /\ IsHeartbeat(q[p], node)
  BY <1>4, <1>5
<1>7. ASSUME NEW i \in 1..Len(q), i < p PROVE ~SameSource(q[p], q[i])
  <2>1. ~IsHeartbeat(q[i], node)
    <3> SUFFICES ASSUME IsHeartbeat(q[i], node) PROVE FALSE
      OBVIOUS
    <3>1. i \in hits
      BY <1>1
    <3>2. p <= i
      BY <1>5, <3>1
    <3> HIDE DEF p, hits
    <3> QED BY <1>6, <1>7, <3>2
  <2> HIDE DEF p
  <2> QED BY <1>6, <2>1 DEF SameSource, IsHeartbeat, IsPdo
<1> HIDE DEF p, hits
<1>8. /\ t \in Seq(Frame) /\ Len(t) = Len(q) - 1
      /\ \A i \in 1..Len(t) : t[i] = IF i < p THEN q[i] ELSE q[i + 1]
  <2> DEFINE a == SubSeq(q, 1, p - 1)
             b == SubSeq(q, p + 1, Len(q))
  <2>1. a \in Seq(Frame) /\ Len(a) = p - 1 /\ \A i \in 1..(p - 1) : a[i] = q[i]
    BY SMTT(30), <1>1, <1>6
  <2>2. b \in Seq(Frame) /\ Len(b) = Len(q) - p /\ \A i \in 1..(Len(q) - p) : b[i] = q[p + i]
    BY Zenon, <1>1, <1>6, SequenceBehind
  <2> HIDE DEF a, b
  <2>3. /\ a \o b \in Seq(Frame) /\ Len(a \o b) = Len(a) + Len(b)
        /\ \A i \in 1..Len(a) : (a \o b)[i] = a[i]
        /\ \A i \in (Len(a) + 1)..(Len(a) + Len(b)) : (a \o b)[i] = b[i - Len(a)]
    <3>1. a \in Seq(Frame) /\ b \in Seq(Frame)
      BY <2>1, <2>2
    <3> QED BY <3>1
  <2>4. ASSUME NEW i \in 1..(Len(q) - 1) PROVE (a \o b)[i] = IF i < p THEN q[i] ELSE q[i + 1]
    <3>1. CASE i < p
      BY <3>1, <1>1, <1>6, <2>1, <2>3
    <3>2. CASE ~(i < p)
      <4>1. i \in (Len(a) + 1)..(Len(a) + Len(b)) /\ i - Len(a) = i - p + 1
            /\ i - p + 1 \in 1..(Len(q) - p) /\ p + (i - p + 1) = i + 1
        BY <3>2, <1>1, <1>6, <2>1, <2>2
      <4> QED BY <3>2, <4>1, <2>2, <2>3
    <3> QED BY Zenon, <3>1, <3>2
  <2>5. Len(a \o b) = Len(q) - 1
    BY <2>1, <2>2, <2>3, <1>1, <1>6
  <2>6. t = a \o b
    BY DEF a, b
  <2> HIDE DEF t
  <2> QED BY <2>3, <2>4, <2>5, <2>6
<1>9. h \o <<q[p]>> = Append(h, q[p])
  <2>1. q[p] \in Frame
    BY SMTT(30), <1>1, <1>6
  <2> QED BY <2>1
<1> HIDE DEF t
<1>10. LET k == Append(h, q[p])
       IN  /\ k \in Seq(Frame) /\ Len(k) = Len(h) + 1 /\ InOrder(k) /\ UpTo(k, m)
           /\ Kept(t, k, m)
           /\ \A i \in 1..Len(t) : \E j \in 1..Len(q) : t[i] = q[j]
           /\ \A r : Kept(r, h, m) /\ Apart(q, r) => Kept(r, k, m)
  BY Zenon, <1>6, <1>7, <1>8, HandedFrom
<1>11. TakeHeartbeat(q, node).found = <<q[p]>> /\ TakeHeartbeat(q, node).rest = t
  BY <1>3
<1> QED BY <1>9, <1>10, <1>11, Zenon

\* drain_overflow hands on a whole buffer.
LEMMA HandedAll ==
    ASSUME NEW h \in Seq(Frame), NEW m \in Nat, InOrder(h), UpTo(h, m), NEW q, Kept(q, h, m)
    PROVE  /\ h \o q \in Seq(Frame) /\ Len(h \o q) = Len(h) + Len(q)
           /\ InOrder(h \o q) /\ UpTo(h \o q, m)
<1> DEFINE k == h \o q
           l == Len(h)
<1>1. q \in Seq(Frame) /\ Ascends(q) /\ Precedes(h, q) /\ UpTo(q, m)
  BY DEF Kept
<1>2. /\ k \in Seq(Frame) /\ Len(k) = l + Len(q) /\ l \in Nat /\ Len(q) \in Nat
      /\ \A i \in 1..l : k[i] = h[i]
      /\ \A i \in (l + 1)..(l + Len(q)) : k[i] = q[i - l]
  BY <1>1
<1>3. /\ \A i, j \in 1..Len(q) : i < j => Number(q[i]) < Number(q[j])
      /\ \A i \in 1..l, j \in 1..Len(q) : SameSource(h[i], q[j]) => Number(h[i]) < Number(q[j])
      /\ \A i, j \in 1..l : i < j /\ SameSource(h[i], h[j]) => Number(h[i]) < Number(h[j])
      /\ \A i \in 1..l : Number(h[i]) <= m
      /\ \A i \in 1..Len(q) : Number(q[i]) <= m
  BY <1>1 DEF Ascends, Precedes, InOrder, UpTo
<1> HIDE DEF k, l
<1>4. \A i \in 1..Len(k) : i \in 1..l \/ (i > l /\ i - l \in 1..Len(q) /\ k[i] = q[i - l])
  BY <1>2
<1>5. UpTo(k, m)
  <2> SUFFICES ASSUME NEW i \in 1..Len(k) PROVE Number(k[i]) <= m
    BY DEF UpTo
  <2> QED BY <1>2, <1>3, <1>4
<1>6. InOrder(k)
  <2> SUFFICES ASSUME NEW i \in 1..Len(k), NEW j \in 1..Len(k), i < j, SameSource(k[i], k[j])
               PROVE  Number(k[i]) < Number(k[j])
    BY DEF InOrder
  <2>1. CASE j \in 1..l
    <3>1. i \in 1..l
      BY <2>1, <1>2
    <3> QED BY <2>1, <3>1, <1>2, <1>3
  <2>2. CASE ~(j \in 1..l) /\ ~(i \in 1..l)
    <3>1. i - l < j - l
      BY <1>2
    <3> DEFINE a == i - l
               b == j - l
    <3>2. a \in 1..Len(q) /\ b \in 1..Len(q) /\ k[i] = q[a] /\ k[j] = q[b] /\ a < b
      BY <2>2, <3>1, <1>4
    <3> HIDE DEF a, b
    <3> QED BY <3>2, <1>3
  <2>3. CASE ~(j \in 1..l) /\ i \in 1..l
    <3> DEFINE b == j - l
    <3>1. b \in 1..Len(q) /\ k[j] = q[b] /\ k[i] = h[i]
      BY <2>3, <1>2, <1>4
    <3> HIDE DEF b
    <3> QED BY <2>3, <3>1, <1>3
  <2> QED BY <2>1, <2>2, <2>3
<1> QED BY <1>2, <1>5, <1>6 DEF k, l

(* The buffers a router starts with.                                       *)
LEMMA EmptyQueue ==
    ASSUME NEW q, q = <<>>, NEW h, NEW m
    PROVE  q \in Seq(Frame) /\ Len(q) = 0 /\ InOrder(q) /\ UpTo(q, m) /\ Kept(q, h, m)
<1>1. q \in Seq(Frame) /\ Len(q) = 0
  OBVIOUS
<1> QED BY <1>1 DEF InOrder, UpTo, Kept, Ascends, Precedes

(* A new router has handed out nothing.                                    *)
LEMMA RouterStart == RouterInit => RouterInv
<1> SUFFICES ASSUME RouterInit PROVE RouterInv
  OBVIOUS
<1>1. /\ hbBuf = <<>> /\ pdoBuf = <<>> /\ otherBuf = <<>> /\ overflow = <<>> /\ handed = <<>>
      /\ routed = 0 /\ overflowDropped = 0 /\ call = NoCall
  BY DEF RouterInit
<1>2. QueuesInv
  <2>1. routed \in Nat /\ handed \in Seq(Frame) /\ InOrder(handed) /\ UpTo(handed, routed)
    BY <1>1, EmptyQueue
  <2>2. Kept(hbBuf, handed, routed) /\ Kept(pdoBuf, handed, routed)
        /\ Kept(otherBuf, handed, routed) /\ Kept(overflow, handed, routed)
    BY <1>1, EmptyQueue
  <2> QED BY <2>1, <2>2 DEF QueuesInv
<1>3. KindsApart
  <2>1. Len(hbBuf) = 0 /\ Len(pdoBuf) = 0 /\ Len(otherBuf) = 0 /\ Len(overflow) = 0
    BY <1>1, EmptyQueue
  <2> QED BY <1>1, <2>1 DEF KindsApart
<1>4. CallInv
  BY <1>1 DEF CallInv
<1>5. CountInv
  <2>1. Len(handed) = 0 /\ Len(overflow) = 0
    BY <1>1, EmptyQueue
  <2> QED BY <1>1, <2>1 DEF CountInv
<1> QED BY <1>2, <1>3, <1>4, <1>5 DEF RouterInv

\* The three buffers of a demultiplexer never hold frames of one source.
LEMMA BuffersApart ==
    ASSUME RouterInv
    PROVE  /\ Apart(hbBuf, pdoBuf) /\ Apart(hbBuf, otherBuf) /\ Apart(pdoBuf, hbBuf)
           /\ Apart(pdoBuf, otherBuf) /\ Apart(otherBuf, hbBuf) /\ Apart(otherBuf, pdoBuf)
           /\ user = "demux" => Apart(hbBuf, overflow) /\ Apart(pdoBuf, overflow) /\ Apart(otherBuf, overflow)
<1>1. /\ \A i \in 1..Len(hbBuf) : IsHeartbeat(hbBuf[i], 0)
      /\ \A i \in 1..Len(pdoBuf) : IsPdo(pdoBuf[i])
      /\ \A i \in 1..Len(otherBuf) : ~IsHeartbeat(otherBuf[i], 0) /\ ~IsPdo(otherBuf[i])
      /\ user = "demux" => overflow = <<>>
  BY DEF RouterInv, KindsApart
<1>2. ASSUME NEW i \in 1..Len(hbBuf), NEW j \in 1..Len(pdoBuf)
      PROVE  ~SameSource(hbBuf[i], pdoBuf[j]) /\ ~SameSource(pdoBuf[j], hbBuf[i])
  BY <1>1, Sources
<1>3. ASSUME NEW q, NEW i \in 1..Len(otherBuf), NEW j \in 1..Len(q)
      PROVE  ~SameSource(otherBuf[i], q[j]) /\ ~SameSource(q[j], otherBuf[i])
  BY <1>1, Sources
<1>4. user = "demux" => Len(overflow) = 0
  BY <1>1
<1> QED BY <1>2, <1>3, <1>4 DEF Apart

(* What was handed out, and the overflow queue, are sequences.             *)
LEMMA Lengths ==
    ASSUME RouterInv
    PROVE  /\ Len(handed) \in Nat /\ Len(overflow) \in Nat /\ overflow \in Seq(Frame)
           /\ overflowDropped \in Nat
<1>1. handed \in Seq(Frame) /\ overflow \in Seq(Frame) /\ overflowDropped \in Nat
  BY DEF RouterInv, QueuesInv, Kept, CountInv
<1> QED BY <1>1

\* Whose calls are whose.
LEMMA Callers ==
    ASSUME RouterInv, call # NoCall
    PROVE  /\ call.kind \in {"heartbeat", "pdo", "demux sdo", "sdo port", "heartbeat port"}
           /\ call.kind \in {"heartbeat", "pdo", "demux sdo"} => user = "demux" /\ overflow = <<>>
           /\ call.kind \in {"sdo port", "heartbeat port"} => user = call.kind
BY DEF RouterInv, CallInv, KindsApart

(* recv_heartbeat: the first heartbeat of the node that is buffered, or a  *)
(* call that waits.                                                        *)
LEMMA RecvHeartbeatStep ==
    ASSUME RouterInv, NEW node, RecvHeartbeat(node)
    PROVE  RouterInv'
<1> DEFINE t == TakeHeartbeat(hbBuf, node)
<1>1. /\ user = "demux" /\ hbBuf' = t.rest /\ handed' = handed \o t.found
      /\ call' = IF t.found = <<>> THEN [kind |-> "heartbeat", node |-> node] ELSE NoCall
      /\ UNCHANGED <<user, portNode, pdoBuf, otherBuf, overflow, overflowDropped, routed>>
  BY DEF RecvHeartbeat
<1>2. QueuesInv /\ KindsApart /\ CountInv
  BY DEF RouterInv
<1>3. CASE t.found = <<>>
  <2>1. t.rest = hbBuf /\ \A i \in DOMAIN hbBuf : ~IsHeartbeat(hbBuf[i], node)
    BY <1>3 DEF TakeHeartbeat
  <2>2. handed \in Seq(Frame) /\ hbBuf \in Seq(Frame)
    BY <1>2 DEF QueuesInv, Kept
  <2>3. handed' = handed /\ hbBuf' = hbBuf /\ DOMAIN hbBuf = 1..Len(hbBuf)
    BY SMTT(30), <1>1, <1>3, <2>1, <2>2
  <2>4. QueuesInv' /\ KindsApart' /\ CountInv'
    <3> HIDE DEF t
    <3>1. QueuesInv'
      BY Zenon, <1>1, <1>2, <2>3 DEF QueuesInv
    <3>2. KindsApart'
      BY Zenon, <1>1, <1>2, <2>3 DEF KindsApart
    <3>3. CountInv'
      BY Zenon, <1>1, <1>2, <2>3 DEF CountInv
    <3> QED BY <3>1, <3>2, <3>3
  <2>5. CallInv'
    BY <1>1, <1>3, <2>1, <2>3 DEF CallInv
  <2> QED BY <2>4, <2>5 DEF RouterInv
<1>4. CASE t.found # <<>>
  <2>1. handed \in Seq(Frame) /\ routed \in Nat /\ InOrder(handed) /\ UpTo(handed, routed)
        /\ Kept(hbBuf, handed, routed)
    BY Zenon, <1>2 DEF QueuesInv
  <2>2. LET k == handed \o TakeHeartbeat(hbBuf, node).found
            r == TakeHeartbeat(hbBuf, node).rest
        IN  /\ k \in Seq(Frame) /\ InOrder(k) /\ UpTo(k, routed)
            /\ Kept(r, k, routed)
            /\ \A i \in 1..Len(r) : \E j \in 1..Len(hbBuf) : r[i] = hbBuf[j]
            /\ \A q : Kept(q, handed, routed) /\ Apart(hbBuf, q) => Kept(q, k, routed)
    BY Zenon, <1>4, <2>1, HandedHeartbeat
  <2>3. /\ handed' \in Seq(Frame) /\ InOrder(handed') /\ UpTo(handed', routed)
        /\ Kept(hbBuf', handed', routed)
        /\ \A i \in 1..Len(hbBuf') : \E j \in 1..Len(hbBuf) : hbBuf'[i] = hbBuf[j]
        /\ \A q : Kept(q, handed, routed) /\ Apart(hbBuf, q) => Kept(q, handed', routed)
    BY <1>1, <2>2, ZenonT(40)
  <2>4. QueuesInv'
    BY ZenonT(40), <1>1, <1>2, <2>3, BuffersApart DEF QueuesInv
  <2>5. KindsApart'
    BY <1>1, <1>2, <2>3 DEF KindsApart
  <2>6. CallInv' /\ CountInv'
    BY <1>1, <1>2, <1>4 DEF CallInv, CountInv
  <2> QED BY <2>4, <2>5, <2>6 DEF RouterInv
<1> QED BY <1>3, <1>4

\* The first frame of the buffer q of a demultiplexer is handed on.
LEMMA FirstStep ==
    ASSUME RouterInv, user = "demux", NEW q, q # <<>>, Kept(q, handed, routed),
           handed' = Append(handed, Head(q)), routed' = routed
    PROVE  /\ handed' \in Seq(Frame) /\ InOrder(handed') /\ UpTo(handed', routed')
           /\ Kept(Tail(q), handed', routed')
           /\ \A i \in 1..Len(Tail(q)) : \E j \in 1..Len(q) : Tail(q)[i] = q[j]
           /\ \A r : Kept(r, handed, routed) /\ Apart(q, r) => Kept(r, handed', routed')
<1>1. handed \in Seq(Frame) /\ routed \in Nat /\ InOrder(handed) /\ UpTo(handed, routed)
  BY DEF RouterInv, QueuesInv
<1>2. LET k == Append(handed, Head(q))
      IN  /\ k \in Seq(Frame) /\ Len(k) = Len(handed) + 1 /\ InOrder(k) /\ UpTo(k, routed)
          /\ Kept(Tail(q), k, routed)
          /\ \A i \in 1..Len(Tail(q)) : \E j \in 1..Len(q) : Tail(q)[i] = q[j]
          /\ \A r : Kept(r, handed, routed) /\ Apart(q, r) => Kept(r, k, routed)
  BY <1>1, HandedFirst
<1> QED BY <1>2, Zenon

(* A frame that a buffer of the demultiplexer holds is handed out.         *)
LEMMA TakeStep ==
    ASSUME RouterInv, user = "demux", routed \in Nat, call = NoCall,
           UNCHANGED <<user, portNode, overflow, overflowDropped, call, routed>>,
           \/ /\ hbBuf # <<>> /\ hbBuf' = Tail(hbBuf) /\ handed' = Append(handed, Head(hbBuf))
              /\ UNCHANGED <<pdoBuf, otherBuf>>
           \/ /\ pdoBuf # <<>> /\ pdoBuf' = Tail(pdoBuf) /\ handed' = Append(handed, Head(pdoBuf))
              /\ UNCHANGED <<hbBuf, otherBuf>>
           \/ /\ otherBuf # <<>> /\ otherBuf' = Tail(otherBuf)
              /\ handed' = Append(handed, Head(otherBuf))
              /\ UNCHANGED <<hbBuf, pdoBuf>>
    PROVE  RouterInv'
<1>1. QueuesInv /\ KindsApart /\ CountInv
  BY DEF RouterInv
<1>2. CallInv' /\ CountInv'
  BY <1>1 DEF CallInv, CountInv
<1>3. CASE /\ hbBuf # <<>> /\ hbBuf' = Tail(hbBuf) /\ handed' = Append(handed, Head(hbBuf))
           /\ UNCHANGED <<pdoBuf, otherBuf>>
  <2>1. /\ handed' \in Seq(Frame) /\ InOrder(handed') /\ UpTo(handed', routed')
        /\ Kept(hbBuf', handed', routed')
        /\ \A i \in 1..Len(hbBuf') : \E j \in 1..Len(hbBuf) : hbBuf'[i] = hbBuf[j]
        /\ \A r : Kept(r, handed, routed) /\ Apart(hbBuf, r) => Kept(r, handed', routed')
    BY <1>1, <1>3, FirstStep DEF QueuesInv
  <2>2. QueuesInv'
    BY <1>1, <1>3, <2>1, BuffersApart DEF QueuesInv
  <2>3. KindsApart'
    BY <1>1, <1>3, <2>1 DEF KindsApart
  <2> QED BY <1>2, <2>2, <2>3 DEF RouterInv
<1>4. CASE /\ pdoBuf # <<>> /\ pdoBuf' = Tail(pdoBuf) /\ handed' = Append(handed, Head(pdoBuf))
           /\ UNCHANGED <<hbBuf, otherBuf>>
  <2>1. /\ handed' \in Seq(Frame) /\ InOrder(handed') /\ UpTo(handed', routed')
        /\ Kept(pdoBuf', handed', routed')
        /\ \A i \in 1..Len(pdoBuf') : \E j \in 1..Len(pdoBuf) : pdoBuf'[i] = pdoBuf[j]
        /\ \A r : Kept(r, handed, routed) /\ Apart(pdoBuf, r) => Kept(r, handed', routed')
    BY <1>1, <1>4, FirstStep DEF QueuesInv
  <2>2. QueuesInv'
    BY <1>1, <1>4, <2>1, BuffersApart DEF QueuesInv
  <2>3. KindsApart'
    BY <1>1, <1>4, <2>1 DEF KindsApart
  <2> QED BY <1>2, <2>2, <2>3 DEF RouterInv
<1>5. CASE /\ otherBuf # <<>> /\ otherBuf' = Tail(otherBuf)
           /\ handed' = Append(handed, Head(otherBuf))
           /\ UNCHANGED <<hbBuf, pdoBuf>>
  <2>1. /\ handed' \in Seq(Frame) /\ InOrder(handed') /\ UpTo(handed', routed')
        /\ Kept(otherBuf', handed', routed')
        /\ \A i \in 1..Len(otherBuf') : \E j \in 1..Len(otherBuf) : otherBuf'[i] = otherBuf[j]
        /\ \A r : Kept(r, handed, routed) /\ Apart(otherBuf, r) => Kept(r, handed', routed')
    BY <1>1, <1>5, FirstStep DEF QueuesInv
  <2>2. QueuesInv'
    BY <1>1, <1>5, <2>1, BuffersApart DEF QueuesInv
  <2>3. KindsApart'
    BY <1>1, <1>5, <2>1 DEF KindsApart
  <2> QED BY <1>2, <2>2, <2>3 DEF RouterInv
<1> QED BY <1>3, <1>4, <1>5

(* A port hands out the frames set aside while it waited, in their order.  *)
LEMMA DrainStep == ASSUME RouterInv, DrainOverflow PROVE RouterInv'
<1>1. QueuesInv /\ KindsApart /\ CountInv /\ user # "demux"
  BY DEF RouterInv, KindsApart, DrainOverflow
<1>2. /\ handed' = handed \o overflow /\ overflow' = <<>> /\ call' = NoCall
      /\ UNCHANGED <<user, portNode, hbBuf, pdoBuf, otherBuf, overflowDropped, routed>>
  BY DEF DrainOverflow
<1>3. handed \in Seq(Frame) /\ routed \in Nat /\ InOrder(handed) /\ UpTo(handed, routed)
      /\ Kept(overflow, handed, routed)
  BY <1>1 DEF QueuesInv
<1>4. handed' \in Seq(Frame) /\ Len(handed') = Len(handed) + Len(overflow)
      /\ InOrder(handed') /\ UpTo(handed', routed)
  BY <1>2, <1>3, HandedAll
<1>5. \A q : q = <<>> => Kept(q, handed', routed)
  BY DEF Kept, Ascends, Precedes, UpTo
<1>6. QueuesInv'
  BY <1>1, <1>2, <1>3, <1>4, <1>5 DEF QueuesInv, KindsApart
<1>7. KindsApart' /\ CallInv'
  BY <1>1, <1>2 DEF KindsApart, CallInv
<1>8. CountInv'
  <2>1. Len(overflow') = 0
    BY <1>2
  <2>2. user = "sdo port" => routed = Len(handed) + Len(overflow) + overflowDropped
    BY <1>1 DEF CountInv
  <2> DEFINE a == Len(handed)
             b == Len(overflow)
             c == Len(handed')
             d == Len(overflow')
  <2>3. a \in Nat /\ b \in Nat /\ overflowDropped \in Nat /\ c = a + b /\ d = 0
    BY <1>4, <2>1, Lengths
  <2>4. user = "sdo port" => routed = a + b + overflowDropped
    BY <2>2
  <2> HIDE DEF a, b, c, d
  <2>5. ASSUME user = "sdo port" PROVE routed = c + d + overflowDropped
    <3>1. routed = a + b + overflowDropped
      BY <2>4, <2>5
    <3>2. c + d = a + b
      BY <2>3
    <3> QED BY <3>1, <3>2
  <2> QED BY <1>2, <2>3, <2>5 DEF CountInv, c, d
<1> QED BY <1>6, <1>7, <1>8 DEF RouterInv

(* A frame arrives: for the call that waits, for a buffer, or dropped.     *)
LEMMA ReceiveStep ==
    ASSUME RouterInv, NEW x \in RouterFrames, RouterReceive(x)
    PROVE  RouterInv'
<1> DEFINE f == [n |-> routed', id |-> x.id, full |-> x.full]
<1>1. QueuesInv /\ KindsApart /\ CallInv /\ CountInv
  BY DEF RouterInv
<1>2. /\ handed \in Seq(Frame) /\ routed \in Nat /\ InOrder(handed) /\ UpTo(handed, routed)
      /\ Kept(hbBuf, handed, routed) /\ Kept(pdoBuf, handed, routed)
      /\ Kept(otherBuf, handed, routed) /\ Kept(overflow, handed, routed)
  BY <1>1 DEF QueuesInv
<1>3. routed' = routed + 1 /\ call # NoCall /\ UNCHANGED <<user, portNode>>
  BY ZenonT(40) DEF RouterReceive
<1>4. f \in Frame /\ Number(f) = routed + 1
  BY <1>2, <1>3 DEF Frame, Number
<1>5. \/ /\ Wanted(f)
         /\ handed' = Append(handed, f) /\ call' = NoCall
         /\ UNCHANGED <<hbBuf, pdoBuf, otherBuf, overflow, overflowDropped>>
      \/ /\ ~Wanted(f) /\ call.kind \in {"heartbeat", "pdo", "demux sdo"}
         /\ RouteFrame(f)
         /\ UNCHANGED <<overflow, overflowDropped, call, handed>>
      \/ /\ ~Wanted(f) /\ call.kind \in {"sdo port", "heartbeat port"}
         /\ overflow' = KeptIn(overflow, f, PortCap)
         /\ overflowDropped' = IF call.kind = "sdo port" /\ Len(overflow) >= PortCap
                               THEN overflowDropped + 1 ELSE overflowDropped
         /\ UNCHANGED <<hbBuf, pdoBuf, otherBuf, call, handed>>
  BY DEF RouterReceive
<1> HIDE DEF f
<1>6. CASE /\ Wanted(f)
           /\ handed' = Append(handed, f) /\ call' = NoCall
           /\ UNCHANGED <<hbBuf, pdoBuf, otherBuf, overflow, overflowDropped>>
  <2>1. /\ handed' \in Seq(Frame) /\ Len(handed') = Len(handed) + 1
        /\ InOrder(handed') /\ UpTo(handed', routed')
        /\ \A q : Kept(q, handed, routed) /\ (\A j \in 1..Len(q) : ~SameSource(f, q[j])) =>
                    Kept(q, handed', routed')
    BY SMTT(30), <1>2, <1>3, <1>4, <1>6, HandedNew
  <2>2. \A q \in {hbBuf, pdoBuf, otherBuf, overflow} : \A j \in 1..Len(q) : ~SameSource(f, q[j])
    <3>1. CASE call.kind = "heartbeat"
      <4>1. IsHeartbeat(f, call.node) /\ \A i \in 1..Len(hbBuf) : ~IsHeartbeat(hbBuf[i], call.node)
        BY <3>1, <1>1, <1>3, <1>6 DEF Wanted, CallInv
      <4>2. IsHeartbeat(f, 0) /\ ~IsPdo(f)
        BY <4>1 DEF IsHeartbeat, IsPdo
      <4>3. \A j \in 1..Len(hbBuf) : ~SameSource(f, hbBuf[j])
        BY <4>1, <4>2 DEF SameSource, IsHeartbeat
      <4>4. \A j \in 1..Len(pdoBuf) : ~SameSource(f, pdoBuf[j])
        BY <4>2, <1>1, Sources DEF KindsApart
      <4>5. \A j \in 1..Len(otherBuf) : ~SameSource(f, otherBuf[j])
        BY <1>1, Sources DEF KindsApart
      <4>6. Len(overflow) = 0
        BY <3>1, <1>3, Callers
      <4> QED BY <4>3, <4>4, <4>5, <4>6
    <3>2. CASE call.kind = "pdo"
      <4>1. IsPdo(f) /\ Len(pdoBuf) = 0
        BY <3>2, <1>1, <1>3, <1>6 DEF Wanted, CallInv
      <4>2. \A j \in 1..Len(hbBuf) : ~SameSource(f, hbBuf[j])
        BY <4>1, <1>1, Sources DEF KindsApart
      <4>3. \A j \in 1..Len(otherBuf) : ~SameSource(f, otherBuf[j])
        BY <1>1, Sources DEF KindsApart
      <4>4. Len(overflow) = 0
        BY <3>2, <1>3, Callers
      <4> QED BY <4>1, <4>2, <4>3, <4>4
    <3>3. CASE call.kind \in {"demux sdo", "sdo port"}
      <4>1. f.id = SdoTx(Target)
        BY <3>3, <1>6 DEF Wanted
      <4> QED BY <4>1, Sources
    <3>4. CASE call.kind = "heartbeat port"
      <4>1. user = "heartbeat port" /\ IsHeartbeat(f, portNode)
        BY <3>4, <1>1, <1>3, <1>6 DEF Wanted, CallInv
      <4>2. \A j \in 1..Len(overflow) : ~SameSource(f, overflow[j])
        BY <4>1, <1>1 DEF KindsApart, SameSource, IsHeartbeat, IsPdo
      <4>3. Len(hbBuf) = 0 /\ Len(pdoBuf) = 0 /\ Len(otherBuf) = 0
        BY <4>1, <1>1 DEF KindsApart
      <4> QED BY <4>2, <4>3
    <3> QED BY ZenonT(40), <3>1, <3>2, <3>3, <3>4, <1>1, <1>3 DEF CallInv
  <2>3. QueuesInv'
    BY <1>2, <1>3, <1>6, <2>1, <2>2 DEF QueuesInv
  <2>4. KindsApart' /\ CallInv'
    BY <1>1, <1>3, <1>6 DEF KindsApart, CallInv
  <2>5. CountInv'
    <3> DEFINE a == Len(handed)
               b == Len(overflow)
               c == Len(handed')
               d == Len(overflow')
    <3>1. a \in Nat /\ b \in Nat /\ overflowDropped \in Nat /\ c = a + 1 /\ d = b
      BY <1>6, <2>1, Lengths
    <3>2. user = "sdo port" => routed = a + b + overflowDropped
      BY <1>1 DEF CountInv
    <3> HIDE DEF a, b, c, d
    <3>3. ASSUME user = "sdo port" PROVE routed' = c + d + overflowDropped
      <4>1. routed = a + b + overflowDropped
        BY <3>2, <3>3
      <4>2. routed + 1 = (a + 1) + b + overflowDropped
        BY <4>1, <3>1
      <4>3. c = a + 1 /\ d = b /\ routed' = routed + 1
        BY <1>3, <3>1
      <4> QED BY <4>2, <4>3
    <3> QED BY <1>3, <1>6, <3>1, <3>3 DEF CountInv, c, d
  <2> QED BY <2>3, <2>4, <2>5 DEF RouterInv
<1>7. CASE /\ ~Wanted(f) /\ call.kind \in {"heartbeat", "pdo", "demux sdo"}
           /\ RouteFrame(f)
           /\ UNCHANGED <<overflow, overflowDropped, call, handed>>
  <2>0. user = "demux"
    BY <1>1, <1>3, <1>7 DEF CallInv
  <2>1. UpTo(handed', routed')
    <3> SUFFICES ASSUME NEW i \in 1..Len(handed) PROVE Number(handed[i]) <= routed + 1
      BY <1>3, <1>7 DEF UpTo
    <3>1. Number(handed[i]) <= routed /\ Number(handed[i]) \in Nat
      BY <1>2, NumbersOf DEF UpTo
    <3> QED BY <1>2, <3>1
  <2>2. ASSUME NEW q, NEW cap, Kept(q, handed, routed)
        PROVE  /\ Kept(q, handed', routed') /\ Kept(KeptIn(q, f, cap), handed', routed')
               /\ \A i \in 1..Len(KeptIn(q, f, cap)) :
                     KeptIn(q, f, cap)[i] = f \/ (i \in 1..Len(q) /\ KeptIn(q, f, cap)[i] = q[i])
    <3>1. handed' = handed /\ routed' = routed + 1
      BY <1>3, <1>7
    <3> QED BY <1>2, <1>4, <2>2, <3>1, KeptNew
  <2>3. QueuesInv'
    <3>1. \A q \in {hbBuf, pdoBuf, otherBuf} : Kept(q, handed', routed')
      BY Zenon, <1>2, <2>2
    <3>2. Kept(overflow', handed', routed')
      BY <1>2, <1>7, <2>2
    <3>3. Kept(hbBuf', handed', routed')
      BY <1>2, <1>7, <2>2, <3>1 DEF RouteFrame
    <3>4. Kept(pdoBuf', handed', routed')
      BY <1>2, <1>7, <2>2, <3>1 DEF RouteFrame
    <3>5. Kept(otherBuf', handed', routed')
      BY <1>2, <1>7, <2>2, <3>1 DEF RouteFrame
    <3>6. routed' \in Nat /\ handed' \in Seq(Frame) /\ InOrder(handed')
      <4>1. routed' \in Nat
        BY <1>2, <1>3
      <4>2. handed' = handed
        BY <1>7
      <4>3. handed \in Seq(Frame) /\ InOrder(handed)
        BY <1>2
      <4> QED BY <4>1, <4>2, <4>3
    <3> QED BY <2>1, <3>2, <3>3, <3>4, <3>5, <3>6 DEF QueuesInv
  <2>4. KindsApart'
    <3>1. \A i \in 1..Len(hbBuf') : IsHeartbeat(hbBuf'[i], 0)
      <4>1. Kept(hbBuf, handed, routed) /\ \A i \in 1..Len(hbBuf) : IsHeartbeat(hbBuf[i], 0)
        BY <1>1, <1>2 DEF KindsApart
      <4>2. \A i \in 1..Len(KeptIn(hbBuf, f, HbCap)) :
               KeptIn(hbBuf, f, HbCap)[i] = f \/ (i \in 1..Len(hbBuf) /\ KeptIn(hbBuf, f, HbCap)[i] = hbBuf[i])
        BY <2>2, <4>1
      <4> QED BY <1>7, <4>1, <4>2 DEF RouteFrame
    <3>2. \A i \in 1..Len(pdoBuf') : IsPdo(pdoBuf'[i])
      <4>1. Kept(pdoBuf, handed, routed) /\ \A i \in 1..Len(pdoBuf) : IsPdo(pdoBuf[i])
        BY <1>1, <1>2 DEF KindsApart
      <4>2. \A i \in 1..Len(KeptIn(pdoBuf, f, PdoCap)) :
               KeptIn(pdoBuf, f, PdoCap)[i] = f \/ (i \in 1..Len(pdoBuf) /\ KeptIn(pdoBuf, f, PdoCap)[i] = pdoBuf[i])
        BY <2>2, <4>1
      <4> QED BY <1>7, <4>1, <4>2 DEF RouteFrame
    <3>3. \A i \in 1..Len(otherBuf') : ~IsHeartbeat(otherBuf'[i], 0) /\ ~IsPdo(otherBuf'[i])
      <4>1. Kept(otherBuf, handed, routed) /\ \A i \in 1..Len(otherBuf) : ~IsHeartbeat(otherBuf[i], 0) /\ ~IsPdo(otherBuf[i])
        BY <1>1, <1>2 DEF KindsApart
      <4>2. \A i \in 1..Len(KeptIn(otherBuf, f, OtherCap)) :
               KeptIn(otherBuf, f, OtherCap)[i] = f \/ (i \in 1..Len(otherBuf) /\ KeptIn(otherBuf, f, OtherCap)[i] = otherBuf[i])
        BY <2>2, <4>1
      <4> QED BY <1>7, <4>1, <4>2 DEF RouteFrame
    <3> QED BY <1>1, <1>3, <1>7, <2>0, <3>1, <3>2, <3>3 DEF KindsApart
  <2>5. CallInv'
    <3>1. CASE call.kind = "heartbeat"
      <4>1. \A i \in 1..Len(hbBuf) : ~IsHeartbeat(hbBuf[i], call.node)
        BY <3>1, <1>1, <1>3 DEF CallInv
      <4>2. ~IsHeartbeat(f, call.node)
        BY <3>1, <1>7 DEF Wanted
      <4>3. \A i \in 1..Len(hbBuf') : ~IsHeartbeat(hbBuf'[i], call.node)
        BY ZenonT(40), <1>2, <1>7, <2>2, <4>1, <4>2 DEF RouteFrame
      <4> QED BY <3>1, <1>3, <1>7, <2>0, <4>3 DEF CallInv
    <3>2. CASE call.kind = "pdo"
      <4>1. pdoBuf = <<>> /\ ~IsPdo(f)
        BY <3>2, <1>1, <1>3, <1>7 DEF CallInv, Wanted
      <4> QED BY <3>2, <1>3, <1>7, <2>0, <4>1 DEF CallInv, RouteFrame
    <3>3. CASE call.kind = "demux sdo"
      BY <3>3, <1>3, <1>7, <2>0 DEF CallInv
    <3> QED BY <3>1, <3>2, <3>3, <1>7
  <2>6. CountInv'
    BY <1>1, <1>3, <1>7, <2>0 DEF CountInv
  <2> QED BY <2>3, <2>4, <2>5, <2>6 DEF RouterInv
<1>8. CASE /\ ~Wanted(f) /\ call.kind \in {"sdo port", "heartbeat port"}
           /\ overflow' = KeptIn(overflow, f, PortCap)
           /\ overflowDropped' = IF call.kind = "sdo port" /\ Len(overflow) >= PortCap
                                 THEN overflowDropped + 1 ELSE overflowDropped
           /\ UNCHANGED <<hbBuf, pdoBuf, otherBuf, call, handed>>
  <2>0. user = call.kind /\ user # "demux"
    BY <1>1, <1>3, <1>8 DEF CallInv
  <2>1. UpTo(handed', routed')
    <3> SUFFICES ASSUME NEW i \in 1..Len(handed) PROVE Number(handed[i]) <= routed + 1
      BY <1>3, <1>8 DEF UpTo
    <3>1. Number(handed[i]) <= routed /\ Number(handed[i]) \in Nat
      BY <1>2, NumbersOf DEF UpTo
    <3> QED BY <1>2, <3>1
  <2>2. ASSUME NEW q, NEW cap, Kept(q, handed, routed)
        PROVE  /\ Kept(q, handed', routed') /\ Kept(KeptIn(q, f, cap), handed', routed')
               /\ \A i \in 1..Len(KeptIn(q, f, cap)) :
                     KeptIn(q, f, cap)[i] = f \/ (i \in 1..Len(q) /\ KeptIn(q, f, cap)[i] = q[i])
    <3>1. handed' = handed /\ routed' = routed + 1
      BY <1>3, <1>8
    <3> QED BY <1>2, <1>4, <2>2, <3>1, KeptNew
  <2>3. QueuesInv'
    <3>1. Kept(overflow', handed', routed')
      BY <1>2, <1>8, <2>2
    <3>2. Kept(hbBuf', handed', routed') /\ Kept(pdoBuf', handed', routed')
          /\ Kept(otherBuf', handed', routed')
      BY <1>2, <1>8, <2>2
    <3>3. routed' \in Nat /\ handed' \in Seq(Frame) /\ InOrder(handed')
      <4>1. routed' \in Nat
        BY <1>2, <1>3
      <4>2. handed' = handed
        BY <1>8
      <4>3. handed \in Seq(Frame) /\ InOrder(handed)
        BY <1>2
      <4> QED BY <4>1, <4>2, <4>3
    <3> QED BY <2>1, <3>1, <3>2, <3>3 DEF QueuesInv
  <2>4. KindsApart'
    <3>1. user = "heartbeat port" => ~IsHeartbeat(f, portNode)
      BY <2>0, <1>1, <1>3, <1>8 DEF Wanted, CallInv
    <3>2. user = "heartbeat port" => \A i \in 1..Len(overflow') : ~IsHeartbeat(overflow'[i], portNode)
      <4>1. \A i \in 1..Len(overflow') : overflow'[i] = f \/ (i \in 1..Len(overflow) /\ overflow'[i] = overflow[i])
        BY <1>2, <1>8, <2>2
      <4> QED BY <1>1, <4>1, <3>1 DEF KindsApart
    <3> QED BY <1>1, <1>3, <1>8, <2>0, <3>2 DEF KindsApart
  <2>5. CallInv'
    BY <1>1, <1>3, <1>8, <2>0 DEF CallInv
  <2>6. CountInv'
    <3> DEFINE a == Len(handed)
               b == Len(overflow)
               c == Len(overflow')
    <3>1. a \in Nat /\ b \in Nat /\ overflowDropped \in Nat /\ overflow \in Seq(Frame)
      BY Lengths
    <3>2. CASE user = "sdo port"
      <4>1. routed = a + b + overflowDropped
        BY <3>2, <1>1 DEF CountInv
      <4>2. c + overflowDropped' = b + overflowDropped + 1 /\ overflowDropped' \in Nat
        <5>1. CASE b >= PortCap
          <6>1. ~(b < PortCap)
            BY <3>1, <5>1, CapAssumption
          <6>2. overflow' = overflow /\ overflowDropped' = overflowDropped + 1
            BY <3>2, <5>1, <6>1, <1>8, <2>0 DEF KeptIn
          <6>3. c = b
            BY <6>2
          <6> HIDE DEF b, c
          <6> QED BY <3>1, <6>2, <6>3
        <5>2. CASE ~(b >= PortCap)
          <6>1. b < PortCap
            BY <3>1, <5>2, CapAssumption
          <6>2. overflow' = Append(overflow, f) /\ overflowDropped' = overflowDropped
            BY <5>2, <6>1, <1>8 DEF KeptIn
          <6>3. c = b + 1
            BY <6>2, <3>1, <1>4
          <6> HIDE DEF b, c
          <6> QED BY <3>1, <6>2, <6>3
        <5> QED BY <5>1, <5>2
      <4>3. c \in Nat /\ Len(handed') = a
        <5>1. overflow' \in Seq(Frame)
          BY <2>3 DEF QueuesInv, Kept
        <5>2. Len(overflow') \in Nat
          BY <5>1
        <5> QED BY <5>2, <1>8
      <4> HIDE DEF a, b, c
      <4> DEFINE d == overflowDropped'
      <4>4. d \in Nat /\ c + d = b + overflowDropped + 1
        BY <4>2
      <4> HIDE DEF d
      <4>5. routed' = a + c + d
        BY <3>1, <4>1, <4>3, <4>4, <1>3
      <4> QED BY <4>2, <4>3, <4>5 DEF CountInv, c, d
    <3>3. CASE user # "sdo port"
      BY <3>1, <3>3, <1>3, <1>8, <2>0 DEF CountInv
    <3> QED BY <3>2, <3>3
  <2> QED BY <2>3, <2>4, <2>5, <2>6 DEF RouterInv
<1> QED BY <1>5, <1>6, <1>7, <1>8

(* Every step of the router keeps RouterInv.                               *)
LEMMA RouterStep == RouterInv /\ [RouterNext]_routerVars => RouterInv'
<1> SUFFICES ASSUME RouterInv, [RouterNext]_routerVars PROVE RouterInv'
  OBVIOUS
<1>0. routed \in Nat
  BY DEF RouterInv, QueuesInv
<1>1. ASSUME NEW node, RecvHeartbeat(node) PROVE RouterInv'
  BY <1>1, RecvHeartbeatStep
<1>2. CASE RecvPdo
  <2>1. CASE pdoBuf = <<>>
    <3>1. /\ UNCHANGED <<user, portNode, hbBuf, pdoBuf, otherBuf, overflow, overflowDropped, routed, handed>>
          /\ call' = [kind |-> "pdo", node |-> 0] /\ user = "demux"
      BY <1>2, <2>1 DEF RecvPdo
    <3>2. QueuesInv' /\ KindsApart' /\ CountInv'
      BY <3>1 DEF RouterInv, QueuesInv, KindsApart, CountInv
    <3>3. CallInv'
      BY <2>1, <3>1 DEF CallInv
    <3> QED BY <3>2, <3>3 DEF RouterInv
  <2>2. CASE pdoBuf # <<>>
    BY <1>0, <1>2, <2>2, TakeStep DEF RecvPdo
  <2> QED BY <2>1, <2>2
<1>3. ASSUME NEW buf, TryRecvBuffered(buf) PROVE RouterInv'
  BY <1>0, <1>3, TakeStep DEF TryRecvBuffered
<1>4. CASE \/ PortReceive("heartbeat port", portNode)
           \/ \E kind \in {"demux sdo", "sdo port"} : PortReceive(kind, Target)
           \/ CallEnds \/ UNCHANGED routerVars
  <2>1. UNCHANGED <<user, portNode, hbBuf, pdoBuf, otherBuf, overflow, overflowDropped, routed, handed>>
    BY <1>4 DEF PortReceive, CallEnds, routerVars
  <2>2. QueuesInv' /\ KindsApart' /\ CountInv'
    BY <2>1 DEF RouterInv, QueuesInv, KindsApart, CountInv
  <2>3. CallInv'
    <3>1. CASE PortReceive("heartbeat port", portNode)
      BY <2>1, <3>1 DEF PortReceive, CallInv
    <3>2. CASE \E kind \in {"demux sdo", "sdo port"} : PortReceive(kind, Target)
      <4>1. PICK kind \in {"demux sdo", "sdo port"} : PortReceive(kind, Target)
        BY <3>2
      <4>2. call'.kind = kind /\ user = IF kind = "demux sdo" THEN "demux" ELSE kind
        BY <4>1 DEF PortReceive
      <4> QED BY <2>1, <4>1, <4>2 DEF CallInv
    <3>3. CASE CallEnds
      BY <3>3 DEF CallEnds, CallInv
    <3>4. CASE UNCHANGED routerVars
      BY <3>4 DEF routerVars, RouterInv, CallInv
    <3> QED BY <1>4, <3>1, <3>2, <3>3, <3>4
  <2> QED BY <2>2, <2>3 DEF RouterInv
<1>5. CASE DrainOverflow
  BY <1>5, DrainStep
<1>6. ASSUME NEW x \in RouterFrames, RouterReceive(x) PROVE RouterInv'
  BY <1>6, ReceiveStep
<1> QED BY <1>1, <1>2, <1>3, <1>4, <1>5, <1>6 DEF RouterNext

\* For every size of the buffers and whatever frames arrive between and during
\* the calls: the heartbeats of a node, and the PDOs, are handed on once and in
\* the order they arrived, and an SdoPort counts what it loses.
THEOREM RouterKeepsOrder == RouterSpec => []RoutedInOrder
<1>1. RouterInv => RoutedInOrder
  <2> SUFFICES ASSUME RouterInv PROVE RoutedInOrder
    OBVIOUS
  <2>1. handed \in Seq(Frame) /\ InOrder(handed)
    BY DEF RouterInv, QueuesInv
  <2>2. DOMAIN handed = 1..Len(handed)
    BY <2>1
  <2> QED BY <2>1, <2>2 DEF RouterInv, CountInv, RoutedInOrder, InOrder, Number
<1> QED BY <1>1, RouterStart, RouterStep, PTL DEF RouterSpec
=============================================================================
