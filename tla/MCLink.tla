------------------------------- MODULE MCLink -------------------------------
(***************************************************************************)
(* Devices for DeviceLink:                                                 *)
(*   mixed     types of all widths, mapped with fewer bits than they have  *)
(*             and not at byte boundaries                                  *)
(*   records   a sparse record, arrays that are read back as an array and  *)
(*             as a record, an additional SDO server                       *)
(*   twins     two TPDOs whose identifiers are the same for this node      *)
(*   remapped  dynamic mappings that a tool rewrites                       *)
(*   vendor    a sheet with padding, a PDO that is off and an object that  *)
(*             is mapped although it is not marked mappable                *)
(***************************************************************************)
EXTENDS DeviceLink

Default(form, v) == [form |-> form, v |-> v]

Var(index, name, ty, access, pdo, default) ==
    [index |-> index, name |-> <<name>>, kind |-> "var",
     subs |-> <<[sub |-> 0, name |-> <<name>>, ty |-> ty, access |-> access, pdo |-> pdo,
                 default |-> default]>>]

SubEntry(sub, name, ty, default) ==
    [sub |-> sub, name |-> <<name>>, ty |-> ty, access |-> "rw", pdo |-> TRUE, default |-> default]

ArrayEntry(index, name, ty, count) ==
    [index |-> index, name |-> <<name>>, kind |-> "array",
     subs |-> ArraySubs(<<name>>, ty, count, "rw", FALSE)]

Mapped(name, bits) == [name |-> <<name>>, bits |-> bits, dummy |-> 0]
Whole(name) == Mapped(name, NoBits)

PdoDef(dir, number, cob, kind, maps) ==
    [dir |-> dir, number |-> number, cob |-> cob, tt |-> 255, inhibit |-> 0, event |-> 100,
     kind |-> kind, maps |-> maps]

Mixed ==
    [entries |-> <<Var(\h2000, "run", "bool", "rw", TRUE, Default("lit", 1)),
                   Var(\h2001, "speed", "i16", "rw", TRUE, Default("expr", -300)),
                   Var(\h2002, "pos", "i24", "rw", TRUE, Default("lit", -2)),
                   Var(\h2003, "mask", "u8", "ro", TRUE, Default("hex", 128)),
                   Var(\h2004, "label", "visible_string", "rw", FALSE, Default("str", 65)),
                   Var(\h2005, "serial", "u32", "const", FALSE, Default("path", 7))>>,
     pdos |-> <<PdoDef("tpdo", 1, NoCob, "mutable",
                       <<Whole("run"), Mapped("speed", 12), Whole("mask"), Whole("pos")>>),
                PdoDef("rpdo", 1, Cob(FALSE, \h333), "immutable",
                       <<Whole("run"), Whole("speed"), Mapped("pos", 20)>>)>>,
     servers |-> {}]

Records ==
    [entries |-> <<[index |-> \h2100, name |-> <<"axis">>, kind |-> "record",
                    subs |-> <<SubEntry(1, "x", "u16", Default("expr", 5)),
                               SubEntry(3, "y", "i8", Default("not", 0))>>],
                   ArrayEntry(\h2200, "samples", "u8", 4),
                   ArrayEntry(\h2201, "gains", "u24", 2)>>,
     pdos |-> <<PdoDef("tpdo", 2, Cob(TRUE, \h1C0), "immutable", <<Mapped("x", 10), Whole("y")>>),
                PdoDef("rpdo", 1, NoCob, "immutable", <<Mapped("y", 5), Whole("x")>>)>>,
     servers |-> {[number |-> 2, rx |-> Cob(FALSE, \h640), tx |-> Cob(TRUE, \h5C0)]}]

Twins ==
    [entries |-> <<Var(\h2000, "a", "u8", "rw", TRUE, Default("lit", 255)),
                   Var(\h2001, "b", "u8", "rw", TRUE, Default("hex", 1))>>,
     pdos |-> <<PdoDef("tpdo", 1, NoCob, "mutable", <<Whole("a")>>),
                PdoDef("tpdo", 5, Cob(FALSE, \h185), "mutable", <<Whole("b")>>)>>,
     servers |-> {}]

Remapped ==
    [entries |-> <<Var(\h2000, "in", "u8", "rw", TRUE, NoDefault),
                   Var(\h2001, "wide", "u32", "ro", TRUE, Default("hex", 9)),
                   Var(\h2002, "hidden", "u8", "rw", FALSE, Default("lit", 3))>>,
     pdos |-> <<PdoDef("tpdo", 1, NoCob, "mutable", <<Whole("wide")>>),
                PdoDef("rpdo", 1, NoCob, "mutable", <<Whole("in")>>)>>,
     servers |-> {}]

Vendor ==
    [Export(Twins) EXCEPT ![<<\h1800, 1>>].default = Text("off", \h181),
                          ![<<\h1A04, 0>>].default = Text("hex", 2),
                          ![<<\h1A04, 1>>].default = Text("hex", \h50003),
                          ![<<\h1A04, 2>>].default = Text("hex", \h20010008),
                          ![<<\h2001, Main>>].pdo = FALSE,
                          ![<<\h2001, Main>>].access = "rww"]

MCDeclared ==
    [mixed |-> Mixed, records |-> Records, twins |-> Twins, remapped |-> Remapped,
     vendor |-> [sheet |-> Vendor]]

(* Values of an object, and what a tool writes to one.                     *)
Of(index, sub, bits, vs) == {<<<<index, sub>>, IntBits(v, bits)>> : v \in vs}

MCAppValues ==
    [mixed |-> Of(\h2000, 0, 8, {0, 1}) \cup Of(\h2001, 0, 16, {300, -1})
                   \cup Of(\h2002, 0, 32, {-2, 8388607}),
     records |-> Of(\h2100, 1, 16, {5, 1025}) \cup Of(\h2100, 3, 8, {-1, 15, 16})
                   \cup Of(\h2201, 2, 32, {0, 16777215}),
     twins |-> Of(\h2000, 0, 8, {0}) \cup Of(\h2001, 0, 8, {7}),
     remapped |-> Of(\h2000, 0, 8, {5}),
     vendor |-> Of(\h2001, 0, 8, {0, 170})]

Switched == [Zeros(32) EXCEPT ![32] = 1]

MCDownloads ==
    [mixed |-> Of(\h1800, 1, 32, {\h1A0}) \cup Of(\h2004, 0, 16, {66}),
     records |-> Of(\h2200, 1, 8, {1}),
     twins |-> Of(\h1804, 1, 32, {\h1A0}) \cup {<<<<\h1804, 1>>, Switched>>},
     remapped |-> Of(\h1600, 0, 8, 0..3) \cup Of(\h1A00, 0, 8, {0, 2})
                   \cup UNION {Of(\h1600, i, 32, {\h20000008, \h20010020, \h20020008, \h5003C}) : i \in 1..2}
                   \cup Of(\h1A00, 2, 32, {\h20010028, \h20000008}),
     vendor |-> Of(\h1800, 1, 32, {\h181})]

MCValues ==
    [s \in DOMAIN MCDeclared |->
        IF s = "mixed" THEN <<\h2001, Main>> :> Text("hex", 65535) ELSE <<>>]
=============================================================================
