------------------------------ MODULE PciNames ------------------------------
(***************************************************************************)
(* The names pcidesc.cpp gives to vendors, devices, classes, subclasses    *)
(* and programming interfaces.  A name is [table, code] for a text the     *)
(* source spells out, and what "%.4X" prints into calloc(6) otherwise.     *)
(***************************************************************************)
EXTENDS Integers, Sequences

\* At least four hexadecimal digits, most significant first, and a NUL.
sprintf4X(n) == <<n \div \h1000, (n \div \h100) % 16, (n \div 16) % 16, n % 16, 0>>

\* The switch of a naming function, and the three lines behind it.
Named(table, texts, code) ==
  IF code \in texts THEN [table |-> table, code |-> code]
  ELSE [calloc |-> 6, text |-> sprintf4X(code)]

IsText(name) == "table" \in DOMAIN name

deviceClasses == 0 .. 19

getVendor(vendorID) == Named("vendor", {\h1234, \h8086, \h1022, \h10DE}, vendorID)

DeviceTexts ==
  [v \in {\h1234, \h8086} |->
     IF v = \h1234 THEN {\h1111}
     ELSE {\h9b63, \ha3af, \ha3b1, \ha3ba, \ha382, \ha3da, \ha3a1, \ha3f0, \ha3a3, \h1911,
           \h1901, \h0D55, \h29c0, \h10d3, \h2934, \h2935, \h2936, \h293A, \h2918, \h2922,
           \h2930}]

getDeviceName(vendorID, deviceID) ==
  Named(<<"device", vendorID>>,
        IF vendorID \in DOMAIN DeviceTexts THEN DeviceTexts[vendorID] ELSE {}, deviceID)

Other == \h80   \* the subclass most classes call "Other"

unclassifiedSubclass == 0 .. 1
mscSubclass == 0 .. 8 \cup {Other}
netSubclass == 0 .. 8 \cup {Other}
displaySubclass == 0 .. 2 \cup {Other}
multimediaSubclass == 0 .. 3 \cup {Other}
memorySubclass == 0 .. 1 \cup {Other}
bridgeSubclass == 0 .. \h0A \cup {Other}
simpleCOMSubclass == 0 .. 5 \cup {Other}
baseSysPerSubclass == 0 .. 6 \cup {Other}
inputDevSubclass == 0 .. 4 \cup {Other}
dockingStationSubclass == {0, Other}
procSubclass == 0 .. 3 \cup {\h10, \h20, \h30, \h40, Other}
sbcSubclass == 0 .. 9 \cup {Other}
wirelessSubclass == {0, 1, \h10, \h11, \h12, \h20, \h21, Other}
intelligentControlerSubclass == {0}
sccSubclass == 0 .. 3
encryptSubclass == {0, \h10, Other}
spcSubclass == {0, 1, \h10, \h20, Other}

SubclassTexts ==
  <<unclassifiedSubclass, mscSubclass, netSubclass, displaySubclass, multimediaSubclass,
    memorySubclass, bridgeSubclass, simpleCOMSubclass, baseSysPerSubclass, inputDevSubclass,
    dockingStationSubclass, procSubclass, sbcSubclass, wirelessSubclass,
    intelligentControlerSubclass, sccSubclass, encryptSubclass, spcSubclass>>

getSubclassName(classCode, subclassCode) ==
  Named(<<"subclass", classCode>>,
        IF classCode < Len(SubclassTexts) THEN SubclassTexts[classCode + 1] ELSE {},
        subclassCode)

\* Per class: subclass, progIF of the texts.
ProgIF(subclass, texts) == { <<subclass, t>> : t \in texts }

mscProgIF ==
  ProgIF(1, {0, 5, \h0A, \h0F, \h80, \h85, \h8A, \h8F}) \cup ProgIF(5, {\h20, \h30})
    \cup ProgIF(6, 0 .. 2) \cup ProgIF(7, 0 .. 1) \cup ProgIF(8, 1 .. 2)
displayProgIF == ProgIF(0, 0 .. 1)
bridgeProgIF == ProgIF(4, 0 .. 1) \cup ProgIF(8, 0 .. 1) \cup ProgIF(9, {\h40, \h80})
simpleCOMProgIF == ProgIF(0, 0 .. 6) \cup ProgIF(1, 0 .. 3 \cup {\hFE}) \cup ProgIF(3, 0 .. 4)
baseSysPerProgIF ==
  ProgIF(0, {0, 1, 2, \h10, \h20}) \cup ProgIF(1, 0 .. 2) \cup ProgIF(2, 0 .. 3)
    \cup ProgIF(3, 0 .. 1)
inputDevProgIF == ProgIF(4, {0, \h10})
sbcProgIF ==
  ProgIF(0, {0, \h10}) \cup ProgIF(3, {0, \h10, \h20, \h30, \h80, \hFE}) \cup ProgIF(7, 0 .. 2)

ProgIFTexts(classCode) ==
  CASE classCode = 1 -> mscProgIF [] classCode = 3 -> displayProgIF
    [] classCode = 6 -> bridgeProgIF [] classCode = 7 -> simpleCOMProgIF
    [] classCode = 8 -> baseSysPerProgIF [] classCode = 9 -> inputDevProgIF
    [] classCode = \h0C -> sbcProgIF [] OTHER -> {}

getProgIFName(classCode, subclassCode, progIF) ==
  Named(<<"progIF", classCode, subclassCode>>,
        { t[2] : t \in { u \in ProgIFTexts(classCode) : u[1] = subclassCode } }, progIF)
=============================================================================
