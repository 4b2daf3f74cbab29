-------------------------------- MODULE Pci --------------------------------
(***************************************************************************)
(* PCI devices (hw/pci): drivers register for the identities of devices,   *)
(* discovery reads the configuration of each device on the bus and opens   *)
(* those that have a driver, a driver looks up capabilities of its device. *)
(* What the kernel answers, and what DeviceMatch of a driver does, is the  *)
(* environment's choice.                                                   *)
(***************************************************************************)
EXTENDS Integers, Sequences, FiniteSets, SequencesExt

CONSTANTS
  Vendors, Products,
  Drivers,
  None,        \* no driver
  Buses,       \* sequences of devices, in the order the directory lists them
  NumBars,     \* base address registers of a device, 6 in the program
  OddBars,     \* registers that the code misreads may occur (see Odd)
  FirstCap,    \* where capabilities may begin, 0x40 in the program
  Ones,        \* the byte 0xff
  Chains,      \* configurations that were read: [at |-> CapabilityOffset, bytes |-> from 0 on]
  Calls,       \* arguments of SetDriver: sequences of [kind, of]
  MaxCalls     \* bound on the calls of SetDriver

Ids == Vendors \X Products

PciAssumption == None \notin Drivers /\ NumBars \in Nat \ {0} /\ FirstCap \in Nat \ {0}
                 /\ OddBars \in BOOLEAN

VARIABLES
  drivers,     \* of each identity
  asked,       \* the registrations asked for, in order (history)
  nCalls,
  bus, todo,   \* the devices, and those that discovery has not come to
  resources,   \* those found for each device
  opened,      \* the devices that were opened, with their drivers, in order
  dma,         \* the DMA heap: "none", "ready", "failed"
  result,      \* of DiscoverDevices: "running", "ok", "error", "panic", "stuck"
  chain, answer

vars == <<drivers, asked, nCalls, bus, todo, resources, opened, dma, result, chain, answer>>

-----------------------------------------------------------------------------
(* Registration *)

\* The first registration for an identity stays
setDriver(table, v, id) == [table EXCEPT ![id] = IF @ = None THEN v ELSE @]

\* The identities that a call names: a vendor, also that of an identity, is for the
\* products after it
identities(args) ==
  FoldLeft(LAMBDA acc, a :
      CASE a.kind = "vendor" -> [acc EXCEPT !.vendor = a.of]
        [] a.kind = "id" -> [vendor |-> a.of[1], ids |-> Append(acc.ids, a.of)]
        [] a.kind = "ids" -> [acc EXCEPT !.ids = @ \o a.of]
        [] a.kind = "products" ->
             [acc EXCEPT !.ids = @ \o [k \in DOMAIN a.of |-> <<acc.vendor, a.of[k]>>]],
    [vendor |-> None, ids |-> <<>>], args).ids

\* The error of a duplicate is dropped
SetDriver(v, args) ==
  /\ todo = bus /\ nCalls < MaxCalls
  /\ drivers' = FoldLeft(LAMBDA table, id : setDriver(table, v, id), drivers, identities(args))
  /\ asked' = asked \o [k \in DOMAIN identities(args) |-> <<v, identities(args)[k]>>]
  /\ nCalls' = nCalls + 1
  /\ UNCHANGED <<bus, todo, resources, opened, dma, result, chain, answer>>

-----------------------------------------------------------------------------
(* Discovery *)

\* A register has an address, without its low 4 bits, and a kind: "mem", "mem64", "io", or
\* "io4" for a port address with bit 2 set
Valid(bar) == bar.addr # 0
is64(bar) == bar.kind \in {"mem64", "io4"}  \* the test of bits 2:1

\* The base address registers from i on; a 64-bit one takes the next as its upper half,
\* and at the last register there is none: index out of range
RECURSIVE resourcesFrom(_, _)
resourcesFrom(bars, i) ==
  IF i > NumBars THEN <<>>
  ELSE IF ~Valid(bars[i]) THEN resourcesFrom(bars, i + 1)
  ELSE <<[index |-> i, base |-> <<bars[i].addr, IF is64(bars[i]) THEN bars[i + 1].addr ELSE 0>>]>>
       \o resourcesFrom(bars, IF is64(bars[i]) THEN i + 2 ELSE i + 1)

NoUpperHalf(bars) == is64(bars[NumBars]) /\ \E r \in ToSet(resourcesFrom(
                       [bars EXCEPT ![NumBars].kind = "mem"], 1)) : r.index = NumBars

\* What may go wrong for a device, in the order in which it would
Outcomes == {"name", "config", "stat", "match", "no match", "bind", "uio", "dma", "none"}
Ends(how) == result' = how /\ UNCHANGED <<opened, dma>>

\* One round of the loop of DiscoverDevices, with Open and Init of a device whose driver
\* matches.  An error ends the discovery: the devices after this one are not looked at.
DiscoverDevice(outcome) ==
  /\ result = "running" /\ todo # <<>>
  /\ LET d == Head(todo)
         wanted == d.isNormal /\ drivers[d.id] # None
         found == IF NoUpperHalf(d.bars) THEN <<>> ELSE resourcesFrom(d.bars, 1)
     IN /\ outcome = "stat" => \E i \in 1..NumBars : Valid(d.bars[i])
        /\ outcome = "dma" => dma = "none"
        /\ resources' = Append(resources, IF wanted /\ outcome \notin {"name", "config", "stat"}
                                          THEN found ELSE <<>>)
        /\ IF outcome \in {"name", "config"} THEN Ends("error")
           ELSE IF ~wanted THEN UNCHANGED <<opened, dma, result>>
           ELSE IF outcome = "stat" THEN Ends("error")
           ELSE IF NoUpperHalf(d.bars) THEN Ends("panic")
           ELSE IF outcome \in {"match", "bind"} THEN Ends("error")
           ELSE IF outcome = "uio" THEN Ends("panic")
           ELSE IF outcome = "no match" THEN UNCHANGED <<opened, dma, result>>
           ELSE IF outcome = "dma" THEN dma' = "failed" /\ result' = "panic" /\ UNCHANGED opened
           ELSE /\ dma' = "ready"      \* by the first device that is opened
                /\ opened' = Append(opened, <<d, drivers[d.id]>>)
                /\ UNCHANGED result
  /\ todo' = Tail(todo)
  /\ UNCHANGED <<drivers, asked, nCalls, bus, chain, answer>>

Discovered == /\ result = "running" /\ todo = <<>>
              /\ result' = "ok"
              /\ UNCHANGED <<drivers, asked, nCalls, bus, todo, resources, opened, dma, chain, answer>>

-----------------------------------------------------------------------------
(* Capabilities *)

\* Seeded bug: a next offset of 0 does not end the list
Last_OnlyFF(next) == next = Ones
\* The offsets that end a list
LastCap(next) == next < FirstCap \/ next = Ones

Length == Cardinality(DOMAIN chain.bytes)

\* ForeachCap from offset o on, with the offsets it was at: a list that comes back to one
\* of them has no end.  It does not look whether the second byte of the header is there,
\* nor whether the first offset is one of a list: at 0, that of a device without
\* capabilities, it takes the vendor id for a header.
RECURSIVE walk(_, _, _)
walk(c, o, seen) ==
  IF o >= Length THEN "not found"
  ELSE IF o + 1 >= Length THEN "panic"
  ELSE IF o \in seen THEN "never ends"
  ELSE IF chain.bytes[o] = c THEN "found"
  ELSE IF LastCap(chain.bytes[o + 1]) THEN "not found"
  ELSE walk(c, chain.bytes[o + 1], seen \cup {o})

\* A driver looks for a capability of a device that is open; while the discovery runs, in
\* the Init that it calls
FindCap(c) ==
  /\ opened # <<>> /\ result \notin {"panic", "stuck"} /\ answer.is # "never ends"
  /\ answer' = [cap |-> c, is |-> walk(c, chain.at, {})]
  /\ result' = CASE answer'.is = "panic" -> "panic"
                 [] answer'.is = "never ends" /\ result = "running" -> "stuck"
                 [] OTHER -> result
  /\ UNCHANGED <<drivers, asked, nCalls, bus, todo, resources, opened, dma, chain>>

-----------------------------------------------------------------------------
(* What the registers say: a 64-bit memory register takes the next as its upper half *)

RECURSIVE IsUpper(_, _)
Wide(bars, i) == bars[i].kind = "mem64" /\ i < NumBars /\ ~IsUpper(bars, i)
IsUpper(bars, i) == i > 1 /\ bars[i - 1].kind = "mem64" /\ ~IsUpper(bars, i - 1)

HasAddress(bars, i) == /\ ~IsUpper(bars, i)
                       /\ bars[i].addr # 0 \/ (Wide(bars, i) /\ bars[i + 1].addr # 0)

\* The registers that the code reads otherwise: one with a zero lower half is skipped and its
\* upper half taken for a register, and a port address with bit 2 set counts as 64 bits wide
Odd(bars) == \E i \in 1..NumBars : ~IsUpper(bars, i) /\
               (bars[i].kind = "io4" \/ (Wide(bars, i) /\ bars[i].addr = 0 /\ bars[i + 1].addr # 0))

-----------------------------------------------------------------------------
Init == /\ drivers = [id \in Ids |-> None] /\ asked = <<>> /\ nCalls = 0
        /\ bus \in Buses /\ todo = bus
        /\ OddBars \/ \A k \in DOMAIN bus : ~Odd(bus[k].bars)
        /\ resources = <<>> /\ opened = <<>>
        /\ dma = "none" /\ result = "running"
        /\ chain \in Chains /\ answer = [cap |-> 0, is |-> "not asked"]

Next == \/ \E v \in Drivers, args \in Calls : SetDriver(v, args)
        \/ \E outcome \in Outcomes : DiscoverDevice(outcome)
        \/ Discovered
        \/ \E c \in Range(chain.bytes) : FindCap(c)

Spec == Init /\ [][Next]_vars

-----------------------------------------------------------------------------
\* The first driver that asked for an identity has it (setDriver); a device is opened by
\* the driver of its identity and with the DMA heap there; unless an error ended it,
\* discovery left no device out (DiscoverDevices, Open).
FirstDriverOpens ==
  /\ \A id \in Ids : LET claims == SelectSeq(asked, LAMBDA a : a[2] = id)
                     IN drivers[id] = IF claims = <<>> THEN None ELSE claims[1][1]
  /\ \A k \in DOMAIN opened : opened[k][1].isNormal /\ opened[k][2] = drivers[opened[k][1].id]
  /\ opened # <<>> => dma = "ready"
  /\ result = "ok" => Len(resources) = Len(bus)

\* A device has one resource for each register that has an address and is not the upper
\* half of a 64-bit memory register, with the upper half in its base (DiscoverDevices).
ResourcesExact ==
  \A k \in DOMAIN resources :
    LET bars == bus[k].bars
        given == {i \in 1..NumBars : HasAddress(bars, i)}
    IN resources[k] = <<>> \/
         /\ {r.index : r \in ToSet(resources[k])} = given /\ Len(resources[k]) = Cardinality(given)
         /\ \A r \in ToSet(resources[k]) :
              r.base = <<bars[r.index].addr, IF Wide(bars, r.index) THEN bars[r.index + 1].addr ELSE 0>>

\* The offsets of a list, and of the capabilities on it, as far as the configuration was read
RECURSIVE listed(_)
listed(S) == LET next == {chain.bytes[o + 1] : o \in {p \in S : p + 1 < Length}}
                 more == S \cup {o \in next : FirstCap <= o /\ o # Ones /\ o < Length}
             IN IF more = S THEN S ELSE listed(more)

\* A capability is found if and only if it is in the part that was read of the list that
\* starts at CapabilityOffset; only for one that is not does a circular list keep ForeachCap
\* forever, and only a header on the last byte makes it panic.  (For a device without
\* capabilities that list is the one its vendor id seems to head: pci.go:359-381.)
CapFound ==
  LET offsets == listed({chain.at} \cap DOMAIN chain.bytes)
      caps == {chain.bytes[o] : o \in {p \in offsets : p + 1 < Length}}
  IN /\ answer.is = "found" => answer.cap \in caps
     /\ answer.is \in {"not found", "never ends"} => answer.cap \notin caps
     /\ answer.is = "not found" => Length - 1 \notin offsets
     /\ answer.is = "panic" => Length - 1 \in offsets
=============================================================================
