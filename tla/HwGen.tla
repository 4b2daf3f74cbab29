------------------------------- MODULE HwGen -------------------------------
(***************************************************************************)
(* The generator of register accessors (hw/hwgen/hwgen.go) on the files    *)
(* that module HwGenParser takes: constants, the offsets and sizes in bits *)
(* of structs and bit fields, the Go struct and the get and set methods    *)
(* that are written for them.  After an error or a panic nothing is        *)
(* written: m.stopped stands for both.                                     *)
(***************************************************************************)
EXTENDS HwGenParser, Bitwise

CONSTANTS
  IntValue,    \* of an integer literal
  UintSize,    \* of a uintN: N
  Word,        \* constants are modulo Word, 2^64 in the program
  OddFields    \* the properties also speak of bit fields that the code misplaces (see Written)

HwGenAssumption == OddFields \in BOOLEAN /\ IntValue \in [Ints -> Nat] /\ UintSize \in [UintNames -> Nat]

VARIABLES
  m,      \* [consts, types, regSize, addrSize, stopped, x]
  todo    \* the type declarations to size

hwVars == <<vars, m, todo>>

Stop(n) == [n EXCEPT !.stopped = TRUE]
Type(n, name) == n.types[name]
DeclsOf(kind) == SelectSeq(decls, LAMBDA d : d[1] = kind)
DeclOf(kind, name) == {d \in ToSet(DeclsOf(kind)) : name \in names(d[3])}

-----------------------------------------------------------------------------
(* Constants *)

ok(v) == [v |-> v % Word, ok |-> TRUE]
fail == [v |-> 0, ok |-> FALSE]

apply(op, x, y) ==
  CASE op = "+" -> ok(x + y)
    [] op = "-" -> ok(x + Word - y)
    [] op = "*" -> ok(x * y)
    [] op \in {"/", "%"} /\ y = 0 -> fail
    [] op = "/" -> ok(x \div y)
    [] op = "%" -> ok(x % y)
    [] op = "&" -> ok(x & y)
    [] op = "|" -> ok(x | y)
    [] op = "^" -> ok(x ^^ y)
    [] op = "<<" -> ok(IF 2^y >= Word THEN 0 ELSE x * 2^y)
    [] op = ">>" -> ok(IF 2^y >= Word THEN 0 ELSE x \div 2^y)
    [] OTHER -> fail

\* A name stands for the first value of its declaration, whichever of the declaration's
\* names it is (evalValueSpec).  A name that needs itself, one in seen, never gets a value:
\* the program runs out of stack.
RECURSIVE evalIn(_, _)
evalIn(e, seen) ==
  CASE e[1] = "int" -> ok(IntValue[At(e[2])])
    [] e[1] = "ident" ->
         IF NameOf(e) \in seen \/ DeclOf("const", NameOf(e)) = {} THEN fail
         ELSE evalIn((CHOOSE d \in DeclOf("const", NameOf(e)) : TRUE)[4][1], seen \cup {NameOf(e)})
    [] e[1] = "paren" -> evalIn(e[3], seen)
    [] e[1] = "binary" -> LET x == evalIn(e[3], seen)
                              y == evalIn(e[4], seen)
                          IN IF x.ok /\ y.ok THEN apply(At(e[2]), x.v, y.v) ELSE fail
    [] OTHER -> fail
eval(e) == evalIn(e, {})

\* evalConst, for one declaration
evalConst(n, d) ==
  IF Len(d[3]) # Len(d[4]) \/ \E k \in DOMAIN d[4] : ~eval(d[4][k]).ok THEN Stop(n)
  ELSE [n EXCEPT !.consts = [name \in names(d[3]) |->
                               eval(d[4][CHOOSE k \in DOMAIN d[3] : NameOf(d[3][k]) = name]).v] @@ @]

-----------------------------------------------------------------------------
(* Sizes and offsets, in bits *)

Member(name, typ, offset, size, len, bits, fields) ==
  [name |-> name, typ |-> typ, offset |-> offset, size |-> size, len |-> len, bits |-> bits,
   fields |-> fields]

\* acc is the state of sizeStruct's loop: [n, offset, size, fields]
add(acc, f) == [acc EXCEPT !.fields = Append(@, f)]
\* A member at the current offset
append(acc, f) == [add(acc, f) EXCEPT !.offset = @ + f.size, !.size = @ + f.size]
halt(acc) == [acc EXCEPT !.n = Stop(@)]

\* A member [hi:lo] of a bit field; what follows it without a position starts at hi
rangeMember(acc, name, hi, lo) ==
  LET size == 1 + (hi - lo)
      r == add(acc, Member(name, "", lo, size, 0, FALSE, <<>>))
  IN IF hi < lo THEN halt(acc)
     ELSE IF hi > acc.offset THEN [r EXCEPT !.offset = hi, !.size = lo + size] ELSE r

\* A member (N) of a bit field: the bit N
bitMember(acc, name, n) ==
  LET r == add(acc, Member(name, "", n, 1, 0, FALSE, <<>>))
  IN IF n > acc.offset THEN [r EXCEPT !.offset = n, !.size = n + 1]
     ELSE [r EXCEPT !.offset = @ + 1, !.size = @ + 1]

RECURSIVE sizeType(_, _), sizeStruct(_, _, _)

\* The type of a name; stopped if it names none.  It is left in x.
typeNamed(n, name) ==
  IF DeclOf("type", name) = {} THEN Stop(n)
  ELSE Then(sizeType(n, CHOOSE d \in DeclOf("type", name) : TRUE), LAMBDA r :
         IF r.stopped THEN r ELSE [r EXCEPT !.x = Type(r, name)])

structMember(acc, name, typ) ==
  Then(sizeStruct(acc.n, typ[3], typ[4]), LAMBDA sub :
    IF sub.n.stopped \/ (typ[4] /\ sub.size > sub.n.regSize) THEN halt(acc)
    ELSE append([acc EXCEPT !.n = sub.n],
                Member(name, "", acc.offset, IF typ[4] THEN sub.n.regSize ELSE sub.size, 0,
                       typ[4], sub.fields)))

\* A member with a length or a range; the state before is acc and its element type elt
sizedMember(acc, elt, name, len, isBitfield) ==
  CASE elt.stopped \/ len = None -> halt(acc)
    [] ~elt.stopped /\ len # None /\ len[1] = "range" ->
         Then(<<eval(len[3]), eval(len[4])>>, LAMBDA r :
           IF isBitfield /\ r[1].ok /\ r[2].ok
           THEN rangeMember([acc EXCEPT !.n = elt], name, r[1].v, r[2].v) ELSE halt(acc))
    [] OTHER ->
         Then(eval(len), LAMBDA l :
           IF ~l.ok THEN halt(acc)
           ELSE IF isBitfield THEN bitMember([acc EXCEPT !.n = elt], name, l.v)
           ELSE append([acc EXCEPT !.n = elt],
                       Member(name, "", acc.offset, elt.x.size * l.v, l.v, FALSE, <<>>)))

arrayMember(acc, name, typ, isBitfield) ==
  Then(CASE typ[4] = None -> [acc.n EXCEPT !.x = [size |-> acc.n.regSize]]
         [] IsIdent(typ[4]) -> typeNamed(acc.n, NameOf(typ[4]))
         [] OTHER -> Stop(acc.n), LAMBDA elt : sizedMember(acc, elt, name, typ[3], isBitfield))

\* Members of a declared type, or of the type "1", the only one without a declaration
namedMembers(acc, idents, typeName) ==
  Then(IF typeName = "1" THEN acc.n ELSE typeNamed(acc.n, typeName), LAMBDA n :
    IF n.stopped THEN halt(acc)
    ELSE FoldLeft(LAMBDA a, id :
             append(a, Member(NameOf(id), typeName, a.offset,
                              IF typeName = "1" THEN 1 ELSE n.x.size, 0, FALSE, <<>>)),
           [acc EXCEPT !.n = n], idents))

\* ...OFFSET: on to an address, counted in units of addrSize
moveTo(acc, e, tag) ==
  Then(IF tag = "" THEN acc.n
       ELSE Then(typeNamed(acc.n, tag), LAMBDA r :
              IF r.stopped THEN r ELSE [r EXCEPT !.addrSize = r.x.size]), LAMBDA n :
  Then(eval(e), LAMBDA units :
  Then(units.v * n.addrSize, LAMBDA to :
    IF ~units.ok \/ n.stopped THEN halt(acc)
    ELSE [acc EXCEPT !.n = n, !.offset = to, !.size = IF to > @ THEN to ELSE @])))

\* One entry of the field list: a member for each of its names
sizeField(acc, f, isBitfield) ==
  LET typ == IF f[1] = "field" THEN f[4] ELSE f[3]
      idents == IF f[1] = "field" THEN f[3] ELSE <<>>
  IN CASE acc.n.stopped -> acc
       [] ~acc.n.stopped /\ IsIdent(typ) -> namedMembers(acc, idents, NameOf(typ))
       [] ~acc.n.stopped /\ typ[1] \in {"struct", "array"} ->
            FoldLeft(LAMBDA a, id :
                CASE a.n.stopped -> a
                  [] ~a.n.stopped /\ typ[1] = "struct" -> structMember(a, NameOf(id), typ)
                  [] OTHER -> arrayMember(a, NameOf(id), typ, isBitfield),
              acc, idents)
       [] OTHER -> moveTo(acc, f[3], f[4])

sizeStruct(n, fields, isBitfield) ==
  FoldLeft(LAMBDA acc, f : sizeField(acc, f, isBitfield),
           [n |-> n, offset |-> 0, size |-> 0, fields |-> <<>>], fields)

\* A type is entered before it is sized, with size 0: what refers to itself finds that
sizeType(n, d) ==
  LET name == NameOf(d[3][1])
      entered == [n EXCEPT !.types = name :> Member(name, name, 0, 0, 1, FALSE, <<>>) @@ @]
      finish(r, s) == IF r.stopped THEN r ELSE [r EXCEPT !.types[name] = s @@ @]
      typ == d[4]
      uint == UintSize[NameOf(typ)]
      sized == typ[1] = "array" /\ typ[3] # None
      elt == IF typ[1] = "array" THEN typ[4] ELSE typ
  IN IF name \in DOMAIN n.types THEN n
     ELSE IF IsIdent(typ)
     THEN IF NameOf(typ) \notin UintNames THEN Stop(n)
          ELSE finish(IF d[5] THEN [entered EXCEPT !.regSize = uint, !.addrSize = uint] ELSE entered,
                      [size |-> uint])
     ELSE Then(IF sized THEN eval(typ[3]) ELSE ok(1), LAMBDA len :
       IF ~len.ok \/ (elt # None /\ elt[1] # "struct") THEN Stop(n)
       ELSE IF elt = None THEN finish(entered, [size |-> IF sized THEN len.v ELSE 0])
       ELSE Then(sizeStruct(entered, elt[3], elt[4]), LAMBDA body :
         IF typ[1] = "array" /\ elt[4]
            /\ (IF sized THEN len.v ELSE body.size) > body.n.regSize THEN Stop(n)
         ELSE finish(body.n,
                [size |-> IF ~elt[4] THEN body.size * len.v ELSE IF sized THEN len.v ELSE body.size,
                 len |-> len.v, bits |-> elt[4], fields |-> body.fields])))

-----------------------------------------------------------------------------
(* What is generated *)

Shown(s) == {f \in ToSet(s.fields) : f.name # "_"}

\* namedTypeForStruct: a member of a named type is read and written by members
Nested(f) == f.typ \in DOMAIN m.types /\ f.name # f.typ

\* Seeded bug: the members of a nested bit field are taken at their own offsets
bitOffset_Own(f, offset) == f.offset
\* Where the members of a bit field are that is itself at offset
bitOffset(f, offset) == f.offset + offset

\* genStructFieldGet and genStructFieldSet: the places of the values in the register;
\* neither enters a type that is no bit field
RECURSIVE places(_, _, _)
places(s, path, offset) ==
  IF ~s.bits THEN {}
  ELSE UNION {LET at == bitOffset(f, offset)
              IN IF Nested(f) THEN places(m.types[f.typ], Append(path, f.name), at)
                 ELSE {[path |-> Append(path, f.name), offset |-> at, size |-> f.size]} : f \in Shown(s)}

\* A value gives each of the places its set of bits
set(value) == UNION {{pl.offset + b : b \in value[pl] \cap 0 .. pl.size - 1} : pl \in DOMAIN value}
get(s, reg) == [pl \in places(s, <<>>, 0) |-> {b \in 0 .. pl.size - 1 : pl.offset + b \in reg}]

\* The registers to skip before a member (genStruct)
gap(to, from) == to \div m.regSize - from \div m.regSize

\* genStruct: the index of each member in the struct, counted in registers
goStruct(s) ==
  FoldLeft(LAMBDA acc, f :
      LET index == IF f.offset > acc.offset THEN acc.index + gap(f.offset, acc.offset) ELSE acc.index
          from == IF f.offset > acc.offset THEN f.offset ELSE acc.offset
      IN [offset |-> from + f.size, index |-> index + (IF f.len > 1 THEN f.len ELSE 1),
          at |-> Append(acc.at, index)],
    [offset |-> 0, index |-> 0, at |-> <<>>], s.fields).at

-----------------------------------------------------------------------------
HwInit == /\ Init
          /\ m = [consts |-> << >>, types |-> << >>, regSize |-> 0, addrSize |-> 0,
                  stopped |-> FALSE, x |-> None]
          /\ todo = <<>>

Parse == Next /\ UNCHANGED <<m, todo>>

\* evalConsts: addresses are of bytes unless the file has a constant of that name
EvalConsts ==
  /\ phase = "done" /\ p.errors = <<>>
  /\ LET n == FoldLeft(evalConst, m, DeclsOf("const"))
     IN m' = [n EXCEPT !.addrSize = IF "address" \in DOMAIN n.consts THEN n.consts["address"] ELSE 8]
  /\ todo' = DeclsOf("type")
  /\ phase' = "sizes"
  /\ UNCHANGED <<input, p, decls>>

SizeType ==
  /\ phase = "sizes" /\ todo # <<>> /\ ~m.stopped
  /\ m' = [sizeType(m, Head(todo)) EXCEPT !.x = None]
  /\ todo' = Tail(todo)
  /\ UNCHANGED vars

HwNext == Parse \/ EvalConsts \/ SizeType

HwSpec == HwInit /\ [][HwNext]_hwVars

-----------------------------------------------------------------------------
Generated == phase = "sizes" /\ todo = <<>> /\ ~m.stopped

\* The types that the members of a type are of, and theirs.  A bit field among its own has
\* no finite get and set; findCycles looks only at a kind of member that there never is, so
\* the generator runs out of stack.
RECURSIVE reached(_)
reached(S) == LET T == S \cup {f.typ : f \in UNION {ToSet(m.types[n].fields) : n \in S}}
              IN IF T \cap DOMAIN m.types = S THEN S ELSE reached(T \cap DOMAIN m.types)
Circular(name) ==
  \E n \in reached({name}) : n \in reached({f.typ : f \in ToSet(m.types[n].fields)} \cap DOMAIN m.types)

\* What is written of a bit field: the type of each member, and the bits that it gives
BodyOf(name) == LET typ == (CHOOSE d \in DeclOf("type", name) : TRUE)[4]
                IN IF typ[1] = "array" THEN typ[4] ELSE typ
MemberTypes(body) ==
  FlattenSeq([i \in DOMAIN body[3] |-> [j \in DOMAIN body[3][i][3] |-> body[3][i][4]]])
IsRange(typ) == typ[1] = "array" /\ typ[3][1] = "range"
Given(typ) == CASE IsRange(typ) -> eval(typ[3][4]).v .. eval(typ[3][3]).v
                [] typ[1] = "array" /\ ~IsRange(typ) -> {eval(typ[3]).v}
                [] OTHER -> {}

\* The bits of the members as they are written: those that are given, or else those after the
\* member before.  sound is FALSE if two members have a bit in common; and, unless OddFields,
\* if a member gives no position after one that skips to its own, or if a range of one bit is
\* at the bit that is next anyway: the first are placed too low, and the second not counted.
Written(name) ==
  FoldLeft(LAMBDA acc, typ :
      LET g == Given(typ)
          bits == IF g # {} THEN g
                  ELSE acc.next .. acc.next + m.types[name].fields[Len(acc.bits) + 1].size - 1
          odd == (g = {} /\ acc.skipped) \/ (IsRange(typ) /\ ~acc.skipped /\ g = {acc.next})
      IN [bits |-> Append(acc.bits, bits),
          next |-> IF bits = {} THEN acc.next ELSE Max(bits) + 1,
          skipped |-> acc.skipped \/ (g # {} /\ g # {acc.next}),
          sound |-> /\ acc.sound /\ (odd => OddFields)
                    /\ \A k \in DOMAIN acc.bits : acc.bits[k] \cap bits = {}],
    [bits |-> <<>>, next |-> 0, skipped |-> FALSE, sound |-> TRUE], MemberTypes(BodyOf(name)))

\* A bit field without ... (which counts in addresses), of members apart from each other, that
\* is large enough for them if it gives its size: [N]{...}
WellWritten(name) ==
  LET typ == (CHOOSE d \in DeclOf("type", name) : TRUE)[4]
      w == Written(name)
  IN /\ m.types[name].bits /\ \A f \in ToSet(BodyOf(name)[3]) : f[1] = "field"
     /\ w.sound
     /\ typ[1] = "array" /\ typ[3] # None => \A k \in DOMAIN w.bits : \A b \in w.bits[k] : b < eval(typ[3]).v

\* The members of a well-written bit field are at the bits where they are written, and its
\* size covers them (sizeStruct).
PlacedAsWritten ==
  Generated =>
    \A name \in {n \in DOMAIN m.types : ~Circular(n) /\ WellWritten(n)} :
      LET s == m.types[name]
      IN \A k \in DOMAIN s.fields :
           LET bits == Written(name).bits[k]
           IN /\ bits = s.fields[k].offset .. s.fields[k].offset + s.fields[k].size - 1
              /\ \A b \in bits : b < s.size

\* For a bit field that is well written, as are those of its members, what set wrote get
\* reads: each bit of each value, nested ones included, and no other (genStructFieldGet,
\* genStructFieldSet).
GetReadsSet ==
  Generated =>
    \A name \in {n \in DOMAIN m.types : ~Circular(n)} :
      (\A n \in reached({name}) : m.types[n].bits => WellWritten(n)) =>
         LET at == places(m.types[name], <<>>, 0)
         IN \A pl \in at : \A b \in 0 .. pl.size - 1 :
              LET value == [q \in at |-> IF q = pl THEN {b} ELSE {}]
              IN get(m.types[name], set(value)) = value

WholeRegisters(s) == \A f \in ToSet(s.fields) :
                       /\ f.offset % m.regSize = 0 /\ f.fields = <<>>
                       /\ f.size = m.regSize * (IF f.len > 1 THEN f.len ELSE 1)
Ascending(s) == \A i, j \in DOMAIN s.fields :
                  i < j => s.fields[i].offset + s.fields[i].size <= s.fields[j].offset

\* If the members of a struct are at ascending places, its size covers them; if they are
\* whole registers, the generated Go struct has each of them at the offset that was computed
\* for it (sizeStruct, genStruct).
StructsPlaced ==
  Generated /\ m.regSize > 0 =>
    \A name \in DOMAIN m.types :
      LET s == m.types[name]
      IN ~s.bits /\ Ascending(s) =>
           \A k \in DOMAIN s.fields :
             /\ s.len * (s.fields[k].offset + s.fields[k].size) <= s.size
             /\ WholeRegisters(s) => goStruct(s)[k] * m.regSize = s.fields[k].offset
=============================================================================
