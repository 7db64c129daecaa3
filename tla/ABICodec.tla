------------------------------ MODULE ABICodec ------------------------------
(***************************************************************************)
(* The contract ABI of accounts/abi: the encoding of arguments with heads, *)
(* tails and offsets, its decoder, the topics of indexed arguments, and    *)
(* the table of methods and events read from a JSON description.  Bytes    *)
(* are cells with Base values and a word is Word of them (32 bytes of 256  *)
(* values in the code); everything else keeps its layout.  A call is put   *)
(* together argument by argument, a description field by field.            *)
(***************************************************************************)
EXTENDS Integers, Sequences, SequencesExt, FiniteSets, FiniteSetsExt

CONSTANTS
  Base, Word,     \* the values of a cell, the cells of a word
  AddressCells,   \* the cells of an address, and of a function reference
  Arguments,      \* typed values: records of a type and a value of that type
  MaxArguments,   \* bound: the arguments of a call
  Fields,         \* the fields of a JSON description
  MaxFields       \* bound: the fields of a description

VARIABLES
  packing,           \* the arguments, in order
  methods,        \* abi.Methods: name to raw name and input types
  events,         \* abi.Events
  special,        \* which of constructor, fallback and receive are set
  parsed,         \* history: the fields read so far
  refused         \* UnmarshalJSON returned an error

codecVars == <<packing, methods, events, special, parsed, refused>>

-----------------------------------------------------------------------------
\* Types: T, the size in cells or in elements, the element, the fields.
RECURSIVE isDynamicType(_)
isDynamicType(t) ==
  \/ t.T \in {"string", "bytes", "slice"}
  \/ t.T = "array" /\ isDynamicType(t.elem)
  \/ t.T = "tuple" /\ \E i \in DOMAIN t.elems : isDynamicType(t.elems[i])

RECURSIVE getTypeSize(_)
getTypeSize(t) ==
  CASE t.T = "array" /\ ~isDynamicType(t.elem) -> t.size * getTypeSize(t.elem)
    [] t.T = "tuple" /\ ~isDynamicType(t) ->
         FoldLeft(LAMBDA n, e : n + getTypeSize(e), 0, t.elems)
    [] OTHER -> Word

requiresLengthPrefix(t) == t.T \in {"string", "bytes", "slice"}

\* Cells.  A number is written in two's complement over a whole word.
Zeros(n) == [i \in 1 .. n |-> 0]
packNum(x) ==
  LET u == x % Base^Word IN [i \in 1 .. Word |-> (u \div Base^(Word - i)) % Base]
ToNumber(cells) == FoldLeft(LAMBDA n, c : n * Base + c, 0, cells)
RightPad(s, n) == s \o Zeros(n - Len(s))
LeftPad(s, n) == Zeros(n - Len(s)) \o s

packBytesSlice_Unpadded(s) == packNum(Len(s)) \o s

packBytesSlice(s) ==
  packNum(Len(s)) \o RightPad(s, ((Len(s) + Word - 1) \div Word) * Word)

packElement(t, v) ==
  CASE t.T \in {"int", "uint"}           -> packNum(v)
    [] t.T \in {"string", "bytes"}       -> packBytesSlice(v)
    [] t.T = "address"                   -> LeftPad(v, Word)
    [] t.T = "bool"                      -> packNum(IF v THEN 1 ELSE 0)
    [] t.T \in {"fixedbytes", "function"} -> RightPad(v, Word)

RECURSIVE pack(_, _)

\* The heads and then the tails of a list of values: a static value is its
\* own head, a dynamic one is a tail its head points to.
HeadTail(types, values) ==
  LET start == FoldLeft(LAMBDA n, t : n + getTypeSize(t), 0, types)
      add(acc, i) ==
        LET cells == pack(types[i], values[i]) IN
        IF isDynamicType(types[i])
        THEN [head |-> acc.head \o packNum(acc.offset), tail |-> acc.tail \o cells,
              offset |-> acc.offset + Len(cells)]
        ELSE [acc EXCEPT !.head = @ \o cells]
      all == FoldLeft(add, [head |-> << >>, tail |-> << >>, offset |-> start],
                      [i \in DOMAIN types |-> i])
  IN  all.head \o all.tail

pack(t, v) ==
  CASE t.T = "slice" -> packNum(Len(v)) \o HeadTail([i \in DOMAIN v |-> t.elem], v)
    [] t.T = "array" -> HeadTail([i \in DOMAIN v |-> t.elem], v)
    [] t.T = "tuple" -> HeadTail(t.elems, v)
    [] OTHER         -> packElement(t, v)

-----------------------------------------------------------------------------
Err == [ok |-> FALSE]
Ok(v) == [ok |-> TRUE, v |-> v]
\* All of a sequence of results, or an error.
AllOf(rs) ==
  IF \A i \in DOMAIN rs : rs[i].ok THEN Ok([i \in DOMAIN rs |-> rs[i].v]) ELSE Err

\* output[a:b] of cells, positions counted from 0; what lies past the end
\* of the slice is not there.
Slice(out, a, b) == SubSeq(out, a + 1, IF b < Len(out) THEN b ELSE Len(out))
WordAt(out, index) == Slice(out, index, index + Word)

ReadInteger(t, word) ==
  LET u == ToNumber(Slice(word, Word - t.size, Word))
  IN  IF t.T = "int" /\ 2 * u >= Base^t.size THEN u - Base^t.size ELSE u

readBool(word) ==
  IF ToNumber(word) \in {0, 1} THEN Ok(ToNumber(word) = 1) ELSE Err

ReadFixedBytes(t, word) == Slice(word, 0, t.size)

\* A function reference is an address and a selector, then zeros.
readFunctionType(word) ==
  IF ToNumber(Slice(word, AddressCells, Word)) # 0 THEN Err
  ELSE Ok(Slice(word, 0, AddressCells))

\* The place and the length a length-prefixed value is found at.
lengthPrefixPointsTo_NoLength(index, out) ==
  LET end == ToNumber(WordAt(out, index)) + Word
  IN  IF end > Len(out) THEN Err
      ELSE Ok([start |-> end, length |-> ToNumber(WordAt(out, end - Word))])

lengthPrefixPointsTo(index, out) ==
  LET end == ToNumber(WordAt(out, index)) + Word IN
  IF end > Len(out) THEN Err
  ELSE LET length == ToNumber(WordAt(out, end - Word)) IN
       IF end + length > Len(out) THEN Err ELSE Ok([start |-> end, length |-> length])

\* tuplePointsTo, and the offset of a dynamic array.
pointsTo(index, out) ==
  LET offset == ToNumber(WordAt(out, index))
  IN  IF offset > Len(out) THEN Err ELSE Ok(offset)

\* Where the head of the i-th value begins: one word each, and the further
\* words ("virtual arguments") of the static arrays and tuples before it.
HeadAt_NoVirtual(types, i) == Word * (i - 1)

HeadAt(types, i) ==
  LET virtual(t) == IF t.T \in {"array", "tuple"} /\ ~isDynamicType(t)
                    THEN getTypeSize(t) \div Word - 1 ELSE 0
  IN  Word * (i - 1 + FoldLeft(LAMBDA n, t : n + virtual(t), 0, SubSeq(types, 1, i - 1)))

RECURSIVE toGoType(_, _, _)

forEachUnpack(t, out, size) ==
  IF Word * size > Len(out) THEN Err
  ELSE AllOf([j \in 1 .. size |-> toGoType((j - 1) * getTypeSize(t.elem), t.elem, out)])

forTupleUnpack(types, out) ==
  AllOf([i \in DOMAIN types |-> toGoType(HeadAt(types, i), types[i], out)])

toGoType(index, t, out) ==
  LET word  == WordAt(out, index)
      at    == IF requiresLengthPrefix(t) THEN lengthPrefixPointsTo(index, out)
               ELSE IF isDynamicType(t) THEN pointsTo(index, out) ELSE Ok(index)
      rest  == Slice(out, at.v, Len(out))
      bytes == Slice(out, at.v.start, at.v.start + at.v.length)
  IN  IF index + Word > Len(out) \/ ~at.ok THEN Err
      ELSE CASE t.T = "tuple"      -> forTupleUnpack(t.elems, rest)
             [] t.T = "array"      -> forEachUnpack(t, rest, t.size)
             [] t.T = "slice"      -> forEachUnpack(t, Slice(out, at.v.start, Len(out)),
                                                    at.v.length)
             [] t.T \in {"string", "bytes"} -> Ok(bytes)
             [] t.T \in {"int", "uint"}     -> Ok(ReadInteger(t, word))
             [] t.T = "bool"       -> readBool(word)
             [] t.T = "address"    -> Ok(Slice(word, Word - AddressCells, Word))
             [] t.T = "fixedbytes" -> Ok(ReadFixedBytes(t, word))
             [] t.T = "function"   -> readFunctionType(word)

-----------------------------------------------------------------------------
\* Arguments.Pack and Arguments.Unpack.
Pack(args) == HeadTail([i \in DOMAIN args |-> args[i].type],
                       [i \in DOMAIN args |-> args[i].value])
Unpack(types, data) ==
  IF Len(data) = 0 /\ Len(types) # 0 THEN Err ELSE forTupleUnpack(types, data)

\* A number of size cells, its sign extended over the word.
genIntType_NoSign(v, size) ==
  LeftPad(Slice(packNum(v), Word - size, Word), Word)

genIntType(v, size) ==
  [i \in 1 .. Word |-> IF i > Word - size THEN packNum(v)[i]
                       ELSE IF v < 0 THEN Base - 1 ELSE 0]

\* MakeTopics, for one rule: strings and bytes are hashed, a big number (one
\* that takes the whole word) is written without its sign.
MakeTopic(t, v) ==
  LET plain(w) == [hash |-> {}, word |-> w]
      magnitude == IF v < 0 THEN -v ELSE v
  IN  CASE t.T \in {"string", "bytes"}        -> [hash |-> {v}, word |-> << >>]
        [] t.T = "int" /\ t.size < Word       -> plain(genIntType(v, t.size))
        [] t.T = "uint" \/ (t.T = "int" /\ t.size = Word) -> plain(packNum(magnitude))
        [] OTHER                              -> plain(packElement(t, v))

\* parseTopicWithSetter, for one field: what was hashed stays a hash; a
\* function is looked for at the end of the word.
ParseTopic(t, topic) ==
  CASE t.T = "tuple" -> Err
    [] t.T \in {"string", "bytes", "slice", "array"} -> Ok(topic)
    [] t.T = "function" ->
         IF ToNumber(Slice(topic.word, 0, Word - AddressCells)) # 0 THEN Err
         ELSE Ok(Slice(topic.word, Word - AddressCells, Word))
    [] OTHER -> toGoType(0, t, topic.word)

\* overloadedMethodName and overloadedEventName: a name is a sequence, the
\* number put behind it its last element.
overloadedName_Once(names, raw) == IF raw \in names THEN Append(raw, 0) ELSE raw

overloadedName(names, raw) ==
  IF raw \notin names THEN raw
  ELSE Append(raw, Min({i \in 0 .. Cardinality(names) : Append(raw, i) \notin names}))

\* What NewMethod and NewEvent keep: a signature is the raw name and the
\* types of the inputs, and the id is a hash of the signature.
NewMethod(f) == [raw |-> f.name, types |-> f.types]
NewEvent(f) == [raw |-> f.name, types |-> f.types]

\* MethodById: the id is a hash of the raw name and the input types.
MethodById(id) == {n \in DOMAIN methods : methods[n] = id}

CodecInit ==
  /\ packing = << >> /\ methods = << >> /\ events = << >>
  /\ special = {} /\ parsed = << >> /\ refused = FALSE

\* The caller adds an argument to the call.
AddArgument(a) ==
  /\ Len(packing) < MaxArguments /\ parsed = << >>
  /\ packing' = Append(packing, a)
  /\ UNCHANGED <<methods, events, special, parsed, refused>>

With(table, name, entry) == [n \in DOMAIN table \cup {name} |->
                               IF n = name THEN entry ELSE table[n]]

\* UnmarshalJSON reads the next field.
ParseField(f) ==
  /\ ~refused /\ Len(parsed) < MaxFields /\ packing = << >>
  /\ parsed' = Append(parsed, f)
  /\ CASE f.type = "function" ->
            /\ methods' = With(methods, overloadedName(DOMAIN methods, f.name), NewMethod(f))
            /\ UNCHANGED <<events, special, refused>>
       [] f.type = "event" ->
            /\ events' = With(events, overloadedName(DOMAIN events, f.name), NewEvent(f))
            /\ UNCHANGED <<methods, special, refused>>
       [] f.type = "constructor" ->
            special' = special \cup {"constructor"} /\ UNCHANGED <<methods, events, refused>>
       [] f.type \in {"fallback", "receive"} ->
            /\ refused' = (f.type \in special \/ (f.type = "receive" /\ ~f.payable))
            /\ special' = special \cup (IF refused' THEN {} ELSE {f.type})
            /\ UNCHANGED <<methods, events>>
       [] OTHER -> refused' = TRUE /\ UNCHANGED <<methods, events, special>>
  /\ UNCHANGED packing

CodecNext ==
  \/ \E a \in Arguments : AddArgument(a)
  \/ \E f \in Fields : ParseField(f)

-----------------------------------------------------------------------------
Types == [i \in DOMAIN packing |-> packing[i].type]
Values == [i \in DOMAIN packing |-> packing[i].value]

(* Unpack gives back exactly what Pack was given, however static and       *)
(* dynamic, nested and negative values are mixed.                          *)
UnpacksWhatWasPacked ==
  packing # << >> => Unpack(Types, Pack(packing)) = Ok(Values)

(* An encoding cut short by any number of words is refused; it is never    *)
(* decoded into other values.                                              *)
TruncatedIsRefused ==
  \A n \in 0 .. Len(Pack(packing)) \div Word - 1 :
    ~Unpack(Types, Slice(Pack(packing), 0, n * Word)).ok

(* Every encoding is made of whole words, which is what getArguments asks  *)
(* of the output of a method.                                              *)
WholeWords == Len(Pack(packing)) % Word = 0

(* The topic that a filter is built with is the word that the contract     *)
(* logs for that value, and it is parsed back into the value.  (A negative *)
(* number of a full word is the exception, see MakeTopic; a function is    *)
(* written at one end of the word and read at the other.)                  *)
TopicsRoundTrip ==
  \A i \in DOMAIN packing :
    LET t == Types[i] v == Values[i] IN
    t.T \in {"int", "uint", "bool", "address", "fixedbytes"}
    /\ ~(t.T = "int" /\ t.size = Word /\ v < 0)
    => /\ MakeTopic(t, v).word = pack(t, v)
       /\ ParseTopic(t, MakeTopic(t, v)) = Ok(v)

(* No method or event of a description is lost to another of the same      *)
(* name: there are as many as there were fields, and every signature is    *)
(* found by its id.                                                        *)
NothingOverwritten ==
  LET read(type) == {i \in DOMAIN parsed : parsed[i].type = type} IN
  /\ Cardinality(DOMAIN methods) = Cardinality(read("function"))
  /\ Cardinality(DOMAIN events) = Cardinality(read("event"))
  /\ \A i \in read("function") :
       MethodById(NewMethod(parsed[i])) # {}

(* Decoding is the inverse of encoding, for arguments and for topics, and  *)
(* a description keeps all its entries.                                    *)
CodecConsistent ==
  /\ UnpacksWhatWasPacked /\ TruncatedIsRefused /\ WholeWords
  /\ TopicsRoundTrip
  /\ NothingOverwritten
=============================================================================
