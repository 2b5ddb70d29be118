--------------------------- MODULE ParameterSystem ---------------------------
(***************************************************************************)
(* The parameter system: value types and their sizes, the definitions that *)
(* tie a parameter id to a variable of the firmware, and the database the  *)
(* command handlers look them up in.                                       *)
(*                                                                         *)
(* The firmware's variables are a function memory: variable -> bytes.  A   *)
(* definition names a variable, so two definitions may share one (the      *)
(* loopback of main.cpp does).                                             *)
(***************************************************************************)
EXTENDS Bytes, SequencesExt

-----------------------------------------------------------------------------
(* ParameterValueType, ParameterCategory, ReadWriteAccess and              *)
(* ReadWriteResult, numbered as the enums are: the first three go over the *)
(* line as one byte each.                                                  *)
uint8          == 0
uint16         == 1
uint32         == 2
uint64         == 3
int8           == 4
int16          == 5
int32          == 6
int64          == 7
floating_point == 8
double_float   == 9
boolean        == 10
none           == 11

ParameterValueType == uint8..none
UnsignedType       == uint8..uint64
SignedType         == int8..int64
RealType           == {floating_point, double_float}

paramTypeIsNumeric(type) == type \in uint8..double_float

saved_parameter   == 0
runtime_parameter == 1
signal            == 2
ParameterCategory == saved_parameter..signal

read_only       == 0
read_write      == 1
ReadWriteAccess == read_only..read_write

result_ok            == "ok"
buffer_size_mismatch == "buffer_size_mismatch"
not_allowed          == "not_allowed"
ReadWriteResult      == {result_ok, buffer_size_mismatch, not_allowed}

\* sizeOfCppTypeByParameterValueType.
SizeOf(type) == CASE type \in {uint8, int8, boolean}         -> 1
                  [] type \in {uint16, int16}                -> 2
                  [] type \in {uint32, int32, floating_point} -> 4
                  [] type \in {uint64, int64, double_float}   -> 8
                  [] type = none                              -> 0

-----------------------------------------------------------------------------
(* The bytes of a value in memory, least significant first, negative       *)
(* numbers in two's complement.  A real number is a whole number here, in  *)
(* the width of its type: only that different values differ matters.       *)

\* n shifted right by i bytes, one byte at a time: 256^4 is past TLC's integers.
ShiftRight(n, i) ==
  LET shifted[k \in Nat] == IF k = 0 THEN n ELSE shifted[k - 1] \div (UINT8_MAX + 1)
  IN  shifted[i]

Encode(type, n) ==
  [i \in 1..SizeOf(type) |-> ShiftRight(n, i - 1) % (UINT8_MAX + 1)]

\* Of the k most significant bytes, for each k.
Magnitude(bytes) ==
  LET magnitude[k \in 0..Len(bytes)] ==
        IF k = 0 THEN 0
        ELSE magnitude[k - 1] * (UINT8_MAX + 1) + bytes[Len(bytes) + 1 - k]
  IN  magnitude[Len(bytes)]

IsNegative(type, bytes) ==
  type \in SignedType /\ bytes[Len(bytes)] > UINT8_MAX \div 2

\* The complement of a negative number is below its width.
Decode(type, bytes) ==
  CASE type = boolean          -> IF bytes = <<0>> THEN 0 ELSE 1
    [] IsNegative(type, bytes) -> -1 - Magnitude([i \in DOMAIN bytes |-> UINT8_MAX - bytes[i]])
    [] OTHER                   -> Magnitude(bytes)

-----------------------------------------------------------------------------
(* A definition: what the constructor is given, with the metadata spread   *)
(* out.  The name is one token for its text and a null.  No definition of  *)
(* the firmware has an on-change callback.                                 *)
ParameterDefinition(declaration, access, name, category, variable) ==
  [id                |-> declaration.id,
   category          |-> category,
   value_type        |-> declaration.value_type,
   read_write_access |-> access,
   name              |-> name,
   variable          |-> variable]

\* The constructor's assertions: the category decides the access.
AccessFitsCategory(category, access) ==
  access = IF category = signal THEN read_only ELSE read_write

SignalParameter(declaration, name, variable) ==
  ParameterDefinition(declaration, read_only, name, signal, variable)

SavedParameter(declaration, name, variable) ==
  ParameterDefinition(declaration, read_write, name, saved_parameter, variable)

RuntimeParameter(declaration, name, variable) ==
  ParameterDefinition(declaration, read_write, name, runtime_parameter, variable)

\* ParameterMetaData: what a definition tells about itself, without its variable.
getMetaData(def) ==
  [id                |-> def.id,
   category          |-> def.category,
   value_type        |-> def.value_type,
   read_write_access |-> def.read_write_access,
   name              |-> def.name]

valueIsWritable(def) == def.read_write_access = read_write

\* Mutation: the writable check dropped.
setUnchecked(def, memory, buff) ==
  IF Len(buff) < SizeOf(def.value_type)
  THEN [result |-> buffer_size_mismatch, memory |-> memory]
  ELSE [result |-> result_ok,
        memory |-> [memory EXCEPT ![def.variable] = SubSeq(buff, 1, SizeOf(def.value_type))]]

\* Mutation: the whole buffer is copied, not the size of the value.
setWholeBuffer(def, memory, buff) ==
  IF ~valueIsWritable(def)
  THEN [result |-> not_allowed, memory |-> memory]
  ELSE [result |-> result_ok, memory |-> [memory EXCEPT ![def.variable] = buff]]

\* Writability first, then the length; a longer buffer gives its head.
setValueRaw(def, memory, buff) ==
  IF ~valueIsWritable(def)
  THEN [result |-> not_allowed, memory |-> memory]
  ELSE IF Len(buff) < SizeOf(def.value_type)
  THEN [result |-> buffer_size_mismatch, memory |-> memory]
  ELSE [result |-> result_ok,
        memory |-> [memory EXCEPT ![def.variable] = SubSeq(buff, 1, SizeOf(def.value_type))]]

\* The bytes copied to a buffer of the given capacity.
getValueRaw(def, memory, capacity) ==
  IF capacity < SizeOf(def.value_type)
  THEN [result |-> buffer_size_mismatch, bytes |-> << >>]
  ELSE [result |-> result_ok, bytes |-> SubSeq(memory[def.variable], 1, SizeOf(def.value_type))]

-----------------------------------------------------------------------------
(* The database: a buffer of pointers filled from the front, null behind   *)
(* the registering index; here the sequence of the registered definitions. *)
ParameterDatabase(size) == [capacity |-> size, registered |-> << >>]

getAmountOfRegisteredParameters(db) == Len(db.registered)

getParameterDefinitions(db) == db.registered

NullDefinition == [nullptr |-> TRUE]

WithId(db, id) == {i \in DOMAIN db.registered : db.registered[i].id = id}

\* The first with the id.
getParameterDefinitionById(db, id) ==
  IF WithId(db, id) = {} THEN NullDefinition
  ELSE db.registered[CHOOSE i \in WithId(db, id) : \A j \in WithId(db, id) : i <= j]

getParameterDefinitionByIndex(db, index) ==
  IF index >= getAmountOfRegisteredParameters(db) THEN NullDefinition
  ELSE db.registered[index + 1]

\* The assertions of registerParameter.
CanRegister(db, def) ==
  /\ def # NullDefinition
  /\ getAmountOfRegisteredParameters(db) < db.capacity
  /\ getParameterDefinitionById(db, def.id) = NullDefinition

registerParameter(db, def) == [db EXCEPT !.registered = Append(@, def)]

=============================================================================
