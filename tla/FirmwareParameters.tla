-------------------------- MODULE FirmwareParameters -------------------------
(***************************************************************************)
(* The parameters the firmware registers and the variables behind them, as *)
(* main starts with them, and the one variable its main loop changes.      *)
(***************************************************************************)
EXTENDS ProtocolCommands

\* ParameterIds and parameters.h: the id and the type both sides compile in.
\* test_test has an id of its own; loop_back is spelt loob_back among the ids.
TestUint8  == [id |-> 2,   value_type |-> uint8]
TestUint16 == [id |-> 3,   value_type |-> uint16]
TestUint32 == [id |-> 4,   value_type |-> uint32]
TestFloat  == [id |-> 5,   value_type |-> floating_point]
TestBool   == [id |-> 6,   value_type |-> boolean]
LoopBack   == [id |-> 7,   value_type |-> uint8]
TestTest   == [id |-> 153, value_type |-> uint64]

\* A name is one character here and its null.
Name(c) == <<c, 0>>

\* main's variables; 3.1415 is 3 here.
InitialMemory ==
  [test_uint8  |-> Encode(uint8, 42),
   test_uint16 |-> Encode(uint16, 1337),
   test_uint32 |-> Encode(uint32, 123456),
   test_float  |-> Encode(floating_point, 3),
   test_bool   |-> Encode(boolean, 1),
   test_uint64 |-> Encode(uint64, 123456)]

\* In the order of registration.
FirmwareDefinitions ==
  <<SavedParameter(TestUint8, Name(1), "test_uint8"),
    SignalParameter(TestUint16, Name(2), "test_uint16"),
    SignalParameter(TestUint32, Name(3), "test_uint32"),
    SignalParameter(TestFloat, Name(4), "test_float"),
    RuntimeParameter(TestBool, Name(5), "test_bool"),
    RuntimeParameter(TestTest, Name(6), "test_uint64"),
    SignalParameter(LoopBack, Name(7), "test_uint8")>>

\* test_uint32++ at the end of every turn of the main loop.
CountedLoop(memory) ==
  [memory EXCEPT !.test_uint32 = Encode(uint32, Decode(uint32, @) + 1)]

\* registerParameter, once for each, into a buffer of 64.
Registered(definitions) ==
  [ParameterDatabase(64) EXCEPT !.registered = definitions]

\* What must hold for main to get past the constructors and registrations.
StartsUp(definitions) ==
  \A i \in DOMAIN definitions :
    /\ AccessFitsCategory(definitions[i].category, definitions[i].read_write_access)
    /\ CanRegister(Registered(SubSeq(definitions, 1, i - 1)), definitions[i])

=============================================================================
