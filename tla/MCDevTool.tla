------------------------------ MODULE MCDevTool ------------------------------
(***************************************************************************)
(* Instances of DevTool: the firmware's parameters, or three of them - a   *)
(* saved byte, the counter of the main loop and a runtime boolean.         *)
(***************************************************************************)
EXTENDS DevTool

\* main gets past its constructors' and registrations' assertions.
ASSUME FirmwareStartsUp == StartsUp(FirmwareDefinitions)

\* Registering one after the other fills the database in that order.
ASSUME RegisteredInOrder ==
  FoldLeft(registerParameter, ParameterDatabase(64), FirmwareDefinitions)
    = Registered(FirmwareDefinitions)

\* What EditsAreAccepted and TableMirrorsDevice are proved from.
ASSUME TableHasItsGrounds ==
  \A definitions \in {FirmwareDefinitions, Definitions} :
    /\ IdZeroIsFree(definitions)
    /\ WritersApart(definitions)
    /\ CounterIsReadOnly(definitions)

MCCrc8(bytes) == Len(bytes)

MCDefinitions ==
  <<FirmwareDefinitions[1], FirmwareDefinitions[3], FirmwareDefinitions[5]>>

MCOrders == {<<1, 2, 3>>, <<3, 1, 2>>}

\* The wrong type, a signal, an unknown id, too few bytes, no value, too many.
MCOtherWrites ==
  {<<2, uint16, 1, 0>>, <<4, uint32, 1, 0, 0, 0>>, <<9, uint8, 1>>, <<2>>,
   <<2, uint8>>, <<2, uint8, 9, 9>>}

\* A name that ends and one that does not.
MCUninitialised ==
  {[id |-> 0, category |-> 0, value_type |-> 0, read_write_access |-> 0, name |-> name] :
     name \in {<<1, 0>>, <<1, 1>>}}

=============================================================================
